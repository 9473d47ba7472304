-------------------------- MODULE EventIngress_proofs --------------------------
(***************************************************************************)
(* An event's processing starts at most once, for any number of events,    *)
(* invocations, requests, deliveries and crashes, and once more at most    *)
(* for each post of it when it was old, unless a call to Redis throws for  *)
(* it or a request outlives its key.                                       *)
(***************************************************************************)
EXTENDS EventIngress, TLAPS

(* Request r has been told that e is new and has not acted on it yet.      *)
Claims(r, e) == request[r].event = e /\ request[r].pc \in {"expire", "new"}

(* Whoever holds the claim to an event holds it alone, while its key keeps *)
(* others out and before it is processed once more; once it is, the key    *)
(* stays until only posts of old events come and nothing is under way.     *)
EventOK(e) ==
  /\ \A r, s \in Requests : Claims(r, e) /\ Claims(s, e) => r = s
  /\ \A r \in Requests : Claims(r, e) => key[e] # "absent" /\ processed[e] <= late[e]
  /\ processed[e] <= 1 + late[e]
  /\ key[e] = "absent" => processed[e] <= late[e] \/ (e \in old /\ Quiet(e))

IInv == TypeOK /\ \A e \in Events \ doubtful : EventOK(e)

-----------------------------------------------------------------------------
LEMMA IdleTyped == IdleLambda \in LambdaState /\ IdleRequest \in RequestState
  BY DEF IdleLambda, LambdaState, RequestState

(* A request that is not idle is under way, and stays so when it goes on.  *)
LEMMA GoesOn ==
  ASSUME TypeOK, NEW r \in Requests, request[r].pc # "idle",
         NEW pc \in {"setnx", "expire", "new", "duplicate", "run"}
  PROVE  /\ request[r] \in UnderWay
         /\ [request[r] EXCEPT !.pc = pc] \in UnderWay
         /\ [request[r] EXCEPT !.pc = pc].pc = pc
         /\ [request[r] EXCEPT !.pc = pc].event = request[r].event
<1>1. request[r] \in UnderWay
  BY DEF TypeOK, RequestState, IdleRequest
<1>. QED BY <1>1 DEF UnderWay

LEMMA InitInv == Init => IInv
<1> SUFFICES ASSUME Init PROVE IInv
  OBVIOUS
<1>1. TypeOK
  BY IdleTyped DEF Init, TypeOK
<1>2. \A r \in Requests : request[r].pc = "idle"
  BY DEF Init, IdleRequest
<1>3. \A e \in Events : processed[e] = 0 /\ late[e] = 0
  BY DEF Init
<1>4. ASSUME NEW e \in Events PROVE EventOK(e)
  <2>1. \A r \in Requests : ~Claims(r, e)
    BY <1>2 DEF Claims
  <2>. QED BY <1>3, <2>1 DEF EventOK
<1>. QED BY <1>1, <1>4 DEF IInv

(* A step that gives nobody a claim to e, does not remove its key, does    *)
(* not count it and starts a request about it only while it is young.      *)
LEMMA Untouched ==
  ASSUME NEW e, EventOK(e), key[e] # "absent" => key'[e] # "absent",
         processed'[e] = processed[e], late'[e] = late[e], old \subseteq old',
         \A r \in Requests : Claims(r, e)' => Claims(r, e),
         e \in old => \A r \in Requests : request'[r].event = e => request[r].event = e
  PROVE  EventOK(e)'
  BY DEF EventOK, Quiet

(* A request r goes on with rec.                                           *)
LEMMA Served ==
  ASSUME TypeOK, NEW r \in Requests, NEW rec, Serve(r, rec)
  PROVE  /\ request'[r] = rec
         /\ \A s \in Requests \ {r} : request'[s] = request[s]
         /\ rec \in RequestState => request' \in [Requests -> RequestState]
  BY DEF TypeOK, Serve

(* What a forwarder is told keeps its type.                                *)
LEMMA Told ==
  ASSUME TypeOK, NEW r \in Requests, NEW rec \in LambdaState, Tell(r, rec)
  PROVE  lambda' \in [Lambdas -> LambdaState]
  BY DEF TypeOK, Tell

(* A delivery or a post claims nothing yet; a post of an old event counts. *)
LEMMA DeliverInv ==
  ASSUME IInv, NEW r \in Requests, NEW e \in Events,
         Post(r, e) \/ \E l \in Lambdas : Deliver(l, r, e)
  PROVE  IInv'
<1>0. TypeOK
  BY DEF IInv
<1>1. PICK k \in {"check", "process"}, b \in Lambdas \cup {None} :
        Serve(r, [pc |-> "setnx", kind |-> k, event |-> e, by |-> b])
  BY DEF Deliver, Post
<1> DEFINE rec == [pc |-> "setnx", kind |-> k, event |-> e, by |-> b]
<1>2. rec \in RequestState
  BY DEF RequestState, UnderWay
<1>3. /\ UNCHANGED <<key, old, processed, reported, doubtful, crashes>>
      /\ deliveries' \in [Events -> Nat] /\ lambda' \in [Lambdas -> LambdaState]
      /\ late' \in [Events -> Nat] /\ \A d \in Events : d # e => late'[d] = late[d]
      /\ late'[e] = IF e \in old THEN late[e] + 1 ELSE late[e]
  <2>1. CASE Post(r, e)
    BY <1>0, <2>1 DEF Post, TypeOK
  <2>2. ASSUME NEW l \in Lambdas, Deliver(l, r, e) PROVE <1>3
    BY <1>0, <2>2 DEF Deliver, TypeOK, LambdaState
  <2>. QED BY <2>1, <2>2
<1>4. /\ request'[r] = rec /\ request' \in [Requests -> RequestState]
      /\ \A s \in Requests \ {r} : request'[s] = request[s]
  BY <1>0, <1>1, <1>2, Served
<1>5. TypeOK'
  BY <1>0, <1>3, <1>4 DEF TypeOK
<1>6. ASSUME NEW d \in Events \ doubtful' PROVE EventOK(d)'
  <2>1. EventOK(d)
    BY <1>3 DEF IInv
  <2>2. \A s \in Requests : Claims(s, d)' => Claims(s, d)
    BY <1>4 DEF Claims
  <2>3. CASE d # e \/ e \notin old
    <3>1. d \in old => \A s \in Requests : request'[s].event = d => request[s].event = d
      BY <1>3, <1>4, <2>3
    <3>. QED BY <1>3, <2>1, <2>2, <2>3, <3>1, Untouched
  <2>4. CASE d = e /\ e \in old
    <3>1. processed[d] \in Nat /\ late[d] \in Nat /\ late'[d] = late[d] + 1
      BY <1>0, <1>3, <2>4 DEF TypeOK
    <3>2. processed'[d] <= late'[d]
      BY <1>3, <2>1, <3>1 DEF EventOK
    <3>. QED BY <1>3, <2>1, <2>2, <3>1, <3>2 DEF EventOK
  <2>. QED BY <2>3, <2>4
<1>. QED BY <1>5, <1>6 DEF IInv

(* SETNX gives a claim to an event nobody has a claim to.                  *)
LEMMA SetnxInv ==
  ASSUME IInv, NEW r \in Requests, Setnx(r)
  PROVE  IInv'
<1> DEFINE e == request[r].event
<1>0. TypeOK
  BY DEF IInv
<1>1. UNCHANGED redisVars /\ request[r].pc = "setnx"
  BY DEF Setnx
<1>2. PICK pc \in {"expire", "duplicate"} :
        /\ Proceed(r, pc)
        /\ pc = "expire" => key[e] = "absent" /\ key' = [key EXCEPT ![e] = "persistent"]
        /\ pc = "duplicate" => UNCHANGED key
  BY DEF Setnx
<1>3. /\ request'[r] = [request[r] EXCEPT !.pc = pc]
      /\ \A s \in Requests \ {r} : request'[s] = request[s]
      /\ request' \in [Requests -> RequestState]
  <2>1. [request[r] EXCEPT !.pc = pc] \in RequestState
    BY <1>0, <1>1, GoesOn DEF RequestState
  <2>. QED BY <1>0, <1>2, <2>1, Served DEF Proceed
<1>4. key' \in [Events -> {"absent", "persistent", "volatile"}]
  BY <1>0, <1>2 DEF TypeOK
<1>5. TypeOK'
  BY <1>0, <1>1, <1>3, <1>4 DEF TypeOK, redisVars
<1>50. request'[r].event = e /\ request'[r].pc = pc
  BY <1>0, <1>1, <1>3, GoesOn
<1>6. ASSUME NEW d \in Events \ doubtful' PROVE EventOK(d)'
  <2>1. EventOK(d)
    BY <1>1 DEF IInv, redisVars
  <2>2. CASE d # e \/ pc = "duplicate"
    <3>1. key'[d] = key[d]
      BY <1>0, <1>2, <2>2 DEF TypeOK
    <3>2. \A s \in Requests : Claims(s, d)' => Claims(s, d)
      BY <1>3, <1>50, <2>2 DEF Claims
    <3>3. \A s \in Requests : request'[s].event = d => request[s].event = d
      BY <1>3, <1>50
    <3>. QED BY <1>1, <2>1, <3>1, <3>2, <3>3, Untouched DEF redisVars
  <2>3. CASE d = e /\ pc = "expire"
    <3>1. key[d] = "absent" /\ key'[d] = "persistent"
      BY <1>0, <1>2, <2>3 DEF TypeOK
    <3>2. \A s \in Requests : ~Claims(s, d)
      BY <2>1, <3>1 DEF EventOK
    <3>3. ~Quiet(d)
      BY <2>3 DEF Quiet
    <3>4. processed[d] <= late[d] /\ processed[d] \in Nat /\ late[d] \in Nat
      BY <1>0, <2>1, <3>1, <3>3 DEF EventOK, TypeOK
    <3>5. \A s \in Requests : Claims(s, d)' => s = r
      BY <1>3, <3>2 DEF Claims
    <3>6. processed'[d] <= late'[d] /\ processed'[d] <= 1 + late'[d]
      BY <1>1, <3>4 DEF redisVars
    <3>. QED BY <3>1, <3>5, <3>6 DEF EventOK
  <2>. QED BY <1>2, <2>2, <2>3
<1>. QED BY <1>5, <1>6 DEF IInv

(* EXPIRE keeps the claim and the key.                                     *)
LEMMA ExpireInv ==
  ASSUME IInv, NEW r \in Requests, Expire(r)
  PROVE  IInv'
<1>0. TypeOK
  BY DEF IInv
<1>1. UNCHANGED redisVars /\ request[r].pc = "expire" /\ Serve(r, [request[r] EXCEPT !.pc = "new"])
  BY DEF Expire, Proceed
<1>2. /\ key' \in [Events -> {"absent", "persistent", "volatile"}]
      /\ \A d \in Events : key[d] # "absent" => key'[d] # "absent"
  BY <1>0 DEF Expire, TypeOK
<1> DEFINE rec == [request[r] EXCEPT !.pc = "new"]
<1>3. rec \in RequestState /\ rec.event = request[r].event
  BY <1>0, <1>1, GoesOn DEF RequestState
<1>4. /\ request'[r] = rec /\ request' \in [Requests -> RequestState]
      /\ \A s \in Requests \ {r} : request'[s] = request[s]
  BY <1>0, <1>1, <1>3, Served
<1>5. TypeOK'
  BY <1>0, <1>1, <1>2, <1>4 DEF TypeOK, redisVars
<1>6. ASSUME NEW d \in Events \ doubtful' PROVE EventOK(d)'
  <2>1. EventOK(d)
    BY <1>1 DEF IInv, redisVars
  <2>2. \A s \in Requests : request'[s].event = request[s].event
    BY <1>3, <1>4
  <2>3. \A s \in Requests : Claims(s, d)' => Claims(s, d)
    BY <1>1, <1>4, <2>2 DEF Claims
  <2>. QED BY <1>1, <1>2, <2>1, <2>2, <2>3, Untouched DEF redisVars
<1>. QED BY <1>5, <1>6 DEF IInv

(* Once Redis throws for an event, nothing is promised for it.             *)
LEMMA FailsOpenInv ==
  ASSUME IInv, NEW r \in Requests, FailsOpen(r)
  PROVE  IInv'
<1> DEFINE e == request[r].event
<1>0. TypeOK
  BY DEF IInv
<1>1. /\ UNCHANGED <<lambda, old, deliveries, late, processed, reported, crashes>>
      /\ Serve(r, [request[r] EXCEPT !.pc = "new"])
      /\ doubtful' = doubtful \cup {e} /\ request[r].pc # "idle"
  BY DEF FailsOpen, Proceed
<1>2. /\ key' \in [Events -> {"absent", "persistent", "volatile"}]
      /\ \A d \in Events : d # e => key'[d] = key[d]
  BY <1>0 DEF FailsOpen, TypeOK
<1> DEFINE rec == [request[r] EXCEPT !.pc = "new"]
<1>3. rec \in RequestState /\ rec.event = e /\ e \in Events
  BY <1>0, <1>1, GoesOn DEF RequestState, UnderWay
<1>4. /\ request'[r] = rec /\ request' \in [Requests -> RequestState]
      /\ \A s \in Requests \ {r} : request'[s] = request[s]
  BY <1>0, <1>1, <1>3, Served
<1>5. TypeOK'
  BY <1>0, <1>1, <1>2, <1>3, <1>4 DEF TypeOK
<1>6. ASSUME NEW d \in Events \ doubtful' PROVE EventOK(d)'
  <2>1. EventOK(d) /\ d # e
    BY <1>1 DEF IInv
  <2>2. \A s \in Requests : request'[s].event = request[s].event
    BY <1>3, <1>4
  <2>3. \A s \in Requests : Claims(s, d)' => Claims(s, d)
    BY <1>4, <2>1, <2>2 DEF Claims
  <2>. QED BY <1>1, <1>2, <2>1, <2>2, <2>3, Untouched
<1>. QED BY <1>5, <1>6 DEF IInv

(* Answering a request gives up its claim.                                 *)
LEMMA AnswerInv ==
  ASSUME IInv, NEW r \in Requests, AnswerCheck(r) \/ Skip(r) \/ Finish(r)
  PROVE  IInv'
<1>0. TypeOK
  BY DEF IInv
<1>1. request[r].pc # "idle" /\ UNCHANGED <<answerVars, processed>>
  BY DEF AnswerCheck, Skip, Finish
<1>2. request[r] \in UnderWay
  BY <1>0, <1>1, GoesOn
<1>3. PICK rec \in RequestState :
        /\ Serve(r, rec) /\ rec.pc \in {"idle", "setnx"} /\ rec.event \in {None, request[r].event}
  <2>1. IdleRequest \in RequestState /\ IdleRequest.pc = "idle" /\ IdleRequest.event = None
    BY DEF RequestState, IdleRequest
  <2>2. CASE Serve(r, IdleRequest)
    BY <2>1, <2>2
  <2> DEFINE next == [request[r] EXCEPT !.pc = "setnx", !.kind = "process"]
  <2>3. next \in RequestState /\ next.pc = "setnx" /\ next.event = request[r].event
    BY <1>2 DEF UnderWay, RequestState
  <2>4. CASE Serve(r, next)
    BY <2>3, <2>4
  <2>. QED BY <2>2, <2>4 DEF AnswerCheck, Skip, Finish
<1>4. /\ request'[r] = rec /\ request' \in [Requests -> RequestState]
      /\ \A s \in Requests \ {r} : request'[s] = request[s]
  BY <1>0, <1>3, Served
<1>5. lambda' \in [Lambdas -> LambdaState]
  <2> DEFINE next == [pc |-> "process", event |-> request[r].event]
  <2>1. IdleLambda \in LambdaState /\ next \in LambdaState
    BY <1>2, IdleTyped DEF UnderWay, LambdaState
  <2>2. PICK told \in LambdaState : Tell(r, told)
    BY <2>1 DEF AnswerCheck, Skip, Finish
  <2>. QED BY <1>0, <2>2, Told
<1>6. reported' \subseteq Events
  <2>1. UNCHANGED reported \/ Report(r)
    BY DEF AnswerCheck, Skip, Finish
  <2>. QED BY <1>0, <1>2, <2>1 DEF Report, TypeOK, UnderWay
<1>7. TypeOK'
  BY <1>0, <1>1, <1>4, <1>5, <1>6 DEF TypeOK, answerVars
<1>8. ASSUME NEW d \in Events \ doubtful' PROVE EventOK(d)'
  <2>1. EventOK(d) /\ d # None
    BY <1>1, NoneIsNothing DEF IInv, answerVars
  <2>2. \A s \in Requests : request'[s].event = d => request[s].event = d
    BY <1>3, <1>4, <2>1
  <2>3. \A s \in Requests : Claims(s, d)' => Claims(s, d)
    BY <1>3, <1>4 DEF Claims
  <2>. QED BY <1>1, <2>1, <2>2, <2>3, Untouched DEF answerVars
<1>. QED BY <1>7, <1>8 DEF IInv

(* Processing takes the only claim there is.                               *)
LEMMA ProcessInv ==
  ASSUME IInv, NEW r \in Requests, Process(r)
  PROVE  IInv'
<1> DEFINE e == request[r].event
<1> DEFINE rec == [request[r] EXCEPT !.pc = "run"]
<1>0. TypeOK
  BY DEF IInv
<1>1. /\ UNCHANGED <<key, old, deliveries, late, doubtful, crashes, lambda, reported>>
      /\ processed' = [processed EXCEPT ![e] = @ + 1]
      /\ request[r].pc = "new" /\ Serve(r, rec)
  BY DEF Process, Proceed, answerVars
<1>2. rec \in RequestState /\ rec.pc = "run" /\ rec.event = e /\ e \in Events
  BY <1>0, <1>1, GoesOn DEF RequestState, UnderWay
<1>3. /\ request'[r] = rec /\ request' \in [Requests -> RequestState]
      /\ \A s \in Requests \ {r} : request'[s] = request[s]
  BY <1>0, <1>1, <1>2, Served
<1>4. processed' \in [Events -> Nat]
  <2>1. processed \in [Events -> Nat] /\ processed[e] + 1 \in Nat
    BY <1>0, <1>2 DEF TypeOK
  <2>. QED BY <1>1, <2>1
<1>5. TypeOK'
  BY <1>0, <1>1, <1>3, <1>4 DEF TypeOK
<1>6. ASSUME NEW d \in Events \ doubtful' PROVE EventOK(d)'
  <2>1. EventOK(d)
    BY <1>1 DEF IInv
  <2>2. \A s \in Requests : Claims(s, d)' => Claims(s, d) /\ s # r
    BY <1>2, <1>3 DEF Claims
  <2>3. CASE d # e
    <3>1. processed'[d] = processed[d]
      BY <1>0, <1>1, <2>3 DEF TypeOK
    <3>2. \A s \in Requests : request'[s].event = d => request[s].event = d
      BY <1>2, <1>3
    <3>. QED BY <1>1, <2>1, <2>2, <3>1, <3>2, Untouched
  <2>4. CASE d = e
    <3>1. Claims(r, d)
      BY <1>1, <2>4 DEF Claims
    <3>2. \A s \in Requests : ~Claims(s, d)'
      BY <2>1, <2>2, <3>1 DEF EventOK
    <3>3. key'[d] # "absent" /\ processed[d] <= late[d]
      BY <1>1, <2>1, <3>1 DEF EventOK
    <3>4. processed'[d] <= 1 + late'[d]
      BY <1>0, <1>1, <2>4, <3>3 DEF TypeOK
    <3>. QED BY <3>2, <3>3, <3>4 DEF EventOK
  <2>. QED BY <2>3, <2>4
<1>. QED BY <1>5, <1>6 DEF IInv

(* Aborted invocations, crashes and the passing of time leave no claim     *)
(* that was not there.                                                     *)
LEMMA OutsideInv ==
  ASSUME IInv, Crash \/ (\E l \in Lambdas : Abort(l)) \/ \E e \in Events : GrowOld(e)
  PROVE  IInv'
<1>0. TypeOK
  BY DEF IInv
<1>1. /\ UNCHANGED <<key, deliveries, late, processed, reported, doubtful>>
      /\ old \subseteq old' /\ old' \subseteq Events /\ crashes' \in Nat
  BY <1>0 DEF Crash, Abort, GrowOld, TypeOK
<1>2. lambda' \in [Lambdas -> LambdaState]
  BY <1>0, IdleTyped DEF Crash, Abort, GrowOld, TypeOK
<1>3. /\ request' \in [Requests -> RequestState]
      /\ \A s \in Requests : request'[s] = IdleRequest
                             \/ (/\ request'[s].event = request[s].event
                                 /\ request'[s].pc = request[s].pc)
  <2>1. CASE Crash
    BY <2>1, IdleTyped DEF Crash
  <2>2. ASSUME NEW l \in Lambdas, Abort(l) PROVE <1>3
    <3>1. ASSUME NEW s \in Requests, request[s].by = l
          PROVE  /\ [request[s] EXCEPT !.by = None] \in RequestState
                 /\ [request[s] EXCEPT !.by = None].event = request[s].event
                 /\ [request[s] EXCEPT !.by = None].pc = request[s].pc
      <4>1. l # None
        BY NoneIsNothing
      <4>2. request[s] \in UnderWay
        BY <1>0, <3>1, <4>1 DEF TypeOK, RequestState, IdleRequest
      <4>. QED BY <4>2 DEF RequestState, UnderWay
    <3>. QED BY <1>0, <2>2, <3>1 DEF Abort, TypeOK
  <2>3. ASSUME NEW e \in Events, GrowOld(e) PROVE <1>3
    BY <1>0, <2>3 DEF GrowOld, TypeOK
  <2>. QED BY <2>1, <2>2, <2>3
<1>5. TypeOK'
  BY <1>0, <1>1, <1>2, <1>3 DEF TypeOK
<1>6. ASSUME NEW d \in Events \ doubtful' PROVE EventOK(d)'
  <2>1. EventOK(d) /\ d # None
    BY <1>1, NoneIsNothing DEF IInv
  <2>2. \A s \in Requests : request'[s].event = d => request[s].event = d
    BY <1>3, <2>1 DEF IdleRequest
  <2>3. \A s \in Requests : Claims(s, d)' => Claims(s, d)
    BY <1>3 DEF Claims, IdleRequest
  <2>. QED BY <1>1, <2>1, <2>2, <2>3, Untouched
<1>. QED BY <1>5, <1>6 DEF IInv

(* A key that expires is one nothing asks for any more, or its event is    *)
(* doubtful from then on.                                                  *)
LEMMA KeyExpiresInv ==
  ASSUME IInv, NEW e \in Events, KeyExpires(e)
  PROVE  IInv'
<1>0. TypeOK
  BY DEF IInv
<1>1. /\ UNCHANGED <<lambda, request, old, deliveries, late, processed, reported, crashes>>
      /\ doubtful \subseteq doubtful' /\ doubtful' \subseteq Events
      /\ e \in old /\ (e \notin doubtful' => Quiet(e))
  BY <1>0 DEF KeyExpires, TypeOK
<1>2. /\ key' \in [Events -> {"absent", "persistent", "volatile"}]
      /\ \A d \in Events : d # e => key'[d] = key[d]
  BY <1>0 DEF KeyExpires, TypeOK
<1>3. TypeOK'
  BY <1>0, <1>1, <1>2 DEF TypeOK
<1>4. ASSUME NEW d \in Events \ doubtful' PROVE EventOK(d)'
  <2>1. EventOK(d)
    BY <1>1 DEF IInv
  <2>2. \A s \in Requests : Claims(s, d)' <=> Claims(s, d)
    BY <1>1 DEF Claims
  <2>3. CASE d # e
    BY <1>1, <1>2, <2>1, <2>2, <2>3, Untouched
  <2>4. CASE d = e
    <3>1. Quiet(d) /\ Quiet(d)'
      BY <1>1, <2>4 DEF Quiet
    <3>2. \A s \in Requests : ~Claims(s, d)'
      BY <3>1 DEF Quiet, Claims
    <3>. QED BY <1>1, <2>1, <2>4, <3>1, <3>2 DEF EventOK
  <2>. QED BY <2>3, <2>4
<1>. QED BY <1>3, <1>4 DEF IInv

-----------------------------------------------------------------------------
(* The inductive invariant: whoever was told that an event is new is the   *)
(* only one who was, and its key keeps the others out.                     *)
THEOREM Invariant == Spec => []IInv
<1>1. IInv /\ [Next]_vars => IInv'
  <2> SUFFICES ASSUME IInv, [Next]_vars PROVE IInv'
    OBVIOUS
  <2>1. ASSUME NEW r \in Requests, RequestStep(r) PROVE IInv'
    BY <2>1, SetnxInv, ExpireInv, FailsOpenInv, AnswerInv, ProcessInv DEF RequestStep
  <2>2. CASE UNCHANGED vars
    BY <2>2 DEF vars, IInv, TypeOK, EventOK, Claims, Quiet
  <2>. QED BY <2>1, <2>2, DeliverInv, OutsideInv, KeyExpiresInv DEF Next
<1>. QED BY <1>1, InitInv, PTL DEF Spec

(* Every variable keeps its type, whatever the constants are.              *)
THEOREM TypeCorrect == Spec => []TypeOK
<1>1. IInv => TypeOK
  BY DEF IInv
<1>. QED BY <1>1, Invariant, PTL

(* Processing of an event starts at most once, and once more at most for   *)
(* each post of it when it was old, unless Redis threw for it or a request *)
(* outlived its key.                                                       *)
THEOREM ProcessedAtMostOnce == Spec => []ProcessedOnce
<1>1. IInv => ProcessedOnce
  BY DEF IInv, EventOK, ProcessedOnce
<1>. QED BY <1>1, Invariant, PTL
=============================================================================
