----------------------------- MODULE EventIngress -----------------------------
(***************************************************************************)
(* How an event gets from EventBridge to the backend: the Lambda forwarder *)
(* asks /events/check, then posts to /events/process, and both endpoints   *)
(* mark the event in Redis with SETNX followed by EXPIRE.  What processing *)
(* does is BuildTracking; here it is counted.                              *)
(*                                                                         *)
(* EventBridge delivers at least once and for MaximumEventAge after the    *)
(* event; a key lives as long (one hour both).  So an event is old before  *)
(* its key expires, and the forwarder gets it no more after that; a client *)
(* with the API key may still post it.                                     *)
(***************************************************************************)
EXTENDS Naturals

CONSTANTS
  Events,
  Lambdas,        \* invocations of the forwarder under way at once
  Requests,       \* requests the backend serves at once
  Direct,         \* whether somebody posts to /events/process without a check
  RedisReliable,  \* FALSE: any call to Redis may throw
  MaxDeliveries,  \* bound: deliveries of one event (1 + MaximumRetryAttempts)
  MaxCrashes,     \* bound: crashes of the backend
  None

ASSUME NoneIsNothing  == None \notin Events \cup Lambdas \cup Requests
ASSUME SwitchesAreSet == Direct \in BOOLEAN /\ RedisReliable \in BOOLEAN
ASSUME BoundsAreNat   == MaxDeliveries \in Nat /\ MaxCrashes \in Nat

VARIABLES
  lambda,      \* what each invocation waits for
  request,     \* what each request of the backend has got to
  key,         \* eventbridge:event:<id>: absent, without or with a TTL
  old,         \* events older than MaximumEventAge
  deliveries,  \* how often each event was delivered or posted
  late,        \* how often each event was posted when it was old
  processed,   \* how often each event's processing was started
  reported,    \* events an invocation called "processed successfully"
  doubtful,    \* events for which Redis threw or a request outlived the key
  crashes

vars == <<lambda, request, key, old, deliveries, late, processed, reported, doubtful, crashes>>

IdleLambda  == [pc |-> "idle", event |-> None]
IdleRequest == [pc |-> "idle", kind |-> None, event |-> None, by |-> None]

Init ==
  /\ lambda     = [l \in Lambdas |-> IdleLambda]
  /\ request    = [r \in Requests |-> IdleRequest]
  /\ key        = [e \in Events |-> "absent"]
  /\ old        = {}
  /\ deliveries = [e \in Events |-> 0]
  /\ late       = [e \in Events |-> 0]
  /\ processed  = [e \in Events |-> 0]
  /\ reported   = {}
  /\ doubtful   = {}
  /\ crashes    = 0

Serve(r, rec)   == request' = [request EXCEPT ![r] = rec]
Proceed(r, pc)  == Serve(r, [request[r] EXCEPT !.pc = pc])

(* The invocation that waits for request r, if any, goes on with rec.      *)
Tell(r, rec) == lambda' = IF request[r].by = None THEN lambda
                          ELSE [lambda EXCEPT ![request[r].by] = rec]

-----------------------------------------------------------------------------
(* The forwarder.                                                          *)

(* An invocation starts by asking /events/check.                           *)
Deliver(l, r, e) ==
  /\ lambda[l].pc = "idle" /\ request[r].pc = "idle"
  /\ e \notin old /\ deliveries[e] < MaxDeliveries
  /\ deliveries' = [deliveries EXCEPT ![e] = @ + 1]
  /\ lambda' = [lambda EXCEPT ![l] = [pc |-> "check", event |-> e]]
  /\ Serve(r, [pc |-> "setnx", kind |-> "check", event |-> e, by |-> l])
  /\ UNCHANGED <<key, old, late, processed, reported, doubtful, crashes>>

(* Whoever has the API key may post an event to /events/process, at any    *)
(* age.                                                                    *)
Post(r, e) ==
  /\ Direct
  /\ request[r].pc = "idle"
  /\ deliveries[e] < MaxDeliveries
  /\ deliveries' = [deliveries EXCEPT ![e] = @ + 1]
  /\ late' = IF e \in old THEN [late EXCEPT ![e] = @ + 1] ELSE late
  /\ Serve(r, [pc |-> "setnx", kind |-> "process", event |-> e, by |-> None])
  /\ UNCHANGED <<lambda, key, old, processed, reported, doubtful, crashes>>

(* sendToBackend gives up after 30 seconds and answers 500, which nobody   *)
(* retries; the backend goes on with the request.                          *)
Abort(l) ==
  /\ lambda[l].pc # "idle"
  /\ lambda' = [lambda EXCEPT ![l] = IdleLambda]
  /\ request' = [r \in Requests |-> IF request[r].by = l
                                    THEN [request[r] EXCEPT !.by = None] ELSE request[r]]
  /\ UNCHANGED <<key, old, deliveries, late, processed, reported, doubtful, crashes>>

-----------------------------------------------------------------------------
(* The backend: RedisService.checkDuplicate under both endpoints.          *)

redisVars == <<lambda, old, deliveries, late, processed, reported, doubtful, crashes>>

(* GET, then SET: two requests may both find nothing. *)
SetnxUnchecked(r) ==
  /\ request[r].pc = "setnx"
  /\ key' = [key EXCEPT ![request[r].event] = "persistent"]
  /\ Proceed(r, "expire")
  /\ UNCHANGED redisVars

(* The id stored as the value of its key. *)
SetnxStoresId(r) ==
  /\ request[r].pc = "setnx"
  /\ key' = [key EXCEPT ![request[r].event] = request[r].event]
  /\ Proceed(r, "expire")
  /\ UNCHANGED redisVars

(* SETNX: whoever sets the key is told that the event is new.             *)
Setnx(r) ==
  /\ request[r].pc = "setnx"
  /\ LET e == request[r].event IN
       IF key[e] = "absent"
       THEN key' = [key EXCEPT ![e] = "persistent"] /\ Proceed(r, "expire")
       ELSE Proceed(r, "duplicate") /\ UNCHANGED key
  /\ UNCHANGED redisVars

(* EXPIRE forgotten. *)
ExpireForgotten(r) ==
  /\ request[r].pc = "expire"
  /\ Proceed(r, "new")
  /\ UNCHANGED <<key, redisVars>>

(* EXPIRE gives the key its TTL, if it is still there.                     *)
Expire(r) ==
  /\ request[r].pc = "expire"
  /\ key' = [key EXCEPT ![request[r].event] = IF @ = "absent" THEN @ ELSE "volatile"]
  /\ Proceed(r, "new")
  /\ UNCHANGED redisVars

(* EventBridgeService.checkDuplicate takes an error of Redis for "new",    *)
(* whether or not the command was executed before the connection broke.    *)
FailsOpen(r) ==
  /\ ~RedisReliable
  /\ request[r].pc \in {"setnx", "expire"}
  /\ LET e == request[r].event IN
       /\ \/ UNCHANGED key
          \/ request[r].pc = "setnx" /\ key[e] = "absent" /\ key' = [key EXCEPT ![e] = "persistent"]
       /\ doubtful' = doubtful \cup {e}
  /\ Proceed(r, "new")
  /\ UNCHANGED <<lambda, old, deliveries, late, processed, reported, crashes>>

-----------------------------------------------------------------------------
answerVars == <<key, old, deliveries, late, doubtful, crashes>>

(* /events/check answers; for a new event the invocation posts it to       *)
(* /events/process, which marks it again.                                  *)
AnswerCheck(r) ==
  /\ request[r].kind = "check" /\ request[r].pc \in {"new", "duplicate"}
  /\ IF request[r].pc = "new" /\ request[r].by # None
     THEN /\ Tell(r, [pc |-> "process", event |-> request[r].event])
          /\ Serve(r, [request[r] EXCEPT !.pc = "setnx", !.kind = "process"])
     ELSE Tell(r, IdleLambda) /\ Serve(r, IdleRequest)
  /\ UNCHANGED <<answerVars, processed, reported>>

Report(r) == reported' = IF request[r].by = None THEN reported
                         ELSE reported \cup {request[r].event}

(* processEvent skips a duplicate and answers success.                     *)
Skip(r) ==
  /\ request[r].kind = "process" /\ request[r].pc = "duplicate"
  /\ Tell(r, IdleLambda) /\ Report(r) /\ Serve(r, IdleRequest)
  /\ UNCHANGED <<answerVars, processed>>

(* It processes a new event ...                                            *)
Process(r) ==
  /\ request[r].kind = "process" /\ request[r].pc = "new"
  /\ processed' = [processed EXCEPT ![request[r].event] = @ + 1]
  /\ Proceed(r, "run")
  /\ UNCHANGED <<answerVars, lambda, reported>>

(* ... and answers 200, whether or not that failed.                        *)
Finish(r) ==
  /\ request[r].pc = "run"
  /\ Tell(r, IdleLambda) /\ Report(r) /\ Serve(r, IdleRequest)
  /\ UNCHANGED <<answerVars, processed>>

RequestStep(r) == Setnx(r) \/ Expire(r) \/ FailsOpen(r) \/ AnswerCheck(r) \/ Skip(r)
                  \/ Process(r) \/ Finish(r)

-----------------------------------------------------------------------------
(* The backend dies: its requests are gone, waiting invocations get an     *)
(* error and answer 500.                                                   *)
Crash ==
  /\ crashes < MaxCrashes
  /\ crashes' = crashes + 1
  /\ request' = [r \in Requests |-> IdleRequest]
  /\ lambda'  = [l \in Lambdas |-> IdleLambda]
  /\ UNCHANGED <<key, old, deliveries, late, processed, reported, doubtful>>

(* An hour after the event: no more deliveries of it.                      *)
GrowOld(e) ==
  /\ e \notin old
  /\ old' = old \cup {e}
  /\ UNCHANGED <<lambda, request, key, deliveries, late, processed, reported, doubtful, crashes>>

Quiet(e) == \A r \in Requests : request[r].event # e

(* An hour after EXPIRE, which comes after the event.                      *)
KeyExpires(e) ==
  /\ key[e] = "volatile" /\ e \in old
  /\ key' = [key EXCEPT ![e] = "absent"]
  /\ doubtful' = IF Quiet(e) THEN doubtful ELSE doubtful \cup {e}
  /\ UNCHANGED <<lambda, request, old, deliveries, late, processed, reported, crashes>>

Next ==
  \/ \E l \in Lambdas, r \in Requests, e \in Events : Deliver(l, r, e)
  \/ \E r \in Requests, e \in Events : Post(r, e)
  \/ \E l \in Lambdas : Abort(l)
  \/ \E r \in Requests : RequestStep(r)
  \/ \E e \in Events : GrowOld(e) \/ KeyExpires(e)
  \/ Crash

Spec == Init /\ [][Next]_vars

(* Every call settles, time passes and Redis removes expired keys.         *)
Fairness == /\ \A r \in Requests : WF_vars(RequestStep(r))
            /\ \A e \in Events : WF_vars(GrowOld(e)) /\ WF_vars(KeyExpires(e))

FairSpec == Spec /\ Fairness

-----------------------------------------------------------------------------
LambdaState  == [pc : {"idle", "check", "process"}, event : Events \cup {None}]
UnderWay     == [pc : {"setnx", "expire", "new", "duplicate", "run"},
                 kind : {"check", "process"}, event : Events, by : Lambdas \cup {None}]
RequestState == {IdleRequest} \cup UnderWay

TypeOK ==
  /\ lambda \in [Lambdas -> LambdaState]
  /\ request \in [Requests -> RequestState]
  /\ key \in [Events -> {"absent", "persistent", "volatile"}]
  /\ old \subseteq Events
  /\ deliveries \in [Events -> Nat] /\ late \in [Events -> Nat] /\ processed \in [Events -> Nat]
  /\ reported \subseteq Events /\ doubtful \subseteq Events
  /\ crashes \in Nat

(* However often an event is delivered and posted, aborted and interrupted *)
(* by crashes, its processing starts at most once, and once more at most   *)
(* for each post that came when it was old, while Redis answers for it and *)
(* its key outlives the requests about it.                                 *)
ProcessedOnce == \A e \in Events \ doubtful : processed[e] <= 1 + late[e]

(* Only a crash or an error between SETNX and EXPIRE leaves a key behind   *)
(* that never expires.                                                     *)
KeysExpire ==
  \A e \in Events : <>[](e \notin doubtful /\ crashes = 0 => key[e] = "absent")

(* "Event processed successfully"                                          *)
ReportedIsProcessed == \A e \in reported : processed[e] > 0
=============================================================================
