------------------------------ MODULE Builds_proofs ----------------------------
(* What is proved of the tracking of builds and of the commands of a build, for *)
(* all values of the constants.                                                 *)
EXTENDS BuildTracking, Buildspec, WellFoundedInduction, SequenceTheorems, TLAPS

--------------------------------------------------------------------------------
(* The tracking of builds.  IInv is the inductive invariant: whatever a handler *)
(* or a check holds in memory was true of the build when it was loaded, and     *)
(* stays consistent with what CodeBuild reports, because a reported outcome     *)
(* never changes and a row never changes the build it is about.                 *)

(* Nothing in a row, a copy or a pending update contradicts CodeBuild,     *)
(* provided that no client patches statuses.                               *)
StatusSound(b, status) ==
  PatchStatuses = {} =>
    /\ status = "success" => aws[b] = "SUCCEEDED"
    /\ status = "failed"  => aws[b] \in Outcomes \ {"SUCCEEDED"}

RowSound(row) == StatusSound(row.build, row.status)

(* The rows themselves, all of builds that have started; one that          *)
(* startBuild made is about its own build.                                 *)
RowsOK ==
  /\ \A r \in Ids : executions[r] # None =>
       RowSound(executions[r]) /\ aws[executions[r].build] # "NOT_STARTED"
  /\ \A b \in Builds : executions[b] # None => executions[b].build = b

(* A copy of row r held in memory.                                         *)
CopyOK(r, row) ==
  row # None => /\ r # None /\ executions[r] # None
                /\ RowSound(row) /\ row.build = executions[r].build

(* What a request handler holds, and which parts each pc has filled in.    *)
RequestOK(rec) ==
  /\ rec.event # None => rec.event \in Emitted
  /\ rec.exec # None => executions[rec.exec] # None
  /\ rec.exec # None /\ rec.event # None => executions[rec.exec].build = rec.event.build
  /\ CopyOK(rec.exec, rec.entity) /\ CopyOK(rec.exec, rec.copy)
  /\ rec.to # None => rec.exec # None /\ StatusSound(executions[rec.exec].build, rec.to)
  /\ rec.pc \in {"adopt", "adopting", "load", "save", "saving"} => rec.exec # None
  /\ rec.pc \in {"dedup", "find", "findById", "create"} => rec.exec = None
  /\ rec.pc \in {"adopt", "adopting", "load"} => rec.to # None
  /\ rec.pc \in {"adopt", "adopting", "save", "saving"} => rec.copy # None
  /\ rec.pc \in {"dedup", "find", "findById", "adopt", "adopting", "create", "trigger", "deploy"} =>
       rec.event # None
  /\ rec.pc \in {"trigger", "deploy"} => rec.event.kind = "SUCCEEDED"
  /\ rec.pc \in {"deploy", "url"} => rec.pipeline # None

(* What a stale-execution check holds.                                     *)
CheckOK(rec) ==
  /\ \A r \in Ids : CopyOK(r, rec.todo[r])
  /\ CopyOK(rec.exec, rec.copy)
  /\ rec.pc \in {"skip", "load", "save", "saving"} => rec.exec # None /\ executions[rec.exec] # None
  /\ rec.pc = "load" => rec.to # None /\ StatusSound(executions[rec.exec].build, rec.to)
  /\ rec.pc \in {"save", "saving"} <=> rec.copy # None

(* A build has not started before its request has called StartBuild, for   *)
(* some pipeline.                                                          *)
StartersOK ==
  \A b \in Builds : /\ starter[b] = "idle" <=> aws[b] = "NOT_STARTED"
                    /\ starter[b] # "idle" => builtFor[b] # None

IInv ==
  /\ TypeOK
  /\ RowsOK
  /\ \A h \in Handlers : RequestOK(handler[h])
  /\ \A c \in Checkers : CheckOK(checker[c])
  /\ StartersOK
  /\ OnlySuccessIsDeployed

(* What every step keeps: rows are never deleted nor moved to another      *)
(* build, and an outcome is final.                                         *)
RowsStay ==
  \A r \in Ids : executions[r] # None =>
                  executions'[r] # None /\ executions'[r].build = executions[r].build

AwsGrows ==
  \A b \in Builds : /\ aws[b] \notin {"NOT_STARTED", "IN_PROGRESS"} => aws'[b] = aws[b]
                    /\ aws[b] # "NOT_STARTED" => aws'[b] # "NOT_STARTED"

-----------------------------------------------------------------------------
(* Idle activities are states of their kind.                               *)
LEMMA IdleStates == IdleHandler \in HandlerState /\ IdleChecker \in CheckerState
BY DEF IdleHandler, HandlerState, IdleChecker, CheckerState, Columns, NoColumns

(* An idle activity holds nothing that could be wrong.                     *)
LEMMA IdleOK == RequestOK(IdleHandler) /\ CheckOK(IdleChecker)
BY DEF RequestOK, CheckOK, CopyOK, IdleHandler, IdleChecker

(* The invariant holds before anything has started.                        *)
LEMMA InitIInv == Init => IInv
<1> SUFFICES ASSUME Init PROVE IInv
  OBVIOUS
<1>1. TypeOK
  BY IdleStates, BoundsAreNat DEF Init, TypeOK
<1>2. RowsOK /\ StartersOK /\ OnlySuccessIsDeployed
  BY DEF Init, RowsOK, StartersOK, OnlySuccessIsDeployed, Ids
<1>3. /\ \A h \in Handlers : handler[h] = IdleHandler
      /\ \A c \in Checkers : checker[c] = IdleChecker
  BY DEF Init
<1>4. QED
  BY <1>1, <1>2, <1>3, IdleOK DEF IInv

(* What a status says of a build stays true.                               *)
LEMMA StatusStable ==
  ASSUME AwsGrows, NEW b \in Builds, NEW s, StatusSound(b, s)
  PROVE  StatusSound(b, s)'
<1> SUFFICES ASSUME PatchStatuses = {}, s \in Terminal PROVE aws'[b] = aws[b]
  BY DEF StatusSound, Terminal
<1> QED
  BY OutcomesKnown DEF StatusSound, AwsGrows, Terminal

(* A sound row stays sound.                                                *)
LEMMA RowStable ==
  ASSUME AwsGrows, NEW row \in Row, RowSound(row) PROVE RowSound(row)'
BY StatusStable DEF RowSound, Row

(* So does a copy of one.                                                  *)
LEMMA CopyStable ==
  ASSUME AwsGrows, RowsStay, NEW r \in Ids \cup {None}, NEW row \in Row \cup {None},
         CopyOK(r, row)
  PROVE  CopyOK(r, row)'
BY RowStable DEF CopyOK, RowsStay

(* An event that was emitted stays emitted.                                *)
LEMMA EmittedStable == ASSUME AwsGrows, NEW e \in Emitted PROVE e \in Emitted'
BY DEF Emitted, Event, AwsGrows

(* What a request that does not move holds stays right.                    *)
LEMMA RequestStable ==
  ASSUME AwsGrows, RowsStay, TypeOK, NEW rec \in HandlerState, RequestOK(rec)
  PROVE  RequestOK(rec)'
<1>1. rec.event # None => (rec.event \in Emitted)'
  BY EmittedStable DEF RequestOK
<1>2. CopyOK(rec.exec, rec.entity)' /\ CopyOK(rec.exec, rec.copy)'
  BY CopyStable DEF RequestOK, HandlerState
<1>3. rec.exec # None =>
        executions'[rec.exec] # None /\ executions'[rec.exec].build = executions[rec.exec].build
  BY DEF RequestOK, HandlerState, RowsStay
<1>4. rec.to # None => StatusSound(executions[rec.exec].build, rec.to)'
  <2> SUFFICES ASSUME rec.to # None PROVE StatusSound(executions[rec.exec].build, rec.to)'
    OBVIOUS
  <2>1. rec.exec \in Ids /\ executions[rec.exec] \in Row
    BY DEF RequestOK, HandlerState, TypeOK
  <2>2. PICK b \in Builds : b = executions[rec.exec].build
    BY <2>1 DEF Row
  <2>3. StatusSound(b, rec.to)'
    BY <2>2, StatusStable DEF RequestOK
  <2> QED
    BY <1>3, <2>1, <2>2, <2>3, NoneIsNothing DEF StatusSound, Ids
<1> QED
  BY <1>1, <1>2, <1>3, <1>4 DEF RequestOK

(* What a check that does not move holds stays right.                      *)
LEMMA CheckStable ==
  ASSUME AwsGrows, RowsStay, TypeOK, NEW rec \in CheckerState, CheckOK(rec)
  PROVE  CheckOK(rec)'
<1>1. \A r \in Ids : CopyOK(r, rec.todo[r])'
  BY CopyStable DEF CheckOK, CheckerState
<1>2. CopyOK(rec.exec, rec.copy)'
  BY CopyStable DEF CheckOK, CheckerState
<1>3. rec.exec # None /\ executions[rec.exec] # None =>
        executions'[rec.exec] # None /\ executions'[rec.exec].build = executions[rec.exec].build
  BY DEF CheckerState, RowsStay
<1>4. rec.pc = "load" => StatusSound(executions[rec.exec].build, rec.to)'
  <2> SUFFICES ASSUME rec.pc = "load"
               PROVE  StatusSound(executions[rec.exec].build, rec.to)'
    OBVIOUS
  <2>1. rec.exec \in Ids /\ executions[rec.exec] \in Row
    BY DEF CheckOK, CheckerState, TypeOK
  <2>2. PICK b \in Builds : b = executions[rec.exec].build
    BY <2>1 DEF Row
  <2>3. StatusSound(b, rec.to)'
    BY <2>2, StatusStable DEF CheckOK
  <2> QED
    BY <1>3, <2>1, <2>2, <2>3 DEF StatusSound, CheckOK
<1> QED
  BY <1>1, <1>2, <1>3, <1>4 DEF CheckOK

(* One step changes a few things: the rest of the invariant follows.       *)
LEMMA Frame ==
  ASSUME IInv, TypeOK', RowsStay, AwsGrows, RowsOK', StartersOK', OnlySuccessIsDeployed',
         \A h \in Handlers : handler'[h] = handler[h] \/ RequestOK(handler[h])',
         \A c \in Checkers : checker'[c] = checker[c] \/ CheckOK(checker[c])'
  PROVE  IInv'
<1>1. ASSUME NEW h \in Handlers PROVE RequestOK(handler[h])'
  <2>1. PICK rec \in HandlerState : rec = handler[h] /\ RequestOK(rec)
    BY DEF IInv, TypeOK
  <2>2. RequestOK(rec)'
    BY <2>1, RequestStable DEF IInv
  <2> QED
    BY <2>1, <2>2 DEF RequestOK, CopyOK, StatusSound, RowSound
<1>2. ASSUME NEW c \in Checkers PROVE CheckOK(checker[c])'
  <2>1. PICK rec \in CheckerState : rec = checker[c] /\ CheckOK(rec)
    BY DEF IInv, TypeOK
  <2>2. CheckOK(rec)'
    BY <2>1, CheckStable DEF IInv
  <2> QED
    BY <2>1, <2>2 DEF CheckOK, CopyOK, StatusSound, RowSound
<1> QED
  BY <1>1, <1>2 DEF IInv

-----------------------------------------------------------------------------
(* The parts of TypeOK a request may change besides its own record.        *)
OtherOK ==
  /\ marked \subseteq Event
  /\ deliveries \in [Event -> Nat]
  /\ latest \in Pipelines \cup {None}
  /\ triggers \in [Builds -> Nat]
  /\ shipped \subseteq [build : Builds, pipeline : Pipelines, image : Builds, undisturbed : BOOLEAN]
  /\ beside \in [Builds -> SUBSET Pipelines]
  /\ faults \in Nat

(* A request that moves to a right record, and writes no row, keeps IInv.  *)
LEMMA RequestMoves ==
  ASSUME IInv, NEW h \in Handlers, NEW rec \in HandlerState, RequestOK(rec),
         handler' = [handler EXCEPT ![h] = rec],
         UNCHANGED <<aws, starter, builtFor, image, editor, checker, restarts, executions>>,
         OtherOK', OnlySuccessIsDeployed'
  PROVE  IInv'
<1>1. TypeOK'
  BY DEF IInv, TypeOK, OtherOK
<1>2. RowsStay /\ AwsGrows
  BY DEF RowsStay, AwsGrows
<1>3. RowsOK' /\ StartersOK'
  BY DEF IInv, RowsOK, RowSound, StatusSound, StartersOK
<1>4. ASSUME NEW k \in Handlers PROVE handler'[k] = handler[k] \/ RequestOK(handler[k])'
  <2>1. RequestOK(rec)'
    BY <1>2, RequestStable DEF IInv
  <2>2. handler'[k] = handler[k] \/ handler'[k] = rec
    BY DEF IInv, TypeOK
  <2> QED
    BY <2>1, <2>2 DEF RequestOK, CopyOK, StatusSound, RowSound
<1> QED
  BY <1>1, <1>2, <1>3, <1>4, Frame

(* What is known of a handler in the current state.                        *)
LEMMA HandlerFacts ==
  ASSUME IInv, NEW h \in Handlers
  PROVE  handler[h] \in HandlerState /\ RequestOK(handler[h]) /\ OtherOK
BY DEF IInv, TypeOK, OtherOK

USE DEF requestVars, quietVars, releaseVars, historyVars, Goto, Reply

(* A request that ends leaves the invariant alone.                         *)
LEMMA ReplyIInv ==
  ASSUME IInv, NEW h \in Handlers, Reply(h),
         UNCHANGED <<aws, starter, builtFor, image, editor, checker, restarts, executions>>,
         OtherOK', OnlySuccessIsDeployed'
  PROVE  IInv'
BY IdleStates, IdleOK, RequestMoves

(* An event is received.                                                   *)
LEMMA ReceiveIInv ==
  ASSUME IInv, NEW h \in Handlers, NEW e \in Event, Receive(h, e) PROVE IInv'
<1>1. PICK rec : rec = [IdleHandler EXCEPT !.pc = "dedup", !.event = e]
  OBVIOUS
<1>2. rec \in HandlerState
  BY <1>1, IdleStates DEF IdleHandler, HandlerState
<1>3. RequestOK(rec)
  BY <1>1, NoneIsNoValue DEF IdleHandler, RequestOK, CopyOK, Receive
<1>4. OtherOK' /\ OnlySuccessIsDeployed'
  BY DEF IInv, TypeOK, OtherOK, Receive, OnlySuccessIsDeployed, requestVars
<1> QED
  BY <1>1, <1>2, <1>3, <1>4, RequestMoves DEF Receive

(* The duplicate check lets an event through.                              *)
LEMMA DedupNewIInv == ASSUME IInv, NEW h \in Handlers, DedupNew(h) PROVE IInv'
<1>1. PICK rec : rec = [handler[h] EXCEPT !.pc = "find"]
  OBVIOUS
<1>2. rec \in HandlerState /\ RequestOK(rec)
  BY <1>1, HandlerFacts DEF HandlerState, RequestOK, DedupNew
<1>3. handler[h].event \in Event
  BY HandlerFacts DEF HandlerState, RequestOK, DedupNew
<1>4. OtherOK' /\ OnlySuccessIsDeployed'
  BY <1>3 DEF IInv, TypeOK, OtherOK, DedupNew, OnlySuccessIsDeployed, requestVars
<1> QED
  BY <1>1, <1>2, <1>4, RequestMoves DEF DedupNew

(* The duplicate check ends a request.                                     *)
LEMMA DedupSkipIInv == ASSUME IInv, NEW h \in Handlers, DedupSkip(h) PROVE IInv'
<1>1. OtherOK' /\ OnlySuccessIsDeployed'
  BY DEF IInv, TypeOK, OtherOK, DedupSkip, OnlySuccessIsDeployed, requestVars
<1> QED
  BY <1>1, ReplyIInv DEF DedupSkip

(* A row of the build is found: its status is sound, so the new one is.    *)
LEMMA FindByBuildIdIInv == ASSUME IInv, NEW h \in Handlers, FindByBuildId(h) PROVE IInv'
<1>1. PICK r \in RowsOf(handler[h].event.build) :
        IF handler[h].event.kind = "PHASE"
        THEN Reply(h)
        ELSE Goto(h, [handler[h] EXCEPT !.pc = "load", !.exec = r, !.entity = executions[r],
                         !.to = EventStatus(handler[h].event.kind, executions[r].status)])
  BY DEF FindByBuildId
<1>2. /\ handler[h] \in HandlerState /\ RequestOK(handler[h]) /\ handler[h].pc = "find"
      /\ OtherOK' /\ OnlySuccessIsDeployed' /\ UNCHANGED <<requestVars, executions>>
  BY HandlerFacts DEF FindByBuildId, IInv, TypeOK, OtherOK, OnlySuccessIsDeployed, requestVars
<1>3. /\ r \in Ids /\ r # None /\ executions[r] # None /\ executions[r] \in Row
      /\ executions[r].build = handler[h].event.build /\ RowSound(executions[r])
  BY NoneIsNothing DEF RowsOf, IInv, TypeOK, RowsOK, Ids
<1>4. /\ handler[h].event \in Event /\ handler[h].event \in Emitted
      /\ handler[h].event # None
  BY <1>2 DEF HandlerState, RequestOK, Emitted
<1>5. CASE Reply(h)
  BY <1>2, <1>5, ReplyIInv
<1>6. CASE Goto(h, [handler[h] EXCEPT !.pc = "load", !.exec = r, !.entity = executions[r],
                      !.to = EventStatus(handler[h].event.kind, executions[r].status)])
  <2>1. PICK to : to = EventStatus(handler[h].event.kind, executions[r].status)
    OBVIOUS
  <2>2. to \in Status /\ StatusSound(executions[r].build, to)
    BY <2>1, <1>3, <1>4, OutcomesKnown
       DEF EventStatus, Status, Row, Event, Emitted, StatusSound, RowSound
  <2>3. PICK rec : rec = [handler[h] EXCEPT !.pc = "load", !.exec = r,
                            !.entity = executions[r], !.to = to]
    OBVIOUS
  <2>4. rec \in HandlerState
    BY <2>2, <2>3, <1>2, <1>3 DEF HandlerState
  <2>5. RequestOK(rec)
    BY <2>2, <2>3, <1>2, <1>3, <1>4, NoneIsNoValue DEF HandlerState, RequestOK, CopyOK
  <2> QED
    BY <2>1, <2>3, <2>4, <2>5, <1>2, <1>6, RequestMoves
<1> QED
  BY <1>1, <1>5, <1>6

(* No row of the build is found.                                           *)
LEMMA FindNothingIInv == ASSUME IInv, NEW h \in Handlers, FindNothing(h) PROVE IInv'
<1>1. /\ handler[h] \in HandlerState /\ RequestOK(handler[h]) /\ handler[h].pc = "find"
      /\ OtherOK' /\ OnlySuccessIsDeployed' /\ UNCHANGED <<requestVars, executions>>
  BY HandlerFacts
     DEF FindNothing, Fault, IInv, TypeOK, OtherOK, OnlySuccessIsDeployed, requestVars
<1>2. CASE Reply(h)
  BY <1>1, <1>2, ReplyIInv
<1>3. CASE Goto(h, [handler[h] EXCEPT !.pc = "findById"])
  <2>1. PICK rec : rec = [handler[h] EXCEPT !.pc = "findById"]
    OBVIOUS
  <2>2. rec \in HandlerState /\ RequestOK(rec)
    BY <2>1, <1>1 DEF HandlerState, RequestOK
  <2> QED
    BY <2>1, <2>2, <1>1, <1>3, RequestMoves
<1> QED
  BY <1>2, <1>3 DEF FindNothing

(* The row startBuild made is found by its id.                             *)
LEMMA FindByIdIInv == ASSUME IInv, NEW h \in Handlers, FindById(h) PROVE IInv'
<1>1. /\ handler[h] \in HandlerState /\ RequestOK(handler[h]) /\ handler[h].pc = "findById"
      /\ OtherOK' /\ OnlySuccessIsDeployed' /\ UNCHANGED <<requestVars, executions>>
  BY HandlerFacts
     DEF FindById, IInv, TypeOK, OtherOK, OnlySuccessIsDeployed, requestVars
<1>2. PICK e \in Event : e = handler[h].event
  BY <1>1 DEF HandlerState, RequestOK
<1>3. e.build \in Builds /\ e.build \in Ids /\ e.build # None
  BY NoneIsNothing DEF Event, Ids
<1>4. CASE Goto(h, [handler[h] EXCEPT !.pc = "create"])
  <2>1. PICK rec : rec = [handler[h] EXCEPT !.pc = "create"]
    OBVIOUS
  <2>2. rec \in HandlerState /\ RequestOK(rec)
    BY <2>1, <1>1 DEF HandlerState, RequestOK
  <2> QED
    BY <2>1, <2>2, <1>1, <1>4, RequestMoves
<1>5. CASE /\ executions[e.build] # None
           /\ Goto(h, [handler[h] EXCEPT !.pc = "adopt", !.exec = e.build,
                                         !.entity = executions[e.build],
                                         !.copy = executions[e.build], !.to = "running"])
  <2>1. PICK rec : rec = [handler[h] EXCEPT !.pc = "adopt", !.exec = e.build,
                                  !.entity = executions[e.build],
                                  !.copy = executions[e.build], !.to = "running"]
    OBVIOUS
  <2>2. /\ executions[e.build] \in Row /\ executions[e.build].build = e.build
        /\ RowSound(executions[e.build])
    BY <1>3, <1>5 DEF IInv, TypeOK, RowsOK
  <2>3. rec \in HandlerState
    BY <2>1, <2>2, <1>1, <1>3 DEF HandlerState, Status
  <2>4. RequestOK(rec)
    <3>1. CopyOK(rec.exec, rec.entity) /\ CopyOK(rec.exec, rec.copy)
      BY <2>1, <2>2, <1>1, <1>3, <1>5 DEF CopyOK, HandlerState
    <3>2. /\ rec.pc = "adopt" /\ rec.exec = e.build /\ rec.to = "running" /\ rec.event = e
          /\ rec.copy = executions[e.build] /\ rec.copy # None
      BY <2>1, <2>2, <1>1, <1>2, NoneIsNoValue DEF HandlerState
    <3>3. StatusSound(executions[rec.exec].build, rec.to) /\ e \in Emitted
      BY <3>2, <1>1, <1>2, NoneIsNoValue DEF StatusSound, RequestOK
    <3> QED
      BY <3>1, <3>2, <3>3, <2>2, <1>2, <1>3, <1>5, NoneIsNoValue DEF RequestOK, Status
  <2> QED
    BY <2>1, <2>3, <2>4, <1>1, <1>5, RequestMoves
<1> QED
  BY <1>2, <1>4, <1>5 DEF FindById

(* The row is loaded to be updated.                                        *)
LEMMA LoadIInv == ASSUME IInv, NEW h \in Handlers, Load(h) PROVE IInv'
<1>1. /\ handler[h] \in HandlerState /\ RequestOK(handler[h]) /\ handler[h].pc = "load"
      /\ OtherOK' /\ OnlySuccessIsDeployed' /\ UNCHANGED <<requestVars, executions>>
  BY HandlerFacts DEF Load, IInv, TypeOK, OtherOK, OnlySuccessIsDeployed, requestVars
<1>2. /\ handler[h].exec \in Ids /\ handler[h].exec # None
      /\ executions[handler[h].exec] \in Row /\ executions[handler[h].exec] # None
      /\ RowSound(executions[handler[h].exec])
  BY <1>1 DEF HandlerState, RequestOK, IInv, TypeOK, RowsOK
<1>3. PICK copy : copy = Updated(executions[handler[h].exec], handler[h].to, handler[h].event # None)
  OBVIOUS
<1>4. copy \in Row /\ RowSound(copy) /\ copy.build = executions[handler[h].exec].build
  BY <1>1, <1>2, <1>3 DEF Updated, Row, RowSound, RequestOK, HandlerState
<1>5. PICK rec : rec = [handler[h] EXCEPT !.pc = "save", !.copy = copy]
  OBVIOUS
<1>6. rec \in HandlerState
  BY <1>1, <1>4, <1>5 DEF HandlerState
<1>7. RequestOK(rec)
  BY <1>1, <1>2, <1>4, <1>5, NoneIsNoValue DEF HandlerState, RequestOK, CopyOK
<1> QED
  BY <1>1, <1>3, <1>5, <1>6, <1>7, RequestMoves DEF Load

(* A save compares its copy with the row.                                  *)
LEMMA CompareIInv == ASSUME IInv, NEW h \in Handlers, Compare(h) PROVE IInv'
<1>1. /\ handler[h] \in HandlerState /\ RequestOK(handler[h]) /\ handler[h].pc \in {"adopt", "save"}
      /\ OtherOK' /\ OnlySuccessIsDeployed' /\ UNCHANGED <<requestVars, executions>>
  BY HandlerFacts DEF Compare, IInv, TypeOK, OtherOK, OnlySuccessIsDeployed
<1>2. PICK columns \in Columns :
        Goto(h, [handler[h] EXCEPT !.pc = IF @ = "adopt" THEN "adopting" ELSE "saving",
                                   !.columns = columns])
  BY DEF Compare, Differing
<1>3. PICK rec : rec = [handler[h] EXCEPT !.pc = IF @ = "adopt" THEN "adopting" ELSE "saving",
                                          !.columns = columns]
  OBVIOUS
<1>4. rec \in HandlerState
  BY <1>1, <1>2, <1>3 DEF HandlerState
<1>5. RequestOK(rec)
  BY <1>1, <1>3 DEF HandlerState, RequestOK
<1> QED
  BY <1>1, <1>2, <1>3, <1>4, <1>5, RequestMoves

(* The pipeline to deploy is found.                                        *)
LEMMA TriggerIInv == ASSUME IInv, NEW h \in Handlers, Trigger(h) PROVE IInv'
<1>1. /\ handler[h] \in HandlerState /\ RequestOK(handler[h]) /\ handler[h].pc = "trigger"
      /\ OtherOK' /\ OnlySuccessIsDeployed' /\ UNCHANGED <<requestVars, executions>>
  BY HandlerFacts DEF Trigger, IInv, TypeOK, OtherOK, OnlySuccessIsDeployed
<1>2. PICK p : p = TargetPipeline(h)
  OBVIOUS
<1>3. CASE Reply(h)
  BY <1>1, <1>3, ReplyIInv
<1>4. CASE p # None /\ Goto(h, [handler[h] EXCEPT !.pc = "deploy", !.pipeline = p])
  <2>1. PICK rec : rec = [handler[h] EXCEPT !.pc = "deploy", !.pipeline = p]
    OBVIOUS
  <2>2. handler[h].event \in Event
    BY <1>1 DEF HandlerState, RequestOK
  <2>3. p \in Pipelines
    BY <2>2, <1>2, <1>4 DEF TargetPipeline, IInv, TypeOK, Event
  <2>4. rec \in HandlerState /\ RequestOK(rec)
    BY <2>1, <2>3, <1>1, <1>4 DEF HandlerState, RequestOK
  <2> QED
    BY <2>1, <2>4, <1>1, <1>4, RequestMoves
<1> QED
  BY <1>2, <1>3, <1>4 DEF Trigger

(* A deployment starts: its event says SUCCEEDED.                          *)
LEMMA DeployIInv == ASSUME IInv, NEW h \in Handlers, Deploy(h) PROVE IInv'
<1>1. /\ handler[h] \in HandlerState /\ RequestOK(handler[h]) /\ handler[h].pc = "deploy"
      /\ UNCHANGED <<requestVars, executions>>
  BY HandlerFacts DEF Deploy
<1>2. PICK e \in Event : /\ e = handler[h].event /\ e \in Emitted
                         /\ e.kind = "SUCCEEDED"
  BY <1>1 DEF HandlerState, RequestOK
<1>3. e.build \in Builds /\ aws[e.build] = "SUCCEEDED"
  BY <1>2 DEF Event, Emitted
<1>4. PICK p \in Pipelines : p = handler[h].pipeline
  BY <1>1 DEF HandlerState, RequestOK
<1>5. CASE image[p] = None
  <2>1. OtherOK' /\ OnlySuccessIsDeployed' /\ Reply(h)
    BY <1>4, <1>5 DEF Deploy, IInv, TypeOK, OtherOK, OnlySuccessIsDeployed
  <2> QED
    BY <2>1, <1>1, ReplyIInv
<1>6. CASE image[p] # None
  <2>1. PICK rec : rec = [IdleHandler EXCEPT !.pc = "url", !.pipeline = p]
    OBVIOUS
  <2>2. rec \in HandlerState
    BY <2>1, IdleStates DEF IdleHandler, HandlerState
  <2>3. RequestOK(rec)
    BY <2>1, NoneIsNothing DEF IdleHandler, RequestOK, CopyOK
  <2>4. PICK undisturbed \in BOOLEAN : undisturbed = Undisturbed(h)
    BY DEF Undisturbed
  <2>5. /\ triggers' = [triggers EXCEPT ![e.build] = @ + 1]
        /\ shipped'  = shipped \cup {[build |-> e.build, pipeline |-> p, image |-> image[p],
                                      undisturbed |-> undisturbed]}
        /\ beside'   = Beside(p)
        /\ handler'  = [handler EXCEPT ![h] = rec]
        /\ UNCHANGED <<marked, deliveries, faults, latest>>
    BY <2>1, <2>4, <1>2, <1>4, <1>6 DEF Deploy
  <2>6. beside' \in [Builds -> SUBSET Pipelines]
    BY <2>5 DEF Beside, IInv, TypeOK
  <2>7. image[p] \in Builds
    BY <1>6 DEF IInv, TypeOK
  <2>8. OtherOK'
    <3>1. triggers' \in [Builds -> Nat]
      BY <2>5, <1>3 DEF IInv, TypeOK
    <3>2. shipped' \subseteq [build : Builds, pipeline : Pipelines, image : Builds,
                              undisturbed : BOOLEAN]
      BY <2>5, <2>7, <1>3 DEF IInv, TypeOK
    <3> QED
      BY <2>5, <2>6, <3>1, <3>2 DEF IInv, TypeOK, OtherOK
  <2>9. OnlySuccessIsDeployed'
    BY <2>5, <1>1, <1>3 DEF IInv, TypeOK, OnlySuccessIsDeployed
  <2> QED
    BY <2>2, <2>3, <2>5, <2>8, <2>9, <1>1, RequestMoves
<1> QED
  BY <1>5, <1>6

(* The URL of a deployment is stored.                                      *)
LEMMA SetUrlIInv == ASSUME IInv, NEW h \in Handlers, SetUrl(h) PROVE IInv'
<1>1. handler[h].pipeline \in Pipelines
  BY HandlerFacts DEF SetUrl, HandlerState, RequestOK
<1>2. latest' \in Pipelines \cup {None}
  BY <1>1 DEF SetUrl, IInv, TypeOK
<1>3. OtherOK' /\ OnlySuccessIsDeployed'
  BY <1>2 DEF SetUrl, IInv, TypeOK, OtherOK, OnlySuccessIsDeployed
<1> QED
  BY <1>3, ReplyIInv DEF SetUrl

(* A request fails.                                                        *)
LEMMA RequestFailsIInv == ASSUME IInv, NEW h \in Handlers, RequestFails(h) PROVE IInv'
<1>1. OtherOK' /\ OnlySuccessIsDeployed' /\ UNCHANGED <<requestVars, executions>>
  BY DEF RequestFails, Fault, IInv, TypeOK, OtherOK, OnlySuccessIsDeployed, requestVars
<1> QED
  BY <1>1, ReplyIInv DEF RequestFails

(* A client patches a status.                                              *)
LEMMA PatchIInv ==
  ASSUME IInv, NEW h \in Handlers, NEW r \in Ids, NEW s \in PatchStatuses, Patch(h, r, s)
  PROVE  IInv'
<1>1. OtherOK' /\ OnlySuccessIsDeployed' /\ UNCHANGED <<requestVars, executions>>
  BY DEF Patch, IInv, TypeOK, OtherOK, OnlySuccessIsDeployed, requestVars
<1>2. PICK rec : rec = [IdleHandler EXCEPT !.pc = "load", !.exec = r, !.to = s]
  OBVIOUS
<1>3. rec \in HandlerState
  BY <1>2, PatchesAreStatuses, IdleStates DEF IdleHandler, HandlerState, Status
<1>4. RequestOK(rec)
  BY <1>2, PatchesAreStatuses, NoneIsNothing, NoneIsNoValue
     DEF IdleHandler, RequestOK, CopyOK, Patch, StatusSound, Status, Ids
<1> QED
  BY <1>1, <1>2, <1>3, <1>4, RequestMoves DEF Patch

-----------------------------------------------------------------------------
(* A row written by an activity: the row r gets a sound row of the build   *)
(* it is about, or of its own build when it is new.                        *)
RowWritten(r, row) ==
  /\ r \in Ids /\ row \in Row /\ RowSound(row) /\ aws[row.build] # "NOT_STARTED"
  /\ executions[r] # None => row.build = executions[r].build
  /\ r \in Builds => row.build = r
  /\ executions' = [executions EXCEPT ![r] = row]

(* Such a write keeps what rows promise.                                   *)
LEMMA WriteOK ==
  ASSUME IInv, NEW r, NEW row, RowWritten(r, row), UNCHANGED aws
  PROVE  /\ RowsOK' /\ RowsStay /\ AwsGrows
         /\ executions' \in [Ids -> Row \cup {None}]
         /\ executions'[r] = row /\ row # None
<1>1. /\ executions' \in [Ids -> Row \cup {None}] /\ row # None
      /\ \A i \in Ids : executions'[i] = IF i = r THEN row ELSE executions[i]
  BY NoneIsNoValue DEF IInv, TypeOK, RowWritten
<1>2. \A i \in Ids : executions'[i] # None =>
        RowSound(executions[i])' /\ (aws[executions[i].build] # "NOT_STARTED")'
  BY <1>1 DEF IInv, RowsOK, RowSound, StatusSound, RowWritten
<1>3. RowsOK'
  BY <1>1, <1>2 DEF IInv, RowsOK, RowWritten, Ids
<1>4. RowsStay /\ AwsGrows
  BY <1>1 DEF RowsStay, AwsGrows, RowWritten
<1> QED
  BY <1>1, <1>3, <1>4 DEF RowWritten

(* A request that writes a row and moves to a record that is right after   *)
(* the write keeps IInv.                                                   *)
LEMMA RequestWrites ==
  ASSUME IInv, NEW h \in Handlers, NEW rec \in HandlerState, NEW r, NEW row,
         RowWritten(r, row), RequestOK(rec)', handler' = [handler EXCEPT ![h] = rec],
         UNCHANGED <<quietVars, marked, deliveries, historyVars>>
  PROVE  IInv'
<1> USE DEF requestVars, releaseVars
<1>1. /\ RowsOK' /\ RowsStay /\ AwsGrows
      /\ executions' \in [Ids -> Row \cup {None}]
  BY WriteOK
<1>2. TypeOK'
  BY <1>1 DEF IInv, TypeOK
<1>3. StartersOK' /\ OnlySuccessIsDeployed'
  BY DEF IInv, StartersOK, OnlySuccessIsDeployed
<1>4. ASSUME NEW k \in Handlers PROVE handler'[k] = handler[k] \/ RequestOK(handler[k])'
  <2>1. handler'[k] = handler[k] \/ handler'[k] = rec
    BY DEF IInv, TypeOK
  <2> QED
    BY <2>1 DEF RequestOK, CopyOK, StatusSound, RowSound
<1> QED
  BY <1>1, <1>2, <1>3, <1>4, Frame

(* A row that gets columns of a sound copy is sound.                       *)
LEMMA MergedOK ==
  ASSUME IInv, NEW r \in Ids, executions[r] # None, NEW copy \in Row, CopyOK(r, copy),
         NEW columns \in Columns,
         executions' = [executions EXCEPT ![r] = Merged(@, copy, columns)]
  PROVE  \E row \in Row : RowWritten(r, row)
<1>1. executions[r] \in Row /\ RowSound(executions[r])
  BY DEF IInv, TypeOK, RowsOK
<1>2. /\ RowSound(copy) /\ copy.build = executions[r].build
  BY NoneIsNoValue DEF CopyOK
<1>3. PICK row : row = Merged(executions[r], copy, columns)
  OBVIOUS
<1>4. row \in Row /\ row.build = executions[r].build /\ row.status \in {copy.status, executions[r].status}
  BY <1>1, <1>3 DEF Merged, Row
<1>5. RowSound(row)
  BY <1>1, <1>2, <1>4 DEF RowSound
<1> QED
  BY <1>3, <1>4, <1>5 DEF RowWritten, IInv, TypeOK, RowsOK

(* A save writes its copy into the row.                                    *)
LEMMA WriteCopyOK ==
  ASSUME IInv, NEW h \in Handlers, handler[h].pc \in {"adopting", "saving"}, WriteCopy(h)
  PROVE  \E row \in Row : RowWritten(handler[h].exec, row)
<1>1. handler[h] \in HandlerState /\ RequestOK(handler[h])
  BY HandlerFacts
<1>2. /\ handler[h].exec \in Ids /\ executions[handler[h].exec] # None
      /\ handler[h].copy \in Row /\ CopyOK(handler[h].exec, handler[h].copy)
      /\ handler[h].columns \in Columns
  BY <1>1 DEF HandlerState, RequestOK
<1> QED
  BY <1>2, MergedOK DEF WriteCopy

(* The status of a row is saved.                                           *)
LEMMA SaveIInv == ASSUME IInv, NEW h \in Handlers, Save(h) PROVE IInv'
<1>1. handler[h] \in HandlerState /\ RequestOK(handler[h]) /\ handler[h].pc = "saving"
  BY HandlerFacts DEF Save
<1>2. PICK row \in Row : RowWritten(handler[h].exec, row)
  BY WriteCopyOK DEF Save
<1>3. UNCHANGED <<quietVars, marked, deliveries, historyVars>>
  BY DEF Save
<1>4. CASE Reply(h)
  <2>1. RequestOK(IdleHandler)'
    BY IdleOK, IdleStates DEF RequestOK, CopyOK, IdleHandler
  <2> QED
    BY <2>1, <1>2, <1>3, <1>4, IdleStates, RequestWrites
<1>5. CASE /\ Deploys(handler[h].event)
           /\ Goto(h, [handler[h] EXCEPT !.pc = "trigger"])
  <2>1. PICK rec : rec = [handler[h] EXCEPT !.pc = "trigger"]
    OBVIOUS
  <2>2. rec \in HandlerState /\ RequestOK(rec)
    BY <2>1, <1>1, <1>5 DEF HandlerState, RequestOK, Deploys
  <2>3. RequestOK(rec)'
    BY <2>2, <1>2, <1>3, WriteOK, RequestStable DEF IInv
  <2> QED
    BY <2>1, <2>2, <2>3, <1>2, <1>3, <1>5, RequestWrites
<1> QED
  BY <1>4, <1>5 DEF Save

(* The row startBuild made is adopted by an event.                         *)
LEMMA AdoptIInv == ASSUME IInv, NEW h \in Handlers, Adopt(h) PROVE IInv'
<1>1. handler[h] \in HandlerState /\ RequestOK(handler[h]) /\ handler[h].pc = "adopting"
  BY HandlerFacts DEF Adopt
<1>2. PICK row \in Row : RowWritten(handler[h].exec, row)
  BY WriteCopyOK DEF Adopt
<1>3. UNCHANGED <<quietVars, marked, deliveries, historyVars>>
  BY DEF Adopt
<1>4. PICK rec : rec = [handler[h] EXCEPT !.pc = "load", !.copy = None, !.columns = NoColumns]
  OBVIOUS
<1>5. rec \in HandlerState
  BY <1>1, <1>4 DEF HandlerState, Columns, NoColumns
<1>6. RequestOK(rec)
  BY <1>1, <1>4 DEF HandlerState, RequestOK, CopyOK
<1>7. RequestOK(rec)'
  BY <1>2, <1>3, <1>5, <1>6, WriteOK, RequestStable DEF IInv
<1> QED
  BY <1>2, <1>3, <1>4, <1>5, <1>7, RequestWrites DEF Adopt

(* A row is made for an event.                                             *)
LEMMA CreateIInv == ASSUME IInv, NEW h \in Handlers, Create(h) PROVE IInv'
<1>1. handler[h] \in HandlerState /\ RequestOK(handler[h]) /\ handler[h].pc = "create"
  BY HandlerFacts DEF Create
<1>2. PICK r \in AutoIds :
        /\ executions[r] = None
        /\ executions' = [executions EXCEPT
             ![r] = [build |-> handler[h].event.build, status |-> "running", env |-> FALSE]]
  BY DEF Create
<1>3. PICK row : row = [build |-> handler[h].event.build, status |-> "running", env |-> FALSE]
  OBVIOUS
<1>4. row \in Row /\ RowSound(row) /\ aws[row.build] # "NOT_STARTED"
  BY <1>1, <1>3 DEF HandlerState, RequestOK, Event, Emitted, Row, Status, RowSound, StatusSound
<1>5. RowWritten(r, row)
  BY <1>2, <1>3, <1>4, DistinctIds DEF RowWritten, Ids
<1>6. RequestOK(IdleHandler)'
  BY DEF RequestOK, CopyOK, IdleHandler
<1> QED
  BY <1>5, <1>6, IdleStates, RequestWrites DEF Create

-----------------------------------------------------------------------------
USE DEF calmVars, CheckGoto

(* A check that moves to a right record keeps IInv, also when it writes a  *)
(* row on the way.                                                         *)
LEMMA CheckMoves ==
  ASSUME IInv, NEW c \in Checkers, NEW rec \in CheckerState, CheckOK(rec),
         checker' = [checker EXCEPT ![c] = rec], UNCHANGED checkVars,
         faults' \in Nat,
         \/ UNCHANGED executions
         \/ \E r \in Ids, row \in Row : RowWritten(r, row)
  PROVE  IInv'
<1> USE DEF checkVars, releaseVars
<1>1. /\ RowsOK' /\ RowsStay /\ AwsGrows
      /\ executions' \in [Ids -> Row \cup {None}]
  <2>1. CASE UNCHANGED executions
    BY <2>1 DEF RowsStay, AwsGrows, IInv, TypeOK, RowsOK, RowSound, StatusSound
  <2>2. CASE \E r \in Ids, row \in Row : RowWritten(r, row)
    BY <2>2, WriteOK
  <2> QED
    BY <2>1, <2>2
<1>2. TypeOK'
  BY <1>1 DEF IInv, TypeOK
<1>3. StartersOK' /\ OnlySuccessIsDeployed'
  BY DEF IInv, StartersOK, OnlySuccessIsDeployed
<1>4. ASSUME NEW k \in Checkers PROVE checker'[k] = checker[k] \/ CheckOK(checker[k])'
  <2>1. CheckOK(rec)'
    BY <1>1, CheckStable DEF IInv
  <2>2. checker'[k] = checker[k] \/ checker'[k] = rec
    BY DEF IInv, TypeOK
  <2> QED
    BY <2>1, <2>2 DEF CheckOK, CopyOK, StatusSound, RowSound
<1> QED
  BY <1>1, <1>2, <1>3, <1>4, Frame

(* Going on to the next row keeps a right record right.                    *)
LEMMA NextRowOK ==
  ASSUME IInv, NEW c \in Checkers, NextRow(c)
  PROVE  \E rec \in CheckerState : CheckOK(rec) /\ checker' = [checker EXCEPT ![c] = rec]
<1>1. checker[c] \in CheckerState /\ CheckOK(checker[c])
  BY DEF IInv, TypeOK
<1>2. PICK todo : todo = [checker[c].todo EXCEPT ![checker[c].exec] = None]
  OBVIOUS
<1>3. /\ todo \in [Ids -> Row \cup {None}]
      /\ \A r \in Ids : todo[r] # None => todo[r] = checker[c].todo[r]
  BY <1>1, <1>2 DEF CheckerState
<1>4. CASE CheckGoto(c, IdleChecker)
  BY <1>4, IdleStates, IdleOK
<1>5. CASE CheckGoto(c, [IdleChecker EXCEPT !.pc = "ask", !.mode = checker[c].mode, !.todo = todo])
  <2>1. PICK rec : rec = [IdleChecker EXCEPT !.pc = "ask", !.mode = checker[c].mode, !.todo = todo]
    OBVIOUS
  <2>2. rec \in CheckerState
    BY <2>1, <1>1, <1>3 DEF IdleChecker, CheckerState, Columns, NoColumns
  <2>3. CheckOK(rec)
    BY <2>1, <1>1, <1>3 DEF IdleChecker, CheckOK, CopyOK
  <2> QED
    BY <2>1, <2>2, <2>3, <1>5
<1> QED
  BY <1>2, <1>4, <1>5 DEF NextRow

(* What is known of a check in the current state.                          *)
LEMMA CheckerFacts ==
  ASSUME IInv, NEW c \in Checkers
  PROVE  checker[c] \in CheckerState /\ CheckOK(checker[c]) /\ faults \in Nat
BY DEF IInv, TypeOK

(* A check loads the stale rows.                                           *)
LEMMA CheckFindIInv ==
  ASSUME IInv, NEW c \in Checkers, NEW mode \in {"cron", "manual"}, NEW stale \in SUBSET Ids,
         CheckFind(c, mode, stale)
  PROVE  IInv'
<1>1. PICK todo : todo = [r \in Ids |-> IF r \in stale THEN executions[r] ELSE None]
  OBVIOUS
<1>2. /\ todo \in [Ids -> Row \cup {None}]
      /\ \A r \in Ids : todo[r] # None => todo[r] = executions[r]
  BY <1>1 DEF IInv, TypeOK
<1>3. PICK rec : rec = [IdleChecker EXCEPT !.pc = "ask", !.mode = mode, !.todo = todo]
  OBVIOUS
<1>4. rec \in CheckerState
  BY <1>2, <1>3 DEF IdleChecker, CheckerState, Columns, NoColumns
<1>5. CheckOK(rec)
  BY <1>2, <1>3, NoneIsNothing DEF IdleChecker, CheckOK, CopyOK, IInv, RowsOK, Ids
<1> QED
  BY <1>1, <1>3, <1>4, <1>5, CheckerFacts, CheckMoves DEF CheckFind

(* A check learns the status of a build.                                   *)
LEMMA CheckAskIInv == ASSUME IInv, NEW c \in Checkers, CheckAsk(c) PROVE IInv'
<1>1. checker[c] \in CheckerState /\ CheckOK(checker[c]) /\ checker[c].pc = "ask"
  BY CheckerFacts DEF CheckAsk
<1>2. PICK r \in Ids :
        /\ checker[c].todo[r] # None
        /\ LET answer  == aws[checker[c].todo[r].build]
               touches == answer = "IN_PROGRESS" /\ checker[c].mode = "cron"
           IN CheckGoto(c, [checker[c] EXCEPT
                !.exec = r,
                !.pc   = IF touches THEN "save"
                         ELSE IF answer = "IN_PROGRESS" \/ Unknown(c, answer) THEN "skip"
                         ELSE "load",
                !.copy = IF touches THEN checker[c].todo[r] ELSE None,
                !.to   = IF answer = "SUCCEEDED" THEN "success" ELSE "failed"])
  BY DEF CheckAsk
<1> DEFINE answer  == aws[checker[c].todo[r].build]
           touches == answer = "IN_PROGRESS" /\ checker[c].mode = "cron"
<1>3. PICK pc : pc = IF touches THEN "save"
                     ELSE IF answer = "IN_PROGRESS" \/ Unknown(c, answer) THEN "skip"
                     ELSE "load"
  OBVIOUS
<1>4. PICK to, copy : /\ to = IF answer = "SUCCEEDED" THEN "success" ELSE "failed"
                      /\ copy = IF touches THEN checker[c].todo[r] ELSE None
  OBVIOUS
<1>5. PICK rec : rec = [checker[c] EXCEPT !.exec = r, !.pc = pc, !.copy = copy, !.to = to]
  OBVIOUS
<1>6. rec \in CheckerState
  BY <1>1, <1>3, <1>4, <1>5 DEF CheckerState, Status
<1>7. executions[r] # None /\ checker[c].todo[r].build = executions[r].build
  BY <1>1, <1>2 DEF CheckOK, CopyOK
<1>8. pc = "load" => StatusSound(executions[r].build, to)
  <2>1. answer \in {"NOT_STARTED", "IN_PROGRESS"} \cup Outcomes
    BY <1>1, <1>2 DEF CheckerState, Row, IInv, TypeOK
  <2>2. answer # "NOT_STARTED"
    BY <1>7 DEF IInv, RowsOK
  <2> QED
    BY <2>1, <2>2, <1>3, <1>4, <1>7 DEF StatusSound
<1>9. CheckOK(rec)
  <2>1. CopyOK(r, copy)
    BY <1>1, <1>4 DEF CheckOK, CopyOK
  <2>2. \A i \in Ids : CopyOK(i, rec.todo[i])
    BY <1>1, <1>5 DEF CheckerState, CheckOK
  <2>3. /\ rec.exec = r /\ r # None /\ rec.pc = pc /\ rec.to = to /\ rec.copy = copy
        /\ to # None /\ (copy # None <=> pc = "save") /\ pc # "saving"
    BY <1>1, <1>2, <1>3, <1>4, <1>5, NoneIsNothing, NoneIsNoValue
       DEF CheckerState, CheckOK, Ids, Status
  <2> QED
    BY <2>1, <2>2, <2>3, <1>3, <1>7, <1>8 DEF CheckOK
<1> QED
  BY <1>2, <1>3, <1>4, <1>5, <1>6, <1>9, CheckerFacts, CheckMoves DEF CheckAsk

(* A check leaves a row alone.                                             *)
LEMMA CheckSkipIInv == ASSUME IInv, NEW c \in Checkers, CheckSkip(c) PROVE IInv'
<1>1. PICK rec \in CheckerState : CheckOK(rec) /\ checker' = [checker EXCEPT ![c] = rec]
  BY NextRowOK DEF CheckSkip
<1>2. faults' \in Nat
  BY CheckerFacts DEF CheckSkip, Fault
<1> QED
  BY <1>1, <1>2, CheckerFacts, CheckMoves DEF CheckSkip

(* A check loads the row again and changes its status.                     *)
LEMMA CheckLoadIInv == ASSUME IInv, NEW c \in Checkers, CheckLoad(c) PROVE IInv'
<1>1. checker[c] \in CheckerState /\ CheckOK(checker[c]) /\ checker[c].pc = "load"
  BY CheckerFacts DEF CheckLoad
<1>2. /\ checker[c].exec \in Ids /\ executions[checker[c].exec] \in Row
      /\ executions[checker[c].exec] # None /\ RowSound(executions[checker[c].exec])
  BY <1>1 DEF CheckerState, CheckOK, IInv, TypeOK, RowsOK
<1>3. PICK copy : copy = Updated(executions[checker[c].exec], checker[c].to, FALSE)
  OBVIOUS
<1>4. copy \in Row /\ RowSound(copy) /\ copy.build = executions[checker[c].exec].build
  BY <1>1, <1>2, <1>3 DEF Updated, Row, RowSound, CheckOK, CheckerState
<1>5. PICK rec : rec = [checker[c] EXCEPT !.pc = "save", !.copy = copy]
  OBVIOUS
<1>6. rec \in CheckerState
  BY <1>1, <1>4, <1>5 DEF CheckerState
<1>7. CheckOK(rec)
  BY <1>1, <1>2, <1>4, <1>5, NoneIsNoValue DEF CheckerState, CheckOK, CopyOK
<1> QED
  BY <1>3, <1>5, <1>6, <1>7, CheckerFacts, CheckMoves DEF CheckLoad

(* Its save compares its copy with the row.                                *)
LEMMA CheckCompareIInv == ASSUME IInv, NEW c \in Checkers, CheckCompare(c) PROVE IInv'
<1>1. checker[c] \in CheckerState /\ CheckOK(checker[c]) /\ checker[c].pc = "save"
  BY CheckerFacts DEF CheckCompare
<1>2. PICK columns \in Columns :
        CheckGoto(c, [checker[c] EXCEPT !.pc = "saving", !.columns = columns])
  BY DEF CheckCompare, Differing
<1>3. PICK rec : rec = [checker[c] EXCEPT !.pc = "saving", !.columns = columns]
  OBVIOUS
<1>4. rec \in CheckerState
  BY <1>1, <1>3 DEF CheckerState
<1>5. CheckOK(rec)
  BY <1>1, <1>3 DEF CheckerState, CheckOK
<1> QED
  BY <1>2, <1>3, <1>4, <1>5, CheckerFacts, CheckMoves DEF CheckCompare

(* It writes what differs.                                                 *)
LEMMA CheckSaveIInv == ASSUME IInv, NEW c \in Checkers, CheckSave(c) PROVE IInv'
<1>1. checker[c] \in CheckerState /\ CheckOK(checker[c]) /\ checker[c].pc = "saving"
  BY CheckerFacts DEF CheckSave
<1>2. /\ checker[c].exec \in Ids /\ executions[checker[c].exec] # None
      /\ checker[c].copy \in Row /\ CopyOK(checker[c].exec, checker[c].copy)
      /\ checker[c].columns \in Columns
  BY <1>1 DEF CheckerState, CheckOK
<1>3. \E row \in Row : RowWritten(checker[c].exec, row)
  BY <1>2, MergedOK DEF CheckSave
<1>4. PICK rec \in CheckerState : CheckOK(rec) /\ checker' = [checker EXCEPT ![c] = rec]
  BY NextRowOK DEF CheckSave
<1> QED
  BY <1>2, <1>3, <1>4, CheckerFacts, CheckMoves DEF CheckSave

-----------------------------------------------------------------------------
(* Steps of startBuild, CodeBuild, editors and the process.                *)

(* A build that has started was started for a pipeline.                    *)
LEMMA StartedFor ==
  ASSUME IInv, NEW b \in Builds, starter[b] # "idle" PROVE builtFor[b] \in Pipelines
BY DEF IInv, TypeOK, StartersOK

(* A build starts.                                                         *)
LEMMA StartBuildIInv ==
  ASSUME IInv, NEW b \in Builds, NEW p \in Pipelines, StartBuild(b, p) PROVE IInv'
<1> USE DEF StartBuild
<1>1. aws[b] = "NOT_STARTED"
  BY DEF IInv, StartersOK
<1>2. TypeOK'
  <2>1. InHand \subseteq Pipelines
    <3>1. \A i \in Starting : builtFor[i] \in Pipelines
      BY StartedFor DEF Starting
    <3>2. \A k \in Deploying : handler[k].pipeline \in Pipelines
      BY HandlerFacts DEF Deploying, HandlerState, RequestOK
    <3>3. editor # None => editor.pipeline \in Pipelines
      BY DEF IInv, TypeOK, Edit
    <3> QED
      BY <3>1, <3>2, <3>3 DEF InHand
  <2>2. beside' \in [Builds -> SUBSET Pipelines]
    BY <2>1 DEF Beside, IInv, TypeOK
  <2> QED
    BY <2>2 DEF IInv, TypeOK
<1>3. RowsStay /\ AwsGrows
  BY <1>1 DEF RowsStay, AwsGrows, IInv, TypeOK
<1>4. RowsOK'
  BY <1>3, RowStable DEF IInv, TypeOK, RowsOK, AwsGrows, Row
<1>5. StartersOK'
  BY NoneIsNothing DEF IInv, TypeOK, StartersOK
<1>6. OnlySuccessIsDeployed'
  BY <1>1 DEF IInv, TypeOK, OnlySuccessIsDeployed
<1> QED
  BY <1>2, <1>3, <1>4, <1>5, <1>6, Frame

(* A build ends.                                                           *)
LEMMA BuildEndsIInv ==
  ASSUME IInv, NEW b \in Builds, NEW o \in Outcomes, BuildEnds(b, o) PROVE IInv'
<1> USE DEF BuildEnds
<1>1. TypeOK'
  <2>1. starter[b] # "done" => builtFor[b] \in Pipelines
    BY StartedFor DEF IInv, StartersOK
  <2> QED
    BY <2>1 DEF IInv, TypeOK
<1>2. RowsStay /\ AwsGrows
  BY OutcomesKnown DEF RowsStay, AwsGrows, IInv, TypeOK
<1>3. RowsOK'
  BY <1>2, RowStable DEF IInv, TypeOK, RowsOK, AwsGrows, Row
<1>4. StartersOK'
  BY OutcomesKnown DEF IInv, TypeOK, StartersOK
<1>5. OnlySuccessIsDeployed'
  BY DEF IInv, TypeOK, OnlySuccessIsDeployed
<1> QED
  BY <1>1, <1>2, <1>3, <1>4, <1>5, Frame

(* The row of a build is inserted.                                         *)
LEMMA RecordExecutionIInv == ASSUME IInv, NEW b \in Builds, RecordExecution(b) PROVE IInv'
<1> USE DEF RecordExecution, releaseVars
<1>1. StartersOK' /\ OnlySuccessIsDeployed' /\ aws[b] # "NOT_STARTED"
  BY DEF IInv, TypeOK, StartersOK, OnlySuccessIsDeployed
<1>2. PICK row : row = [build |-> b, status |-> "running", env |-> FALSE]
  OBVIOUS
<1>3. CASE UNCHANGED faults /\ executions' = [executions EXCEPT ![b] = row]
  <2>1. row \in Row /\ RowSound(row)
    BY <1>2 DEF Row, Status, RowSound, StatusSound
  <2>2. RowWritten(b, row)
    BY <1>1, <1>2, <1>3, <2>1 DEF RowWritten, Ids, IInv, RowsOK
  <2>3. TypeOK'
    BY <1>3, <2>2, WriteOK DEF IInv, TypeOK
  <2> QED
    BY <1>1, <2>2, <2>3, WriteOK, Frame
<1>4. CASE Fault /\ UNCHANGED executions
  <2>1. TypeOK'
    BY <1>4 DEF IInv, TypeOK, Fault
  <2>2. RowsStay /\ AwsGrows /\ RowsOK'
    BY <1>4 DEF RowsStay, AwsGrows, IInv, RowsOK, RowSound, StatusSound
  <2> QED
    BY <1>1, <2>1, <2>2, Frame
<1> QED
  BY <1>2, <1>3, <1>4

(* A step that leaves rows, builds, requests and checks alone.             *)
LEMMA Aside ==
  ASSUME IInv, TypeOK', StartersOK', UNCHANGED <<aws, executions, handler, checker, triggers>>
  PROVE  IInv'
<1>1. RowsStay /\ AwsGrows /\ RowsOK' /\ OnlySuccessIsDeployed'
  BY DEF RowsStay, AwsGrows, IInv, RowsOK, RowSound, StatusSound, OnlySuccessIsDeployed
<1> QED
  BY <1>1, Frame

(* The pipeline gets its image.                                            *)
LEMMA SetImageIInv == ASSUME IInv, NEW b \in Builds, SetImage(b) PROVE IInv'
<1>1. TypeOK' /\ StartersOK'
  BY DEF SetImage, IInv, TypeOK, StartersOK
<1> QED
  BY <1>1, Aside DEF SetImage

(* A request that started a build fails.                                   *)
LEMMA StartFailsIInv == ASSUME IInv, NEW b \in Builds, StartFails(b) PROVE IInv'
<1>1. TypeOK' /\ StartersOK'
  BY DEF StartFails, Fault, IInv, TypeOK, StartersOK, releaseVars
<1> QED
  BY <1>1, Aside DEF StartFails

(* A pipeline is loaded, compared or saved by its editor.                  *)
LEMMA EditIInv ==
  ASSUME IInv, (\E p \in Pipelines : EditPipeline(p)) \/ ComparePipeline \/ SavePipeline
  PROVE  IInv'
<1>1. ASSUME NEW p \in Pipelines, EditPipeline(p) PROVE IInv'
  <2>1. beside' \in [Builds -> SUBSET Pipelines]
    BY <1>1 DEF EditPipeline, Beside, IInv, TypeOK
  <2>2. TypeOK' /\ StartersOK'
    BY <1>1, <2>1 DEF EditPipeline, IInv, TypeOK, StartersOK, Edit
  <2> QED
    BY <1>1, <2>2, Aside DEF EditPipeline
<1>2. CASE ComparePipeline
  <2>1. editor \in Edit
    BY <1>2 DEF ComparePipeline, IInv, TypeOK
  <2>2. editor' \in Edit
    BY <1>2, <2>1 DEF ComparePipeline, Edit
  <2>3. TypeOK' /\ StartersOK'
    BY <1>2, <2>2 DEF ComparePipeline, IInv, TypeOK, StartersOK
  <2> QED
    BY <1>2, <2>3, Aside DEF ComparePipeline
<1>3. CASE SavePipeline
  <2>1. editor \in Edit
    BY <1>3 DEF SavePipeline, IInv, TypeOK
  <2>2. image' \in [Pipelines -> Builds \cup {None}]
    BY <1>3, <2>1 DEF SavePipeline, IInv, TypeOK, Edit
  <2>3. latest' \in Pipelines \cup {None}
    BY <1>3, <2>1 DEF SavePipeline, IInv, TypeOK, Edit
  <2>4. TypeOK' /\ StartersOK'
    BY <1>3, <2>2, <2>3 DEF SavePipeline, IInv, TypeOK, StartersOK
  <2> QED
    BY <1>3, <2>4, Aside DEF SavePipeline
<1> QED
  BY <1>1, <1>2, <1>3

(* The process restarts.                                                   *)
LEMMA RestartIInv == ASSUME IInv, Restart PROVE IInv'
<1> USE DEF Restart
<1>1. TypeOK'
  BY IdleStates DEF IInv, TypeOK
<1>2. RowsStay /\ AwsGrows /\ RowsOK' /\ OnlySuccessIsDeployed' /\ StartersOK'
  BY DEF RowsStay, AwsGrows, IInv, TypeOK, RowsOK, RowSound, StatusSound,
         OnlySuccessIsDeployed, StartersOK, Starting
<1>3. /\ \A h \in Handlers : handler'[h] = IdleHandler
      /\ \A c \in Checkers : checker'[c] = IdleChecker
  OBVIOUS
<1>4. RequestOK(IdleHandler)' /\ CheckOK(IdleChecker)'
  BY DEF RequestOK, CheckOK, CopyOK, IdleHandler, IdleChecker
<1>5. /\ \A h \in Handlers : RequestOK(handler[h])'
      /\ \A c \in Checkers : CheckOK(checker[c])'
  BY <1>3, <1>4 DEF RequestOK, CheckOK, CopyOK, StatusSound, RowSound
<1> QED
  BY <1>1, <1>2, <1>5, Frame

-----------------------------------------------------------------------------
(* A step of a request handler keeps IInv.                                 *)
LEMMA RequestStepIInv == ASSUME IInv, NEW h \in Handlers, RequestStep(h) PROVE IInv'
BY DedupNewIInv, DedupSkipIInv, FindByBuildIdIInv, FindNothingIInv, FindByIdIInv, AdoptIInv,
   CreateIInv, LoadIInv, CompareIInv, SaveIInv, TriggerIInv, DeployIInv, SetUrlIInv,
   RequestFailsIInv
   DEF RequestStep

(* So does a step of a check.                                              *)
LEMMA CheckStepIInv == ASSUME IInv, NEW c \in Checkers, CheckStep(c) PROVE IInv'
BY CheckAskIInv, CheckSkipIInv, CheckLoadIInv, CheckCompareIInv, CheckSaveIInv DEF CheckStep

(* IInv is inductive.                                                      *)
LEMMA NextIInv == IInv /\ [Next]_vars => IInv'
<1> SUFFICES ASSUME IInv, [Next]_vars PROVE IInv'
  OBVIOUS
<1>1. ASSUME NEW b \in Builds, NEW p \in Pipelines, StartBuild(b, p) PROVE IInv'
  BY <1>1, StartBuildIInv
<1>2. ASSUME NEW b \in Builds, RecordExecution(b) \/ SetImage(b) \/ StartFails(b) PROVE IInv'
  BY <1>2, RecordExecutionIInv, SetImageIInv, StartFailsIInv
<1>3. ASSUME NEW p \in Pipelines, EditPipeline(p) PROVE IInv'
  BY <1>3, EditIInv
<1>4. CASE ComparePipeline \/ SavePipeline
  BY <1>4, EditIInv
<1>5. ASSUME NEW b \in Builds, NEW o \in Outcomes, BuildEnds(b, o) PROVE IInv'
  BY <1>5, BuildEndsIInv
<1>6. ASSUME NEW h \in Handlers, NEW e \in Event, Receive(h, e) PROVE IInv'
  BY <1>6, ReceiveIInv
<1>7. ASSUME NEW h \in Handlers, RequestStep(h) PROVE IInv'
  BY <1>7, RequestStepIInv
<1>8. ASSUME NEW h \in Handlers, NEW r \in Ids, NEW s \in PatchStatuses, Patch(h, r, s)
      PROVE  IInv'
  BY <1>8, PatchIInv
<1>9. ASSUME NEW c \in Checkers, NEW mode \in {"cron", "manual"}, NEW stale \in SUBSET Ids,
             CheckFind(c, mode, stale)
      PROVE  IInv'
  BY <1>9, CheckFindIInv
<1>10. ASSUME NEW c \in Checkers, CheckStep(c) PROVE IInv'
  BY <1>10, CheckStepIInv
<1>11. CASE Restart
  BY <1>11, RestartIInv
<1>12. CASE UNCHANGED vars
  <2>1. TypeOK' /\ StartersOK'
    BY <1>12 DEF vars, IInv, TypeOK, StartersOK
  <2> QED
    BY <1>12, <2>1, Aside DEF vars
<1> QED
  BY <1>1, <1>2, <1>3, <1>4, <1>5, <1>6, <1>7, <1>8, <1>9, <1>10, <1>11, <1>12 DEF Next

(* Every reachable state satisfies IInv.                                   *)
THEOREM Invariant == Spec => []IInv
BY InitIInv, NextIInv, PTL DEF Spec

(* Every variable keeps its type, for every number of builds, requests,    *)
(* checks, faults and restarts.                                            *)
THEOREM TypeCorrect == Spec => []TypeOK
<1>1. IInv => TypeOK
  BY DEF IInv
<1> QED
  BY <1>1, Invariant, PTL

(* Only a build that CodeBuild reported SUCCEEDED is ever deployed.        *)
THEOREM OnlySuccessDeployed == Spec => []OnlySuccessIsDeployed
<1>1. IInv => OnlySuccessIsDeployed
  BY DEF IInv
<1> QED
  BY <1>1, Invariant, PTL

(* As long as no client patches statuses, a final status in the table is   *)
(* the outcome that CodeBuild reported.                                    *)
THEOREM StatusReported ==
  ASSUME PatchStatuses = {} PROVE Spec => []StatusIsReported
<1>1. IInv => StatusIsReported
  BY DEF IInv, RowsOK, RowSound, StatusSound, StatusIsReported
<1> QED
  BY <1>1, Invariant, PTL

-----------------------------------------------------------------------------
(* At most one deployment.  The event of a successful build is carried by  *)
(* one handler at most once it has passed the duplicate check, its mark    *)
(* outlives the handler, and the build is not deployed while it is carried.*)
Success(b) == [build |-> b, kind |-> "SUCCEEDED"]

Carries(h, b) ==
  /\ handler[h].event # None /\ handler[h].event = Success(b)
  /\ handler[h].pc \notin {"idle", "dedup"}

OnceInv ==
  RedisReliable => \A b \in Builds :
    /\ triggers[b] <= 1
    /\ triggers[b] > 0 => Success(b) \in marked
    /\ \A h \in Handlers : Carries(h, b) =>
         /\ Success(b) \in marked /\ triggers[b] = 0
         /\ \A k \in Handlers : Carries(k, b) => k = h

(* A step that deploys nothing, unmarks nothing and lets nobody else carry *)
(* an event keeps OnceInv.                                                 *)
LEMMA OnceFrame ==
  ASSUME OnceInv, UNCHANGED <<marked, triggers>>,
         \A h \in Handlers, b \in Builds : Carries(h, b)' => Carries(h, b)
  PROVE  OnceInv'
BY DEF OnceInv

(* A handler that goes idle or on with its event carries nothing new.      *)
LEMMA OnceGoto ==
  ASSUME TypeOK, OnceInv, UNCHANGED <<marked, triggers>>, NEW h \in Handlers, NEW rec,
         handler' = [handler EXCEPT ![h] = rec],
         \/ rec.pc \in {"idle", "dedup"}
         \/ rec.event = None
         \/ rec.event = handler[h].event /\ handler[h].pc \notin {"idle", "dedup"}
  PROVE  OnceInv'
<1>1. ASSUME NEW k \in Handlers, NEW b \in Builds, Carries(k, b)' PROVE Carries(k, b)
  <2>1. CASE k # h
    BY <1>1, <2>1 DEF TypeOK, Carries
  <2>2. CASE k = h
    <3>1. handler'[h] = rec
      BY DEF TypeOK
    <3> QED
      BY <1>1, <2>2, <3>1 DEF Carries
  <2> QED
    BY <2>1, <2>2
<1> QED
  BY <1>1, OnceFrame

(* The duplicate check lets one handler carry the event.                   *)
LEMMA OnceDedupNew ==
  ASSUME TypeOK, OnceInv, NEW h \in Handlers, DedupNew(h) PROVE OnceInv'
<1> SUFFICES ASSUME RedisReliable, NEW b \in Builds
             PROVE  /\ triggers'[b] <= 1
                    /\ triggers'[b] > 0 => Success(b) \in marked'
                    /\ \A k \in Handlers : Carries(k, b)' =>
                         /\ Success(b) \in marked' /\ triggers'[b] = 0
                         /\ \A l \in Handlers : Carries(l, b)' => l = k
  BY DEF OnceInv
<1>1. /\ handler[h].event \notin marked /\ marked' = marked \cup {handler[h].event}
      /\ UNCHANGED triggers /\ triggers[b] \in Nat
      /\ handler'[h].event = handler[h].event
      /\ \A k \in Handlers \ {h} : handler'[k] = handler[k]
  BY DEF DedupNew, TypeOK, HandlerState
<1>2. \A k \in Handlers \ {h} : Carries(k, b)' <=> Carries(k, b)
  BY <1>1 DEF Carries
<1>3. CASE handler[h].event = Success(b)
  BY <1>1, <1>2, <1>3 DEF OnceInv
<1>4. CASE handler[h].event # Success(b)
  <2>1. ~Carries(h, b)'
    BY <1>1, <1>4 DEF Carries
  <2> QED
    BY <1>1, <1>2, <2>1 DEF OnceInv
<1> QED
  BY <1>3, <1>4

(* The deployment takes the event from its only carrier.                   *)
LEMMA OnceDeploy ==
  ASSUME IInv, OnceInv, NEW h \in Handlers, Deploy(h) PROVE OnceInv'
<1>1. /\ handler[h] \in HandlerState /\ RequestOK(handler[h]) /\ handler[h].pc = "deploy"
      /\ UNCHANGED marked /\ TypeOK
  BY HandlerFacts DEF Deploy, IInv
<1>2. PICK e \in Event : e = handler[h].event /\ e.kind = "SUCCEEDED"
  BY <1>1 DEF RequestOK, HandlerState
<1>3. e.build \in Builds /\ e = Success(e.build)
  BY <1>2 DEF Event, Success
<1>4. Carries(h, e.build)
  BY <1>1, <1>2, <1>3, NoneIsNoValue DEF Carries
<1>5. CASE UNCHANGED triggers /\ Reply(h)
  BY <1>1, <1>5, OnceGoto DEF IdleHandler
<1>6. CASE /\ triggers' = [triggers EXCEPT ![e.build] = @ + 1]
           /\ Goto(h, [IdleHandler EXCEPT !.pc = "url", !.pipeline = handler[h].pipeline])
  <2>1. ASSUME NEW k \in Handlers, NEW b \in Builds, Carries(k, b)'
        PROVE  Carries(k, b) /\ k # h
    <3>1. k # h
      BY <1>1, <1>6, <2>1 DEF Carries, TypeOK, IdleHandler
    <3> QED
      BY <1>1, <1>6, <2>1, <3>1 DEF Carries, TypeOK
  <2>2. triggers \in [Builds -> Nat]
    BY <1>1 DEF TypeOK
  <2> QED
    BY <1>1, <1>3, <1>4, <1>6, <2>1, <2>2 DEF OnceInv
<1> QED
  BY <1>2, <1>5, <1>6 DEF Deploy

(* No other step of a request changes who carries an event.                *)
LEMMA OnceRequestStep ==
  ASSUME IInv, OnceInv, NEW h \in Handlers, RequestStep(h) PROVE OnceInv'
<1>1. TypeOK /\ handler[h] \in HandlerState
  BY DEF IInv, TypeOK
<1>2. CASE DedupNew(h)
  BY <1>1, <1>2, OnceDedupNew
<1>3. CASE Deploy(h)
  BY <1>3, OnceDeploy
<1>4. CASE DedupSkip(h)
  BY <1>1, <1>4, OnceGoto DEF DedupSkip, IdleHandler
<1>5. CASE FindByBuildId(h)
  BY <1>1, <1>5, OnceGoto DEF FindByBuildId, IdleHandler, HandlerState
<1>6. CASE FindNothing(h) \/ FindById(h)
  BY <1>1, <1>6, OnceGoto DEF FindNothing, FindById, IdleHandler, HandlerState
<1>7. CASE Adopt(h) \/ Create(h)
  BY <1>1, <1>7, OnceGoto DEF Adopt, Create, IdleHandler, HandlerState
<1>8. CASE Load(h) \/ Compare(h)
  BY <1>1, <1>8, OnceGoto DEF Load, Compare, IdleHandler, HandlerState
<1>9. CASE Save(h) \/ Trigger(h) \/ SetUrl(h) \/ RequestFails(h)
  BY <1>1, <1>9, OnceGoto DEF Save, Trigger, SetUrl, RequestFails, IdleHandler, HandlerState
<1> QED
  BY <1>2, <1>3, <1>4, <1>5, <1>6, <1>7, <1>8, <1>9 DEF RequestStep

(* OnceInv is inductive, given IInv.                                       *)
LEMMA NextOnce == IInv /\ OnceInv /\ [Next]_vars => OnceInv'
<1> SUFFICES ASSUME IInv, OnceInv, [Next]_vars PROVE OnceInv'
  OBVIOUS
<1>1. TypeOK
  BY DEF IInv
<1>2. ASSUME NEW h \in Handlers, RequestStep(h) PROVE OnceInv'
  BY <1>2, OnceRequestStep
<1>3. ASSUME NEW h \in Handlers, NEW e \in Event, Receive(h, e) PROVE OnceInv'
  BY <1>1, <1>3, OnceGoto DEF Receive, IdleHandler
<1>4. ASSUME NEW h \in Handlers, NEW r \in Ids, NEW s \in PatchStatuses, Patch(h, r, s)
      PROVE  OnceInv'
  BY <1>1, <1>4, OnceGoto DEF Patch, IdleHandler
<1>5. CASE Restart
  <2>1. \A h \in Handlers, b \in Builds : ~Carries(h, b)'
    BY <1>5 DEF Restart, Carries, IdleHandler
  <2> QED
    BY <1>5, <2>1, OnceFrame DEF Restart
<1>6. CASE UNCHANGED <<handler, marked, triggers>>
  BY <1>6, OnceFrame DEF Carries
<1>7. /\ \A b \in Builds, p \in Pipelines : StartBuild(b, p) => UNCHANGED <<handler, marked, triggers>>
      /\ \A b \in Builds : RecordExecution(b) \/ SetImage(b) \/ StartFails(b) =>
           UNCHANGED <<handler, marked, triggers>>
      /\ \A p \in Pipelines : EditPipeline(p) => UNCHANGED <<handler, marked, triggers>>
      /\ ComparePipeline \/ SavePipeline => UNCHANGED <<handler, marked, triggers>>
      /\ \A b \in Builds, o \in Outcomes : BuildEnds(b, o) => UNCHANGED <<handler, marked, triggers>>
  BY DEF StartBuild, RecordExecution, SetImage, StartFails, EditPipeline, ComparePipeline,
         SavePipeline, BuildEnds
<1>8. /\ \A c \in Checkers, mode \in {"cron", "manual"}, stale \in SUBSET Ids :
           CheckFind(c, mode, stale) => UNCHANGED <<handler, marked, triggers>>
      /\ \A c \in Checkers : CheckStep(c) => UNCHANGED <<handler, marked, triggers>>
      /\ UNCHANGED vars => UNCHANGED <<handler, marked, triggers>>
  BY DEF CheckFind, CheckStep, CheckAsk, CheckSkip, CheckLoad, CheckCompare, CheckSave, vars, checkVars
<1> QED
  BY <1>2, <1>3, <1>4, <1>5, <1>6, <1>7, <1>8 DEF Next

(* As long as Redis answers, a build starts at most one deployment,        *)
(* however often and in whatever interleaving its events are delivered.    *)
THEOREM DeployedOnce == ASSUME RedisReliable PROVE Spec => []AtMostOneDeployment
<1>1. Init => OnceInv
  BY DEF Init, OnceInv, Carries, IdleHandler
<1>2. OnceInv => AtMostOneDeployment
  BY DEF OnceInv, AtMostOneDeployment
<1> QED
  BY <1>1, <1>2, NextOnce, Invariant, PTL DEF Spec

-----------------------------------------------------------------------------
(* Undisturbed builds.  Whoever has a pipeline in hand is beside every     *)
(* other build, so the pipeline that is not beside a build still has the   *)
(* image of that build, and is the one updated last if none is.            *)
HandsBeside(b) ==
  /\ \A i \in Starting : i # b => builtFor[i] \in beside[b]
  /\ \A h \in Deploying : handler[h].pipeline \in beside[b]
  /\ editor # None => editor.pipeline \in beside[b]

OwnImage(b) ==
  /\ aws[b] # "IN_PROGRESS" /\ builtFor[b] \notin beside[b] => starter[b] = "done"
  /\ starter[b] = "done" /\ builtFor[b] \notin beside[b] => image[builtFor[b]] = b
  /\ starter[b] = "done" /\ beside[b] = {} => latest = builtFor[b]

(* The pipeline a handler is about to deploy.                              *)
OwnPipeline(rec) ==
  rec.pc = "deploy" =>
    IF rec.entity.env THEN rec.pipeline = builtFor[rec.event.build]
    ELSE beside[rec.event.build] = {} => rec.pipeline = builtFor[rec.event.build]

OwnShipped(d) ==
  /\ starter[d.build] # "idle"
  /\ d.undisturbed => d.pipeline = builtFor[d.build] /\ d.image = d.build

BesideInv ==
  /\ \A b \in Builds : starter[b] # "idle" => HandsBeside(b) /\ OwnImage(b)
  /\ \A h \in Handlers : OwnPipeline(handler[h])
  /\ \A d \in shipped : OwnShipped(d)

(* What a build that has started keeps.                                    *)
Keeps(b) ==
  starter[b] # "idle" => /\ builtFor'[b] = builtFor[b] /\ starter'[b] # "idle"
                         /\ beside[b] \subseteq beside'[b]

(* A handler at "deploy" is about a build that has started.                *)
LEMMA DeployerFacts ==
  ASSUME IInv, NEW h \in Handlers, handler[h].pc \in {"trigger", "deploy"}
  PROVE  /\ handler[h].event \in Event /\ handler[h].event.build \in Builds
         /\ aws[handler[h].event.build] = "SUCCEEDED"
         /\ starter[handler[h].event.build] # "idle"
<1>1. /\ handler[h].event \in Event /\ handler[h].event \in Emitted
      /\ handler[h].event.kind = "SUCCEEDED"
  BY HandlerFacts DEF HandlerState, RequestOK
<1> QED
  BY <1>1 DEF Event, Emitted, IInv, StartersOK

(* What is known of pipelines about to be deployed, and deployed, stays.   *)
LEMMA OwnStable ==
  ASSUME IInv, BesideInv, \A b \in Builds : Keeps(b),
         \A h \in Handlers : handler'[h] = handler[h] \/ OwnPipeline(handler[h])',
         UNCHANGED shipped
  PROVE  /\ \A h \in Handlers : OwnPipeline(handler[h])'
         /\ \A d \in shipped' : OwnShipped(d)'
<1>1. ASSUME NEW h \in Handlers, handler'[h] = handler[h] PROVE OwnPipeline(handler[h])'
  <2> SUFFICES ASSUME handler[h].pc = "deploy" PROVE OwnPipeline(handler[h])'
    BY <1>1 DEF OwnPipeline
  <2>1. Keeps(handler[h].event.build) /\ starter[handler[h].event.build] # "idle"
    BY DeployerFacts
  <2>2. OwnPipeline(handler[h])
    BY DEF BesideInv
  <2> QED
    BY <1>1, <2>1, <2>2 DEF Keeps, OwnPipeline
<1>2. ASSUME NEW d \in shipped PROVE OwnShipped(d)'
  <2>1. d.build \in Builds
    BY DEF IInv, TypeOK
  <2> QED
    BY <2>1 DEF BesideInv, OwnShipped, Keeps
<1> QED
  BY <1>1, <1>2

(* A step that takes nothing in hand, ends no build and stores no image or *)
(* URL keeps BesideInv.                                                    *)
LEMMA BesideFrame ==
  ASSUME IInv, BesideInv, UNCHANGED <<aws, builtFor, image, latest, shipped, beside>>,
         \A b \in Builds : starter'[b] = starter[b] \/ (b \in Starting /\ starter'[b] \in {"image", "failed"}),
         editor' # None => editor # None /\ editor'.pipeline = editor.pipeline,
         \A h \in Deploying' : h \in Deploying /\ handler'[h] = handler[h],
         \A h \in Handlers : handler'[h] = handler[h] \/ OwnPipeline(handler[h])'
  PROVE  BesideInv'
<1>1. \A b \in Builds : Keeps(b) /\ (starter'[b] # "idle" => starter[b] # "idle")
  BY DEF Keeps, Starting
<1>2. \A i \in Starting' : i \in Starting
  BY DEF Starting
<1>3. ASSUME NEW b \in Builds, starter'[b] # "idle" PROVE HandsBeside(b)' /\ OwnImage(b)'
  <2>1. HandsBeside(b) /\ OwnImage(b)
    BY <1>1, <1>3 DEF BesideInv
  <2>2. HandsBeside(b)'
    BY <2>1, <1>2 DEF HandsBeside
  <2>3. starter'[b] = "done" <=> starter[b] = "done"
    BY DEF Starting
  <2> QED
    BY <2>1, <2>2, <2>3 DEF OwnImage, Starting
<1> QED
  BY <1>1, <1>3, OwnStable DEF BesideInv

(* A build starts beside whatever is in hand, and beside the others.       *)
LEMMA BesideStart ==
  ASSUME IInv, BesideInv, NEW i \in Builds, NEW p \in Pipelines, StartBuild(i, p)
  PROVE  BesideInv'
<1>1. /\ starter[i] = "idle" /\ UNCHANGED <<image, latest, editor, handler, shipped>>
      /\ \A b \in Builds : /\ starter'[b] = IF b = i THEN "record" ELSE starter[b]
                           /\ builtFor'[b] = IF b = i THEN p ELSE builtFor[b]
                           /\ aws'[b] = IF b = i THEN "IN_PROGRESS" ELSE aws[b]
      /\ beside'[i] = InHand
      /\ \A b \in Builds : b # i /\ starter[b] # "idle" => beside'[b] = beside[b] \cup {p}
  <2>1. beside' = [Beside(p) EXCEPT ![i] = InHand]
    BY DEF StartBuild
  <2>2. /\ beside'[i] = InHand
        /\ \A b \in Builds : b # i /\ starter[b] # "idle" => beside'[b] = beside[b] \cup {p}
    BY <2>1 DEF Beside
  <2> QED
    BY <2>2 DEF StartBuild, IInv, TypeOK
<1>2. \A b \in Builds : Keeps(b)
  BY <1>1 DEF Keeps
<1>3. \A k \in Starting' : k = i \/ (k \in Starting /\ k # i)
  BY <1>1 DEF Starting
<1>4. ASSUME NEW b \in Builds, starter'[b] # "idle" PROVE HandsBeside(b)' /\ OwnImage(b)'
  <2>1. CASE b = i
    <3>1. HandsBeside(b)'
      BY <2>1, <1>1, <1>3 DEF HandsBeside, InHand, Deploying, Starting
    <3> QED
      BY <3>1, <2>1, <1>1 DEF OwnImage
  <2>2. CASE b # i
    <3>1. HandsBeside(b) /\ OwnImage(b) /\ starter[b] # "idle"
      BY <2>2, <1>1, <1>4 DEF BesideInv
    <3>2. HandsBeside(b)'
      BY <3>1, <2>2, <1>1, <1>3 DEF HandsBeside, Deploying, Starting
    <3> QED
      BY <3>1, <3>2, <2>2, <1>1 DEF OwnImage
  <2> QED
    BY <2>1, <2>2
<1> QED
  BY <1>1, <1>2, <1>4, OwnStable DEF BesideInv

(* A build stores its image: its pipeline is beside the others.            *)
LEMMA BesideSetImage ==
  ASSUME IInv, BesideInv, NEW i \in Builds, SetImage(i) PROVE BesideInv'
<1> USE DEF SetImage
<1>1. /\ i \in Starting /\ latest' = builtFor[i] /\ builtFor[i] \in Pipelines
      /\ \A b \in Builds : starter'[b] = IF b = i THEN "done" ELSE starter[b]
      /\ \A p \in Pipelines : image'[p] = IF p = builtFor[i] THEN i ELSE image[p]
  BY StartedFor DEF IInv, TypeOK, Starting
<1>2. \A b \in Builds : Keeps(b)
  BY <1>1 DEF Keeps, historyVars
<1>3. ASSUME NEW b \in Builds, starter'[b] # "idle" PROVE HandsBeside(b)' /\ OwnImage(b)'
  <2>1. HandsBeside(b) /\ OwnImage(b) /\ builtFor[b] \in Pipelines
    BY <1>1, <1>3, StartedFor DEF BesideInv, Starting
  <2>2. HandsBeside(b)'
    BY <2>1, <1>1 DEF HandsBeside, Starting, Deploying, historyVars
  <2>3. CASE b = i
    BY <2>2, <2>3, <1>1 DEF OwnImage
  <2>4. CASE b # i
    <3>1. builtFor[i] \in beside[b]
      BY <2>1, <2>4, <1>1 DEF HandsBeside
    <3> QED
      BY <2>1, <2>2, <2>4, <3>1, <1>1 DEF OwnImage, historyVars
  <2> QED
    BY <2>3, <2>4
<1> QED
  BY <1>2, <1>3, OwnStable DEF BesideInv, historyVars

(* An edit takes a pipeline in hand, beside every build.                   *)
LEMMA BesideEdit ==
  ASSUME IInv, BesideInv, NEW p \in Pipelines, EditPipeline(p) PROVE BesideInv'
<1> USE DEF EditPipeline
<1>1. /\ editor'.pipeline = p
      /\ \A b \in Builds : starter[b] # "idle" => beside'[b] = beside[b] \cup {p}
  BY DEF Beside
<1>2. \A b \in Builds : Keeps(b)
  BY <1>1 DEF Keeps
<1>3. ASSUME NEW b \in Builds, starter'[b] # "idle" PROVE HandsBeside(b)' /\ OwnImage(b)'
  BY <1>1, <1>3 DEF BesideInv, HandsBeside, OwnImage, Starting, Deploying
<1> QED
  BY <1>2, <1>3, OwnStable DEF BesideInv

(* It writes to the pipeline in hand.                                      *)
LEMMA BesideSavePipeline ==
  ASSUME IInv, BesideInv, SavePipeline PROVE BesideInv'
<1> USE DEF SavePipeline
<1>1. editor \in Edit /\ editor # None
  BY DEF IInv, TypeOK
<1>2. \A b \in Builds : Keeps(b)
  BY DEF Keeps, historyVars
<1>3. \A p \in Pipelines : p # editor.pipeline => image'[p] = image[p]
  BY <1>1 DEF IInv, TypeOK, Edit
<1>4. ASSUME NEW b \in Builds, starter'[b] # "idle" PROVE HandsBeside(b)' /\ OwnImage(b)'
  <2>1. HandsBeside(b) /\ OwnImage(b) /\ builtFor[b] \in Pipelines
    BY <1>4, StartedFor DEF BesideInv
  <2>2. editor.pipeline \in beside[b]
    BY <2>1, <1>1 DEF HandsBeside
  <2>3. HandsBeside(b)'
    BY <2>1 DEF HandsBeside, Starting, Deploying, historyVars
  <2> QED
    BY <2>1, <2>2, <2>3, <1>3 DEF OwnImage, historyVars
<1> QED
  BY <1>2, <1>4, OwnStable DEF BesideInv, historyVars

(* A build that ends before its image is stored is beside itself.          *)
LEMMA BesideEnds ==
  ASSUME IInv, BesideInv, NEW i \in Builds, NEW o \in Outcomes, BuildEnds(i, o)
  PROVE  BesideInv'
<1> USE DEF BuildEnds
<1>1. /\ starter[i] # "idle"
      /\ \A b \in Builds : aws'[b] = IF b = i THEN o ELSE aws[b]
      /\ \A b \in Builds : beside'[b] = IF b = i /\ starter[i] # "done"
                                        THEN beside[i] \cup {builtFor[i]} ELSE beside[b]
  BY DEF IInv, TypeOK, StartersOK
<1>2. \A b \in Builds : Keeps(b)
  BY <1>1 DEF Keeps, releaseVars
<1>3. ASSUME NEW b \in Builds, starter'[b] # "idle" PROVE HandsBeside(b)' /\ OwnImage(b)'
  <2>1. HandsBeside(b) /\ OwnImage(b)
    BY <1>3 DEF BesideInv
  <2>2. HandsBeside(b)'
    BY <2>1, <1>1 DEF HandsBeside, Starting, Deploying, releaseVars
  <2>3. CASE b = i
    BY <2>1, <2>2, <2>3, <1>1 DEF OwnImage, releaseVars
  <2>4. CASE b # i
    BY <2>1, <2>2, <2>4, <1>1 DEF OwnImage, releaseVars
  <2> QED
    BY <2>3, <2>4
<1> QED
  BY <1>2, <1>3, OwnStable DEF BesideInv, releaseVars

(* The pipeline found for a build is its own.                              *)
LEMMA BesideTrigger ==
  ASSUME IInv, BesideInv, NEW h \in Handlers, Trigger(h) PROVE BesideInv'
<1> USE DEF Trigger
<1>1. PICK b \in Builds : b = handler[h].event.build /\ aws[b] = "SUCCEEDED" /\ starter[b] # "idle"
  BY DeployerFacts
<1>2. OwnImage(b)
  BY <1>1 DEF BesideInv
<1>3. OwnPipeline(handler[h])'
  <2>1. CASE handler'[h] = [handler[h] EXCEPT !.pc = "deploy", !.pipeline = TargetPipeline(h)]
    <3>1. PICK rec : rec = handler'[h]
      OBVIOUS
    <3>2. handler[h] \in HandlerState
      BY HandlerFacts
    <3>3. rec.entity = handler[h].entity /\ rec.event = handler[h].event /\ rec.pipeline = TargetPipeline(h)
      BY <2>1, <3>1, <3>2 DEF HandlerState
    <3>4. ~rec.entity.env /\ beside[b] = {} => latest = builtFor[b]
      BY <1>1, <1>2 DEF OwnImage
    <3> QED
      BY <3>1, <3>3, <3>4, <1>1 DEF OwnPipeline, TargetPipeline, historyVars
  <2>2. CASE handler'[h] = IdleHandler
    BY <2>2 DEF OwnPipeline, IdleHandler
  <2> QED
    BY <2>1, <2>2 DEF IInv, TypeOK
<1>4. \A k \in Deploying' : k \in Deploying /\ handler'[k] = handler[k]
  <2>1. PICK rec : rec.pc # "url" /\ handler' = [handler EXCEPT ![h] = rec]
    <3>1. [handler[h] EXCEPT !.pc = "deploy", !.pipeline = TargetPipeline(h)].pc = "deploy"
      BY HandlerFacts DEF HandlerState
    <3>2. IdleHandler.pc = "idle"
      BY DEF IdleHandler
    <3> QED
      BY <3>1, <3>2
  <2> QED
    BY <2>1 DEF Deploying, IInv, TypeOK
<1> QED
  BY <1>3, <1>4, BesideFrame DEF IInv, TypeOK

(* The image deployed is that of the build, and the pipeline is in hand.   *)
LEMMA BesideDeploy ==
  ASSUME IInv, BesideInv, NEW h \in Handlers, Deploy(h) PROVE BesideInv'
<1> USE DEF Deploy
<1>1. PICK b \in Builds : b = handler[h].event.build /\ aws[b] = "SUCCEEDED" /\ starter[b] # "idle"
  BY DeployerFacts
<1>2. PICK p \in Pipelines : p = handler[h].pipeline
  BY HandlerFacts DEF HandlerState, RequestOK
<1>3. CASE image[p] = None
  <2>1. handler' = [handler EXCEPT ![h] = IdleHandler] /\ UNCHANGED historyVars
    BY <1>2, <1>3
  <2>2. OwnPipeline(handler[h])'
    BY <2>1 DEF OwnPipeline, IdleHandler, IInv, TypeOK
  <2>3. \A k \in Deploying' : k \in Deploying /\ handler'[k] = handler[k]
    BY <2>1 DEF Deploying, IdleHandler, IInv, TypeOK
  <2> QED
    BY <2>1, <2>2, <2>3, BesideFrame DEF IInv, TypeOK
<1>4. CASE image[p] # None
  <2>1. PICK d : d = [build |-> b, pipeline |-> p, image |-> image[p], undisturbed |-> Undisturbed(h)]
    OBVIOUS
  <2>2. /\ shipped' = shipped \cup {d} /\ beside' = Beside(p)
        /\ handler' = [handler EXCEPT ![h] = [IdleHandler EXCEPT !.pc = "url", !.pipeline = p]]
    BY <2>1, <1>1, <1>2, <1>4
  <2>3. \A i \in Builds : starter[i] # "idle" => beside'[i] = beside[i] \cup {p}
    BY <2>2 DEF Beside
  <2>4. \A i \in Builds : Keeps(i)
    BY <2>3 DEF Keeps
  <2>5. ASSUME NEW i \in Builds, starter'[i] # "idle" PROVE HandsBeside(i)' /\ OwnImage(i)'
    <3>1. HandsBeside(i) /\ OwnImage(i)
      BY <2>5 DEF BesideInv
    <3>2. \A k \in Deploying' : handler'[k].pipeline \in beside'[i]
      <4>1. ASSUME NEW k \in Deploying' PROVE handler'[k].pipeline \in beside'[i]
        <5>1. CASE k = h
          BY <2>2, <2>3, <2>5, <5>1 DEF IdleHandler, IInv, TypeOK
        <5>2. CASE k # h
          BY <4>1, <5>2, <2>2, <2>3, <2>5, <3>1 DEF Deploying, HandsBeside, IInv, TypeOK
        <5> QED
          BY <5>1, <5>2
      <4> QED
        BY <4>1
    <3> QED
      BY <3>1, <3>2, <2>3, <2>5 DEF HandsBeside, OwnImage, Starting
  <2>6. OwnShipped(d)'
    <3>1. d.undisturbed => p = builtFor[b] /\ builtFor[b] \notin beside[b]
      BY <2>1, <1>1, <1>2 DEF Undisturbed, BesideInv, OwnPipeline
    <3>2. d.undisturbed => image[p] = b
      BY <3>1, <1>1 DEF BesideInv, OwnImage
    <3> QED
      BY <2>1, <3>1, <3>2, <1>1 DEF OwnShipped
  <2>7. \A e \in shipped : OwnShipped(e)'
    BY DEF BesideInv, OwnShipped
  <2>8. ASSUME NEW k \in Handlers PROVE OwnPipeline(handler[k])'
    <3>1. CASE k = h
      BY <2>2, <3>1 DEF OwnPipeline, IdleHandler, IInv, TypeOK
    <3>2. CASE k # h /\ handler[k].pc = "deploy"
      <4>1. handler'[k] = handler[k]
        BY <2>2, <3>2 DEF IInv, TypeOK
      <4>2. Keeps(handler[k].event.build) /\ starter[handler[k].event.build] # "idle"
        BY <2>4, <3>2, DeployerFacts
      <4>3. OwnPipeline(handler[k])
        BY DEF BesideInv
      <4> QED
        BY <4>1, <4>2, <4>3 DEF OwnPipeline, Keeps
    <3>3. CASE k # h /\ handler[k].pc # "deploy"
      BY <2>2, <3>3 DEF OwnPipeline, IInv, TypeOK
    <3> QED
      BY <3>1, <3>2, <3>3
  <2> QED
    BY <2>2, <2>5, <2>6, <2>7, <2>8 DEF BesideInv
<1> QED
  BY <1>3, <1>4

(* The URL is stored in the pipeline in hand.                              *)
LEMMA BesideSetUrl ==
  ASSUME IInv, BesideInv, NEW h \in Handlers, SetUrl(h) PROVE BesideInv'
<1> USE DEF SetUrl
<1>1. h \in Deploying /\ handler' = [handler EXCEPT ![h] = IdleHandler]
  BY DEF Deploying
<1>2. \A k \in Deploying' : k \in Deploying /\ handler'[k] = handler[k]
  BY <1>1 DEF Deploying, IdleHandler, IInv, TypeOK
<1>3. \A b \in Builds : Keeps(b)
  BY DEF Keeps
<1>4. ASSUME NEW b \in Builds, starter'[b] # "idle" PROVE HandsBeside(b)' /\ OwnImage(b)'
  <2>1. HandsBeside(b) /\ OwnImage(b) /\ beside[b] # {}
    BY <1>1, <1>4 DEF BesideInv, HandsBeside
  <2>2. HandsBeside(b)'
    BY <2>1, <1>2 DEF HandsBeside, Starting
  <2> QED
    BY <2>1, <2>2 DEF OwnImage
<1>5. \A k \in Handlers : handler'[k] = handler[k] \/ OwnPipeline(handler[k])'
  BY <1>1 DEF OwnPipeline, IdleHandler, IInv, TypeOK
<1> QED
  BY <1>3, <1>4, <1>5, OwnStable DEF BesideInv

(* Any other step of a request leaves pipelines alone.                     *)
LEMMA BesideRequest ==
  ASSUME IInv, BesideInv, NEW h \in Handlers, NEW rec,
         handler' = [handler EXCEPT ![h] = rec], rec.pc \notin {"deploy", "url"},
         UNCHANGED <<aws, starter, releaseVars, historyVars>>
  PROVE  BesideInv'
<1>1. OwnPipeline(handler[h])'
  BY DEF OwnPipeline, IInv, TypeOK
<1>2. \A k \in Deploying' : k \in Deploying /\ handler'[k] = handler[k]
  BY DEF Deploying, IInv, TypeOK
<1> QED
  BY <1>1, <1>2, BesideFrame DEF IInv, TypeOK

(* Steps of a request.                                                     *)
LEMMA BesideRequestStep ==
  ASSUME IInv, BesideInv, NEW h \in Handlers, RequestStep(h) PROVE BesideInv'
<1>1. handler[h] \in HandlerState
  BY HandlerFacts
<1>2. CASE Trigger(h) \/ Deploy(h) \/ SetUrl(h)
  BY <1>2, BesideTrigger, BesideDeploy, BesideSetUrl
<1>3. CASE DedupNew(h) \/ DedupSkip(h) \/ RequestFails(h)
  BY <1>1, <1>3, BesideRequest DEF DedupNew, DedupSkip, RequestFails, HandlerState, IdleHandler
<1>4. CASE FindByBuildId(h) \/ FindNothing(h)
  BY <1>1, <1>4, BesideRequest DEF FindByBuildId, FindNothing, HandlerState, IdleHandler
<1>5. CASE FindById(h) \/ Create(h)
  BY <1>1, <1>5, BesideRequest DEF FindById, Create, HandlerState, IdleHandler
<1>6. CASE Load(h) \/ Compare(h)
  BY <1>1, <1>6, BesideRequest DEF Load, Compare, HandlerState
<1>7. CASE Adopt(h) \/ Save(h)
  BY <1>1, <1>7, BesideRequest DEF Adopt, Save, HandlerState, IdleHandler
<1> QED
  BY <1>2, <1>3, <1>4, <1>5, <1>6, <1>7 DEF RequestStep

(* BesideInv is inductive, given IInv.                                     *)
LEMMA NextBeside == IInv /\ BesideInv /\ [Next]_vars => BesideInv'
<1> SUFFICES ASSUME IInv, BesideInv, [Next]_vars PROVE BesideInv'
  OBVIOUS
<1>1. CASE UNCHANGED <<aws, starter, releaseVars, handler, historyVars>>
  BY <1>1, BesideFrame DEF Deploying
<1>2. ASSUME NEW b \in Builds, RecordExecution(b) \/ StartFails(b) PROVE BesideInv'
  <2>1. \A i \in Builds : \/ starter'[i] = starter[i]
                          \/ i \in Starting /\ starter'[i] \in {"image", "failed"}
    <3>1. CASE RecordExecution(b)
      BY <3>1 DEF RecordExecution, Starting, IInv, TypeOK
    <3>2. CASE StartFails(b)
      BY <3>2 DEF StartFails, Starting, IInv, TypeOK
    <3> QED
      BY <1>2, <3>1, <3>2
  <2> QED
    BY <1>2, <2>1, BesideFrame DEF RecordExecution, StartFails, Deploying
<1>3. CASE ComparePipeline
  <2>1. editor' # None => editor # None /\ editor'.pipeline = editor.pipeline
    BY <1>3 DEF ComparePipeline, IInv, TypeOK, Edit
  <2> QED
    BY <1>3, <2>1, BesideFrame DEF ComparePipeline, Deploying
<1>4. CASE Restart
  <2>1. \A i \in Builds : \/ starter'[i] = starter[i]
                          \/ i \in Starting /\ starter'[i] \in {"image", "failed"}
    BY <1>4 DEF Restart, Starting
  <2>2. Deploying' = {} /\ \A h \in Handlers : OwnPipeline(handler[h])'
    BY <1>4 DEF Restart, Deploying, OwnPipeline, IdleHandler
  <2> QED
    BY <1>4, <2>1, <2>2, BesideFrame DEF Restart
<1>5. ASSUME NEW h \in Handlers, NEW e \in Event, Receive(h, e) PROVE BesideInv'
  BY <1>5, BesideRequest DEF Receive, IdleHandler
<1>6. ASSUME NEW h \in Handlers, NEW r \in Ids, NEW s \in PatchStatuses, Patch(h, r, s)
      PROVE  BesideInv'
  BY <1>6, BesideRequest DEF Patch, IdleHandler
<1>7. ASSUME NEW h \in Handlers, RequestStep(h) PROVE BesideInv'
  BY <1>7, BesideRequestStep
<1>8. ASSUME NEW b \in Builds, NEW p \in Pipelines, StartBuild(b, p) PROVE BesideInv'
  BY <1>8, BesideStart
<1>9. ASSUME NEW b \in Builds, NEW o \in Outcomes, BuildEnds(b, o) PROVE BesideInv'
  BY <1>9, BesideEnds
<1>10. ASSUME NEW b \in Builds, SetImage(b) PROVE BesideInv'
  BY <1>10, BesideSetImage
<1>11. ASSUME NEW p \in Pipelines, EditPipeline(p) PROVE BesideInv'
  BY <1>11, BesideEdit
<1>12. CASE SavePipeline
  BY <1>12, BesideSavePipeline
<1>13. /\ \A c \in Checkers, mode \in {"cron", "manual"}, stale \in SUBSET Ids :
            CheckFind(c, mode, stale) => UNCHANGED <<aws, starter, releaseVars, handler, historyVars>>
       /\ \A c \in Checkers :
            CheckStep(c) => UNCHANGED <<aws, starter, releaseVars, handler, historyVars>>
       /\ UNCHANGED vars => UNCHANGED <<aws, starter, releaseVars, handler, historyVars>>
  BY DEF CheckFind, CheckStep, CheckAsk, CheckSkip, CheckLoad, CheckCompare, CheckSave, vars, checkVars
<1> QED
  BY <1>1, <1>2, <1>3, <1>4, <1>5, <1>6, <1>7, <1>8, <1>9, <1>10, <1>11, <1>12, <1>13 DEF Next

(* A build nothing disturbed deploys its own image to its own pipeline,    *)
(* for any number of builds, pipelines, edits and requests.                *)
THEOREM UndisturbedDeployItself == Spec => []UndisturbedDeploysItself
<1>1. Init => BesideInv
  BY DEF Init, BesideInv, OwnPipeline, IdleHandler
<1>2. BesideInv => UndisturbedDeploysItself
  BY DEF BesideInv, OwnShipped, UndisturbedDeploysItself
<1> QED
  BY <1>1, <1>2, NextBeside, Invariant, PTL DEF Spec

-----------------------------------------------------------------------------
(* The promise of Release.                                                 *)

(* No step but the start of a build, its end and a trigger touches what    *)
(* CodeBuild reports and what is deployed.                                 *)
LEMMA OthersRelease ==
  ASSUME [Next]_vars, ~UNCHANGED <<aws, triggers>>
  PROVE  \/ \E b \in Builds, p \in Pipelines : StartBuild(b, p)
         \/ \E b \in Builds, outcome \in Outcomes : BuildEnds(b, outcome)
         \/ \E h \in Handlers : Deploy(h)
<1>1. /\ \A b \in Builds : RecordExecution(b) \/ SetImage(b) \/ StartFails(b) =>
           UNCHANGED <<aws, triggers>>
      /\ \A p \in Pipelines : EditPipeline(p) => UNCHANGED <<aws, triggers>>
      /\ ComparePipeline \/ SavePipeline => UNCHANGED <<aws, triggers>>
      /\ Restart => UNCHANGED <<aws, triggers>>
      /\ UNCHANGED vars => UNCHANGED <<aws, triggers>>
  BY DEF RecordExecution, SetImage, StartFails, EditPipeline, ComparePipeline, SavePipeline, Restart,
         historyVars, vars
<1>2. /\ \A h \in Handlers, e \in Event : Receive(h, e) => UNCHANGED <<aws, triggers>>
      /\ \A h \in Handlers, r \in Ids, s \in PatchStatuses :
           Patch(h, r, s) => UNCHANGED <<aws, triggers>>
  BY DEF Receive, Patch, quietVars, requestVars, historyVars
<1>3. \A h \in Handlers : RequestStep(h) /\ ~Deploy(h) => UNCHANGED <<aws, triggers>>
  BY DEF RequestStep, DedupNew, DedupSkip, FindByBuildId, FindNothing, FindById, Adopt, Create,
         Load, Compare, Save, Trigger, SetUrl, RequestFails, quietVars, requestVars, historyVars
<1>4. /\ \A c \in Checkers, mode \in {"cron", "manual"}, stale \in SUBSET Ids :
           CheckFind(c, mode, stale) => UNCHANGED <<aws, triggers>>
      /\ \A c \in Checkers : CheckStep(c) => UNCHANGED <<aws, triggers>>
  BY DEF CheckFind, CheckStep, CheckAsk, CheckSkip, CheckLoad, CheckCompare, CheckSave,
         checkVars, calmVars, historyVars
<1> QED
  BY <1>1, <1>2, <1>3, <1>4 DEF Next

(* Every step is one of Release for each build, or leaves the build alone. *)
LEMMA StepReleases ==
  ASSUME IInv, IInv', OnceInv', [Next]_vars, NEW b \in Builds
  PROVE  OfBuild(b)!ReleaseNext \/ UNCHANGED OfBuild(b)!releaseState
<1>1. TypeOK /\ TypeOK' /\ StartersOK /\ OnlySuccessIsDeployed'
  BY DEF IInv
<1>2. CASE UNCHANGED <<aws, triggers>>
  BY <1>2 DEF OfBuild!releaseState
<1>3. ASSUME NEW i \in Builds, NEW p \in Pipelines, StartBuild(i, p)
      PROVE  OfBuild(b)!ReleaseNext \/ UNCHANGED OfBuild(b)!releaseState
  <2>1. /\ aws[i] = "NOT_STARTED" /\ triggers' = triggers
        /\ aws'[b] = IF b = i THEN "IN_PROGRESS" ELSE aws[b]
    BY <1>1, <1>3 DEF StartBuild, StartersOK, TypeOK, historyVars
  <2> QED
    BY <2>1 DEF OfBuild!ReleaseNext, OfBuild!Start, OfBuild!releaseState
<1>4. ASSUME NEW i \in Builds, NEW outcome \in Outcomes, BuildEnds(i, outcome)
      PROVE  OfBuild(b)!ReleaseNext \/ UNCHANGED OfBuild(b)!releaseState
  <2>1. /\ aws[i] = "IN_PROGRESS" /\ triggers' = triggers
        /\ aws'[b] = IF b = i THEN outcome ELSE aws[b]
    BY <1>1, <1>4 DEF BuildEnds, TypeOK, historyVars
  <2> QED
    BY <2>1 DEF OfBuild!ReleaseNext, OfBuild!End, OfBuild!releaseState
<1>5. ASSUME NEW h \in Handlers, Deploy(h)
      PROVE  OfBuild(b)!ReleaseNext \/ UNCHANGED OfBuild(b)!releaseState
  <2>1. handler[h].event \in Event
    BY <1>5, HandlerFacts DEF Deploy, HandlerState, RequestOK
  <2>2. PICK i \in Builds : i = handler[h].event.build
    BY <2>1 DEF Event
  <2>3. aws' = aws /\ (triggers' = triggers \/ triggers' = [triggers EXCEPT ![i] = @ + 1])
    BY <1>5, <2>2 DEF Deploy, quietVars, requestVars, historyVars
  <2>4. triggers \in [Builds -> Nat]
    BY <1>1 DEF TypeOK
  <2>5. CASE triggers'[b] = triggers[b]
    BY <2>3, <2>5 DEF OfBuild!releaseState
  <2>6. CASE triggers'[b] # triggers[b]
    <3>1. triggers'[b] = triggers[b] + 1 /\ triggers[b] \in Nat
      BY <2>3, <2>4, <2>6
    <3>2. aws[b] = "SUCCEEDED"
      BY <1>1, <2>3, <3>1 DEF OnlySuccessIsDeployed
    <3>3. RedisReliable => triggers[b] = 0
      BY <3>1 DEF OnceInv
    <3> QED
      BY <2>3, <3>1, <3>2, <3>3 DEF OfBuild!ReleaseNext, OfBuild!Deploy
  <2> QED
    BY <2>5, <2>6
<1> QED
  BY <1>2, <1>3, <1>4, <1>5, OthersRelease

(* The tracking of builds implements Release for each of them, whatever is *)
(* delivered, checked, patched, edited or restarted.                       *)
THEOREM Releases == Spec => ReleasesBuilds
<1>1. Init => OnceInv /\ \A b \in Builds : OfBuild(b)!ReleaseInit
  BY DEF Init, OnceInv, Carries, IdleHandler, OfBuild!ReleaseInit
<1>2. IInv /\ IInv' /\ OnceInv' /\ [Next]_vars =>
        [\A b \in Builds : OfBuild(b)!ReleaseNext \/ UNCHANGED OfBuild(b)!releaseState]_
          <<aws, triggers>>
  BY StepReleases
<1> QED
  BY <1>1, <1>2, NextOnce, Invariant, PTL DEF Spec, ReleasesBuilds

--------------------------------------------------------------------------------
(* Induction over the naturals, as facts about sets.                            *)

(* A set of naturals that is not empty has a least element.                     *)
LEMMA Least ==
  ASSUME NEW T \in SUBSET Nat, T # {}
  PROVE  \E m \in T : \A k \in T : m <= k
<1>. DEFINE R == {ss \in Nat \X Nat : ss[1] < ss[2]}
<1>1. R = OpToRel(<, Nat)
  BY DEF OpToRel
<1>2. IsWellFoundedOn(R, Nat)
  BY <1>1, NatLessThanWellFounded
<1>3. PICK m \in T : \A k \in T : ~(<<k, m>> \in R)
  <2>. HIDE DEF R
  <2>. QED BY <1>2, WFMin
<1>4. \A k \in T : ~(k < m)
  BY <1>3
<1>. QED BY <1>4

(* A set that holds 0 and the successor of each natural in it holds them all.   *)
LEMMA Inductive ==
  ASSUME NEW T, 0 \in T, \A n \in Nat : n \in T => n + 1 \in T
  PROVE  Nat \subseteq T
<1>. SUFFICES ASSUME Nat \ T # {} PROVE FALSE
  OBVIOUS
<1>1. PICK m \in Nat \ T : \A k \in Nat \ T : m <= k
  BY Least
<1>2. m - 1 \in Nat /\ m - 1 \notin Nat \ T
  BY <1>1
<1>. QED BY <1>1, <1>2

--------------------------------------------------------------------------------
(* FlattenSeq.                                                                  *)

(* f holds the first n sequences flattened, for each n.                         *)
Flattens(f, ss, n, S) ==
  /\ f \in [1..n -> Seq(S)] /\ f[1] = ss[1]
  /\ \A i \in 2..n : f[i] = f[i - 1] \o ss[i]

(* Such an f exists.                                                          *)
LEMMA FlattensExists ==
  ASSUME NEW S, NEW ss \in Seq(Seq(S)), ss # <<>>
  PROVE  \E f : Flattens(f, ss, Len(ss), S)
<1>. DEFINE Possible(k) == k + 1 <= Len(ss) => \E f : Flattens(f, ss, k + 1, S)
            T == {k \in Nat : Possible(k)}
<1>1. Len(ss) \in Nat \ {0} /\ \A i \in 1..Len(ss) : ss[i] \in Seq(S)
  OBVIOUS
<1>2. Possible(0)
  <2>1. Flattens([i \in 1..1 |-> ss[1]], ss, 1, S)
    BY <1>1 DEF Flattens
  <2>. QED BY <2>1
<1>3. ASSUME NEW k \in Nat, Possible(k) PROVE Possible(k + 1)
  <2>. SUFFICES ASSUME k + 2 <= Len(ss) PROVE \E f : Flattens(f, ss, k + 2, S)
    OBVIOUS
  <2>1. PICK f : Flattens(f, ss, k + 1, S)
    BY <1>1, <1>3
  <2>. DEFINE g == [i \in 1..(k + 2) |-> IF i = k + 2 THEN f[k + 1] \o ss[k + 2] ELSE f[i]]
  <2>2. /\ f \in [1..(k + 1) -> Seq(S)] /\ f[1] = ss[1]
        /\ \A i \in 2..(k + 1) : f[i] = f[i - 1] \o ss[i]
    BY <2>1 DEF Flattens
  <2>3. f[k + 1] \in Seq(S) /\ ss[k + 2] \in Seq(S) /\ f[k + 1] \o ss[k + 2] \in Seq(S)
    BY <1>1, <2>2
  <2>4. g \in [1..(k + 2) -> Seq(S)]
    BY <2>2, <2>3
  <2>5. g[1] = ss[1]
    BY <2>2
  <2>6. ASSUME NEW i \in 2..(k + 2) PROVE g[i] = g[i - 1] \o ss[i]
    <3>1. i - 1 \in 1..(k + 2) /\ i - 1 # k + 2 /\ i \in 1..(k + 2)
      OBVIOUS
    <3>2. g[i - 1] = f[i - 1] /\ g[i] = IF i = k + 2 THEN f[k + 1] \o ss[k + 2] ELSE f[i]
      BY <3>1
    <3>. HIDE DEF g
    <3>3. CASE i = k + 2
      <4>1. i - 1 = k + 1
        BY <3>3
      <4>. QED BY <3>2, <3>3, <4>1
    <3>4. CASE i # k + 2
      <4>1. i \in 2..(k + 1)
        BY <3>4
      <4>. QED BY <2>2, <3>2, <3>4, <4>1
    <3>. QED BY <3>3, <3>4
  <2>. HIDE DEF g
  <2>. QED BY <2>4, <2>5, <2>6 DEF Flattens
<1>. HIDE DEF Possible
<1>4. Nat \subseteq T
  <2>1. 0 \in T /\ \A k \in Nat : k \in T => k + 1 \in T
    BY <1>2, <1>3
  <2>. HIDE DEF T
  <2>. QED BY <2>1, Inductive
<1>5. Possible(Len(ss) - 1)
  BY <1>1, <1>4
<1>. QED BY <1>1, <1>5 DEF Possible

(* FlattenSeq is the last of them.                                              *)
LEMMA FlattenIsLast ==
  ASSUME NEW S, NEW ss \in Seq(Seq(S)), ss # <<>>, NEW f, Flattens(f, ss, Len(ss), S)
  PROVE  FlattenSeq(ss) = f[Len(ss)]
<1>. DEFINE n == Len(ss)
            Turn(g) == [i \in 1..n |-> IF i = 1 THEN ss[i] ELSE g[i - 1] \o ss[i]]
            h == CHOOSE g : g = Turn(g)
<1>1. n \in Nat \ {0}
  OBVIOUS
<1>2. f = Turn(f)
  <2>1. /\ f = [i \in 1..n |-> f[i]] /\ f[1] = ss[1]
        /\ \A i \in 2..n : f[i] = f[i - 1] \o ss[i]
    BY DEF Flattens
  <2>2. ASSUME NEW i \in 1..n PROVE f[i] = IF i = 1 THEN ss[i] ELSE f[i - 1] \o ss[i]
    <3>1. CASE i = 1
      BY <2>1, <3>1
    <3>2. CASE i # 1
      <4>1. i \in 2..n
        BY <1>1, <3>2
      <4>. QED BY <2>1, <3>2, <4>1
    <3>. QED BY <3>1, <3>2
  <2>. QED BY <2>1, <2>2
<1>3. h = Turn(h)
  <2>. HIDE DEF Turn
  <2>. QED BY <1>2
<1>4. DOMAIN h = 1..n /\ \A i \in 1..n : h[i] = IF i = 1 THEN ss[i] ELSE h[i - 1] \o ss[i]
  <2>1. DOMAIN Turn(h) = 1..n /\ \A i \in 1..n : Turn(h)[i] = IF i = 1 THEN ss[i] ELSE h[i - 1] \o ss[i]
    <3>. HIDE DEF h
    <3>. QED OBVIOUS
  <2>. HIDE DEF h, Turn
  <2>. QED BY <1>3, <2>1
<1>5. FlattenSeq(ss) = h[n]
  BY <1>1 DEF FlattenSeq
<1>. DEFINE T == {k \in Nat : k + 1 <= n => h[k + 1] = f[k + 1]}
<1>. HIDE DEF h, Turn, n
<1>6. Nat \subseteq T
  <2>1. 0 \in T
    <3>1. 1 \in 1..n /\ 1 + 0 = 1
      BY <1>1
    <3>2. h[1] = f[1]
      BY <1>4, <3>1 DEF Flattens
    <3>. QED BY <3>2
  <2>2. ASSUME NEW k \in Nat, k \in T PROVE k + 1 \in T
    <3>. SUFFICES ASSUME (k + 1) + 1 <= n PROVE h[(k + 1) + 1] = f[(k + 1) + 1]
      OBVIOUS
    <3>1. /\ h[k + 1] = f[k + 1]
          /\ k + 2 \in 1..n /\ k + 2 \in 2..n /\ k + 2 # 1 /\ (k + 2) - 1 = k + 1 /\ (k + 1) + 1 = k + 2
      BY <1>1, <2>2
    <3>2. h[k + 2] = h[k + 1] \o ss[k + 2]
      BY <1>4, <3>1
    <3>3. f[k + 2] = f[k + 1] \o ss[k + 2]
      BY <3>1 DEF Flattens, n
    <3>. QED BY <3>1, <3>2, <3>3
  <2>. HIDE DEF T
  <2>. QED BY <2>1, <2>2, Inductive
<1>7. h[n] = f[n]
  <2>1. n - 1 \in Nat /\ (n - 1) + 1 = n
    BY <1>1
  <2>2. n - 1 \in T
    <3>. HIDE DEF T
    <3>. QED BY <1>6, <2>1
  <2>. QED BY <1>1, <2>1, <2>2
<1>. QED BY <1>5, <1>7 DEF n

(* flat holds the i-th of the sequences behind place[i], and nothing else; the  *)
(* places are in the order of the sequences.                                    *)
Fits(ss, flat, place, i) ==
  /\ place[i] + Len(ss[i]) <= Len(flat)
  /\ \A j \in 1..Len(ss[i]) : flat[place[i] + j] = ss[i][j]

(* All of them together.                                                      *)
Placed(ss, flat, place) ==
  /\ place \in [1..Len(ss) -> Nat]
  /\ \A i \in 1..Len(ss) : Fits(ss, flat, place, i)
  /\ \A i, j \in 1..Len(ss) : i < j => place[i] + Len(ss[i]) <= place[j]
  /\ \A k \in 1..Len(flat) : \E i \in 1..Len(ss) : \E j \in 1..Len(ss[i]) : k = place[i] + j

(* Flattened sequences have their places.                                     *)
LEMMA FlattenPlaced ==
  ASSUME NEW S, NEW ss \in Seq(Seq(S))
  PROVE  FlattenSeq(ss) \in Seq(S) /\ \E place : Placed(ss, FlattenSeq(ss), place)
<1>1. CASE ss = <<>>
  <2>1. FlattenSeq(ss) = <<>>
    BY <1>1 DEF FlattenSeq
  <2>2. Placed(ss, <<>>, [i \in 1..Len(ss) |-> 0])
    BY <1>1 DEF Placed
  <2>. QED BY <2>1, <2>2
<1>2. CASE ss # <<>>
  <2>. DEFINE n == Len(ss)
  <2>1. PICK f : Flattens(f, ss, n, S)
    BY <1>2, FlattensExists
  <2>2. /\ n \in Nat \ {0} /\ \A i \in 1..n : ss[i] \in Seq(S) /\ f[i] \in Seq(S)
        /\ f[1] = ss[1] /\ \A i \in 2..n : f[i] = f[i - 1] \o ss[i]
    <3>1. n \in Nat \ {0} /\ \A i \in 1..n : ss[i] \in Seq(S)
      BY <1>2
    <3>. HIDE DEF n
    <3>. QED BY <2>1, <3>1 DEF Flattens
  <2>3. FlattenSeq(ss) = f[n]
    BY <1>2, <2>1, FlattenIsLast
  <2>. DEFINE place == [i \in 1..n |-> IF i = 1 THEN 0 ELSE Len(f[i - 1])]
  <2>4. place \in [1..n -> Nat] /\ place[1] = 0 /\ \A i \in 2..n : place[i] = Len(f[i - 1])
    <3>1. \A i \in 1..n : i # 1 => i - 1 \in 1..n /\ Len(f[i - 1]) \in Nat
      BY <2>2
    <3>. QED BY <2>2, <3>1
  <2>. HIDE DEF n, place
  <2>. DEFINE All(m) == /\ \A i \in 1..m : Fits(ss, f[m], place, i)
                        /\ \A k \in 1..Len(f[m]) : \E i \in 1..m : \E j \in 1..Len(ss[i]) : k = place[i] + j
              T == {m \in Nat : m + 1 <= n => All(m + 1)}
  <2>5. 0 \in T
    <3>1. Fits(ss, f[1], place, 1)
      BY <2>2, <2>4 DEF Fits
    <3>2. \A k \in 1..Len(f[1]) : k \in 1..Len(ss[1]) /\ k = place[1] + k
      BY <2>2, <2>4
    <3>3. All(1)
      BY <3>1, <3>2
    <3>. HIDE DEF All
    <3>. QED BY <3>3
  <2>6. ASSUME NEW m \in Nat, m \in T PROVE m + 1 \in T
    <3>. SUFFICES ASSUME m + 2 <= n PROVE All(m + 2)
      OBVIOUS
    <3>1. All(m + 1)
      <4>1. m + 1 <= n
        BY <2>2
      <4>. HIDE DEF All
      <4>. QED BY <2>6, <4>1
    <3>2. /\ f[m + 2] = f[m + 1] \o ss[m + 2] /\ place[m + 2] = Len(f[m + 1])
          /\ f[m + 1] \in Seq(S) /\ ss[m + 2] \in Seq(S)
      <4>1. m + 2 \in 2..n /\ m + 2 \in 1..n /\ m + 1 \in 1..n /\ (m + 2) - 1 = m + 1
        BY <2>2
      <4>. QED BY <2>2, <2>4, <4>1
    <3>. DEFINE a == f[m + 1]
                b == ss[m + 2]
                c == f[m + 2]
    <3>3. /\ Len(a) \in Nat /\ Len(b) \in Nat /\ Len(c) = Len(a) + Len(b)
          /\ \A k \in 1..Len(a) : c[k] = a[k]
          /\ \A k \in 1..Len(b) : c[Len(a) + k] = b[k]
      <4>1. a \in Seq(S) /\ b \in Seq(S) /\ c = a \o b
        BY <3>2
      <4>. HIDE DEF a, b, c
      <4>. QED BY <4>1
    <3>. HIDE DEF a, b, c
    <3>4. ASSUME NEW i \in 1..(m + 2) PROVE Fits(ss, c, place, i)
      <4>1. CASE i = m + 2
        <5>1. place[i] = Len(a) /\ ss[i] = b
          BY <3>2, <4>1 DEF a, b
        <5>. QED BY <3>3, <5>1 DEF Fits
      <4>2. CASE i # m + 2
        <5>1. i \in 1..(m + 1) /\ i \in 1..n
          BY <2>2, <4>2
        <5>2. place[i] \in Nat /\ Len(ss[i]) \in Nat /\ Fits(ss, a, place, i)
          BY <2>2, <2>4, <3>1, <5>1 DEF a
        <5>3. \A j \in 1..Len(ss[i]) : place[i] + j \in 1..Len(a)
          BY <3>3, <5>2 DEF Fits
        <5>4. place[i] + Len(ss[i]) <= Len(c)
          BY <3>3, <5>2 DEF Fits
        <5>5. ASSUME NEW j \in 1..Len(ss[i]) PROVE c[place[i] + j] = ss[i][j]
          BY <3>3, <5>2, <5>3 DEF Fits
        <5>. QED BY <5>4, <5>5 DEF Fits
      <4>. QED BY <4>1, <4>2
    <3>5. ASSUME NEW k \in 1..Len(c)
          PROVE  \E i \in 1..(m + 2) : \E j \in 1..Len(ss[i]) : k = place[i] + j
      <4>1. CASE k \in 1..Len(a)
        <5>1. PICK i \in 1..(m + 1) : \E j \in 1..Len(ss[i]) : k = place[i] + j
          BY <3>1, <4>1 DEF a
        <5>. QED BY <5>1
      <4>2. CASE k \notin 1..Len(a)
        <5>1. k - Len(a) \in 1..Len(b) /\ k = Len(a) + (k - Len(a))
          BY <3>3, <4>2
        <5>. QED BY <3>2, <5>1 DEF a, b
      <4>. QED BY <4>1, <4>2
    <3>. QED BY <3>4, <3>5 DEF c
  <2>7. Nat \subseteq T
    <3>. HIDE DEF T
    <3>. QED BY <2>5, <2>6, Inductive
  <2>8. ASSUME NEW m \in 1..n PROVE All(m)
    <3>1. m - 1 \in Nat /\ (m - 1) + 1 = m /\ m <= n
      BY <2>2
    <3>. HIDE DEF All
    <3>2. m - 1 \in T
      <4>. HIDE DEF T
      <4>. QED BY <2>7, <3>1
    <3>. QED BY <3>1, <3>2
  <2>9. ASSUME NEW i \in 1..n, NEW j \in 1..n, i < j PROVE place[i] + Len(ss[i]) <= place[j]
    <3>1. j \in 2..n /\ j - 1 \in 1..n /\ i \in 1..(j - 1)
      BY <2>2, <2>9
    <3>2. Fits(ss, f[j - 1], place, i)
      BY <2>8, <3>1
    <3>. QED BY <2>4, <3>1, <3>2 DEF Fits
  <2>10. All(n) /\ f[n] \in Seq(S)
    <3>1. n \in 1..n
      BY <2>2
    <3>2. All(n)
      BY <2>8, <3>1
    <3>. HIDE DEF All
    <3>. QED BY <2>2, <3>1, <3>2
  <2>11. Placed(ss, f[n], place)
    BY <2>4, <2>9, <2>10 DEF Placed, n
  <2>. QED BY <2>3, <2>10, <2>11
<1>. QED BY <1>1, <1>2

(* The elements of a flattened sequence.                                        *)
LEMMA FlattenElements ==
  ASSUME NEW S, NEW ss \in Seq(Seq(S))
  PROVE  /\ \A k \in DOMAIN FlattenSeq(ss) : \E i \in DOMAIN ss : FlattenSeq(ss)[k] \in ToSet(ss[i])
         /\ \A i \in DOMAIN ss : ToSet(ss[i]) \subseteq ToSet(FlattenSeq(ss))
<1>1. PICK place : Placed(ss, FlattenSeq(ss), place)
  BY FlattenPlaced
<1>. DEFINE flat == FlattenSeq(ss)
<1>2. flat \in Seq(S)
  BY FlattenPlaced
<1>. HIDE DEF flat
<1>3. ASSUME NEW k \in DOMAIN flat PROVE \E i \in DOMAIN ss : flat[k] \in ToSet(ss[i])
  <2>1. k \in 1..Len(flat)
    BY <1>2
  <2>2. PICK i \in 1..Len(ss) : \E j \in 1..Len(ss[i]) : k = place[i] + j
    BY <1>1, <2>1 DEF Placed, flat
  <2>3. PICK j \in 1..Len(ss[i]) : k = place[i] + j
    BY <2>2
  <2>4. flat[k] = ss[i][j]
    BY <1>1, <2>3 DEF Placed, Fits, flat
  <2>5. i \in DOMAIN ss /\ j \in DOMAIN ss[i]
    OBVIOUS
  <2>. QED BY <2>4, <2>5 DEF ToSet
<1>4. ASSUME NEW i \in DOMAIN ss PROVE ToSet(ss[i]) \subseteq ToSet(flat)
  <2>1. i \in 1..Len(ss) /\ ss[i] \in Seq(S)
    OBVIOUS
  <2>2. place[i] \in Nat /\ Fits(ss, flat, place, i)
    BY <1>1, <2>1 DEF Placed, flat
  <2>3. ASSUME NEW j \in DOMAIN ss[i] PROVE ss[i][j] \in ToSet(flat)
    <3>1. j \in 1..Len(ss[i])
      BY <2>1
    <3>2. place[i] + j \in DOMAIN flat /\ flat[place[i] + j] = ss[i][j]
      BY <1>2, <2>1, <2>2, <3>1 DEF Fits
    <3>. QED BY <3>2 DEF ToSet
  <2>. QED BY <2>3 DEF ToSet
<1>. QED BY <1>3, <1>4 DEF flat

(* The elements of a concatenation.                                             *)
LEMMA ConcatElements ==
  ASSUME NEW S, NEW a \in Seq(S), NEW b \in Seq(S)
  PROVE  a \o b \in Seq(S) /\ ToSet(a \o b) = ToSet(a) \cup ToSet(b)
<1>. DEFINE c == a \o b
<1>1. /\ c \in Seq(S) /\ DOMAIN c = 1..(Len(a) + Len(b)) /\ DOMAIN a = 1..Len(a) /\ DOMAIN b = 1..Len(b)
      /\ Len(a) \in Nat /\ Len(b) \in Nat
      /\ \A i \in 1..Len(a) : c[i] = a[i]
      /\ \A i \in 1..Len(b) : c[Len(a) + i] = b[i]
  OBVIOUS
<1>. HIDE DEF c
<1>2. ToSet(a) \subseteq ToSet(c)
  BY <1>1 DEF ToSet
<1>3. ASSUME NEW i \in DOMAIN b PROVE b[i] \in ToSet(c)
  <2>1. Len(a) + i \in DOMAIN c /\ c[Len(a) + i] = b[i]
    BY <1>1
  <2>. QED BY <2>1 DEF ToSet
<1>4. ASSUME NEW i \in DOMAIN c PROVE c[i] \in ToSet(a) \cup ToSet(b)
  <2>1. CASE i \in 1..Len(a)
    BY <1>1, <2>1 DEF ToSet
  <2>2. CASE i \notin 1..Len(a)
    <3>1. i - Len(a) \in 1..Len(b) /\ Len(a) + (i - Len(a)) = i
      BY <1>1, <2>2
    <3>2. c[i] = b[i - Len(a)]
      BY <1>1, <3>1
    <3>. QED BY <1>1, <3>1, <3>2 DEF ToSet
  <2>. QED BY <2>1, <2>2
<1>. QED BY <1>1, <1>2, <1>3, <1>4 DEF ToSet, c

(* The commands of each node of a sequence, whatever a node's turn is.          *)
Turns(nodes, turn) == [i \in DOMAIN nodes |-> turn[nodes[i]]]

(* They are sequences, one for each node.                                     *)
LEMMA TurnsTyped ==
  ASSUME NEW S, NEW turn \in [Nodes -> Seq(S)], NEW nodes \in Seq(Nodes)
  PROVE  /\ Turns(nodes, turn) \in Seq(Seq(S))
         /\ Len(Turns(nodes, turn)) = Len(nodes) /\ Len(nodes) \in Nat
         /\ DOMAIN Turns(nodes, turn) = 1..Len(nodes) /\ DOMAIN nodes = 1..Len(nodes)
         /\ \A i \in 1..Len(nodes) : Turns(nodes, turn)[i] = turn[nodes[i]] /\ nodes[i] \in Nodes
<1>1. Len(nodes) \in Nat /\ DOMAIN nodes = 1..Len(nodes) /\ \A i \in 1..Len(nodes) : nodes[i] \in Nodes
  OBVIOUS
<1>2. Turns(nodes, turn) \in [1..Len(nodes) -> Seq(S)]
  BY <1>1 DEF Turns
<1>3. Turns(nodes, turn) \in Seq(Seq(S)) /\ Len(Turns(nodes, turn)) = Len(nodes)
  <2>1. \A R, s : \A n \in Nat : s \in [1..n -> R] => s \in Seq(R) /\ Len(s) = n
    OBVIOUS
  <2>. QED BY <1>1, <1>2, <2>1
<1>. QED BY <1>1, <1>2, <1>3 DEF Turns

(* The spots of a flow's nodes in their group, in the flow's order.             *)
Spots(nodes, g, spot) ==
  /\ spot \in [DOMAIN nodes -> Nat]
  /\ \A i \in DOMAIN nodes : nodes[i].group = g =>
       spot[i] \in DOMAIN Group(nodes, g) /\ Group(nodes, g)[spot[i]] = nodes[i]
  /\ \A i, j \in DOMAIN nodes :
       i < j /\ nodes[i].group = g /\ nodes[j].group = g => spot[i] < spot[j]

(* A group is the nodes of the flow that are in it, in the flow's order.        *)
LEMMA GroupPlaced ==
  ASSUME NEW nodes \in Seq(Nodes), NEW g
  PROVE  /\ Group(nodes, g) \in Seq(Nodes)
         /\ \A k \in DOMAIN Group(nodes, g) :
              \E i \in DOMAIN nodes : Group(nodes, g)[k] = nodes[i] /\ nodes[i].group = g
         /\ \E spot : Spots(nodes, g, spot)
<1>. DEFINE turn == [n \in Nodes |-> IF n.group = g THEN <<n>> ELSE <<>>]
            ss == Turns(nodes, turn)
<1>1. turn \in [Nodes -> Seq(Nodes)]
  OBVIOUS
<1>2. /\ ss \in Seq(Seq(Nodes)) /\ Len(ss) = Len(nodes) /\ Len(nodes) \in Nat
      /\ DOMAIN ss = 1..Len(nodes) /\ DOMAIN nodes = 1..Len(nodes)
      /\ \A i \in 1..Len(nodes) : ss[i] = turn[nodes[i]] /\ nodes[i] \in Nodes
  <2>. HIDE DEF turn
  <2>. QED BY <1>1, TurnsTyped
<1>3. \A i \in 1..Len(nodes) : ss[i] = IF nodes[i].group = g THEN <<nodes[i]>> ELSE <<>>
  <2>. HIDE DEF ss
  <2>. QED BY <1>2
<1>4. Group(nodes, g) = FlattenSeq(ss)
  <2>1. ss = [i \in DOMAIN nodes |-> IF nodes[i].group = g THEN <<nodes[i]>> ELSE <<>>]
    BY <1>2, <1>3 DEF Turns
  <2>. HIDE DEF ss
  <2>. QED BY <2>1 DEF Group, Of, When
<1>. HIDE DEF ss
<1>5. PICK place : Placed(ss, FlattenSeq(ss), place)
  BY <1>2, FlattenPlaced
<1>. DEFINE flat == Group(nodes, g)
            spot == [i \in DOMAIN nodes |-> place[i] + 1]
<1>6. flat \in Seq(Nodes) /\ Placed(ss, flat, place)
  BY <1>2, <1>4, <1>5, FlattenPlaced
<1>. HIDE DEF flat
<1>7. ASSUME NEW k \in DOMAIN flat
      PROVE  \E i \in DOMAIN nodes : flat[k] = nodes[i] /\ nodes[i].group = g
  <2>1. PICK i \in DOMAIN ss : flat[k] \in ToSet(ss[i])
    BY <1>2, <1>4, FlattenElements DEF flat
  <2>. QED BY <1>2, <1>3, <2>1 DEF ToSet
<1>8. spot \in [DOMAIN nodes -> Nat]
  BY <1>2, <1>6 DEF Placed
<1>9. ASSUME NEW i \in DOMAIN nodes, nodes[i].group = g
      PROVE  spot[i] \in DOMAIN flat /\ flat[spot[i]] = nodes[i]
  <2>1. ss[i] = <<nodes[i]>> /\ i \in 1..Len(ss)
    BY <1>2, <1>3, <1>9
  <2>2. place[i] \in Nat /\ place[i] + 1 <= Len(flat) /\ flat[place[i] + 1] = nodes[i]
    <3>1. Len(ss[i]) = 1 /\ 1 \in 1..Len(ss[i]) /\ ss[i][1] = nodes[i]
      BY <2>1
    <3>2. place[i] \in Nat /\ Fits(ss, flat, place, i)
      BY <1>6, <2>1 DEF Placed
    <3>. QED BY <3>1, <3>2 DEF Fits
  <2>. QED BY <1>6, <2>2
<1>10. ASSUME NEW i \in DOMAIN nodes, NEW j \in DOMAIN nodes,
              i < j, nodes[i].group = g, nodes[j].group = g
       PROVE  spot[i] < spot[j]
  <2>1. ss[i] = <<nodes[i]>> /\ i \in 1..Len(ss) /\ j \in 1..Len(ss)
    BY <1>2, <1>3, <1>10
  <2>2. place[i] \in Nat /\ place[j] \in Nat /\ place[i] + 1 <= place[j]
    BY <1>6, <1>10, <2>1 DEF Placed
  <2>. QED BY <2>2
<1>. HIDE DEF spot
<1>11. Spots(nodes, g, spot)
  BY <1>8, <1>9, <1>10 DEF flat, Spots
<1>. QED BY <1>6, <1>7, <1>11 DEF flat

(* The commands of a group's nodes: those of its nodes and no others, and of    *)
(* the nodes that have any, the first ones stand in the flow's order.           *)
GroupCommands(nodes, g, turn) == FlattenSeq(Turns(Group(nodes, g), turn))

(* A node of the group that has a command.                                    *)
Leads(nodes, g, turn, i) == nodes[i].group = g /\ turn[nodes[i]] # <<>>

(* Where the first commands of a group's nodes stand among the group's.         *)
Runs(nodes, g, turn, run) ==
  /\ run \in [DOMAIN nodes -> Nat]
  /\ \A i \in DOMAIN nodes : Leads(nodes, g, turn, i) =>
       /\ run[i] \in DOMAIN GroupCommands(nodes, g, turn)
       /\ GroupCommands(nodes, g, turn)[run[i]] = turn[nodes[i]][1]
  /\ \A i, j \in DOMAIN nodes :
       i < j /\ Leads(nodes, g, turn, i) /\ Leads(nodes, g, turn, j) => run[i] < run[j]

(* Every command of a group is of one of its nodes, none is missing, and the  *)
(* first ones have their places.                                              *)
LEMMA GroupTurns ==
  ASSUME NEW S, NEW turn \in [Nodes -> Seq(S)], NEW nodes \in Seq(Nodes), NEW g
  PROVE  /\ GroupCommands(nodes, g, turn) \in Seq(S)
         /\ \A c \in ToSet(GroupCommands(nodes, g, turn)) :
              \E n \in ToSet(nodes) : n.group = g /\ c \in ToSet(turn[n])
         /\ \A n \in ToSet(nodes) : n.group = g =>
              ToSet(turn[n]) \subseteq ToSet(GroupCommands(nodes, g, turn))
         /\ \E run : Runs(nodes, g, turn, run)
<1>. DEFINE group == Group(nodes, g)
            ss == Turns(group, turn)
            flat == GroupCommands(nodes, g, turn)
<1>1. group \in Seq(Nodes)
  BY GroupPlaced
<1>2. \A k \in DOMAIN group : \E i \in DOMAIN nodes : group[k] = nodes[i] /\ nodes[i].group = g
  BY GroupPlaced
<1>3. PICK spot : Spots(nodes, g, spot)
  BY GroupPlaced
<1>. HIDE DEF group
<1>4. /\ ss \in Seq(Seq(S)) /\ Len(ss) = Len(group) /\ Len(group) \in Nat
      /\ DOMAIN ss = 1..Len(group) /\ DOMAIN group = 1..Len(group)
      /\ \A k \in 1..Len(group) : ss[k] = turn[group[k]] /\ group[k] \in Nodes
  BY <1>1, TurnsTyped
<1>5. flat = FlattenSeq(ss)
  BY DEF GroupCommands, group
<1>. HIDE DEF ss, flat
<1>6. flat \in Seq(S)
  BY <1>4, <1>5, FlattenPlaced
<1>7. PICK place : Placed(ss, flat, place)
  BY <1>4, <1>5, FlattenPlaced
<1>8. ASSUME NEW c \in ToSet(flat) PROVE \E n \in ToSet(nodes) : n.group = g /\ c \in ToSet(turn[n])
  <2>1. PICK k \in DOMAIN flat : c = flat[k]
    BY DEF ToSet
  <2>2. PICK l \in DOMAIN ss : c \in ToSet(ss[l])
    BY <1>4, <1>5, <2>1, FlattenElements
  <2>3. PICK i \in DOMAIN nodes : group[l] = nodes[i] /\ nodes[i].group = g
    BY <1>2, <1>4
  <2>4. nodes[i] \in ToSet(nodes) /\ c \in ToSet(turn[nodes[i]])
    BY <1>4, <2>2, <2>3 DEF ToSet
  <2>. QED BY <2>3, <2>4
<1>9. ASSUME NEW n \in ToSet(nodes), n.group = g PROVE ToSet(turn[n]) \subseteq ToSet(flat)
  <2>1. PICK i \in DOMAIN nodes : n = nodes[i]
    BY DEF ToSet
  <2>2. spot[i] \in DOMAIN ss /\ ss[spot[i]] = turn[n]
    BY <1>3, <1>4, <1>9, <2>1 DEF Spots, group
  <2>. QED BY <1>4, <1>5, <2>2, FlattenElements
<1>. DEFINE run == [i \in DOMAIN nodes |-> IF Leads(nodes, g, turn, i) THEN place[spot[i]] + 1 ELSE 0]
<1>10. ASSUME NEW i \in DOMAIN nodes, Leads(nodes, g, turn, i)
       PROVE  /\ spot[i] \in 1..Len(ss) /\ place[spot[i]] \in Nat
              /\ Len(ss[spot[i]]) >= 1 /\ Len(ss[spot[i]]) \in Nat
              /\ place[spot[i]] + 1 \in DOMAIN flat
              /\ flat[place[spot[i]] + 1] = turn[nodes[i]][1]
  <2>1. spot[i] \in 1..Len(ss) /\ ss[spot[i]] = turn[nodes[i]] /\ turn[nodes[i]] # <<>>
    BY <1>3, <1>4, <1>10 DEF Leads, Spots, group
  <2>2. ss[spot[i]] \in Seq(S) /\ ss[spot[i]] # <<>>
    BY <1>4, <2>1
  <2>3. Len(ss[spot[i]]) \in Nat /\ Len(ss[spot[i]]) >= 1 /\ 1 \in 1..Len(ss[spot[i]])
    BY <2>2
  <2>4. place[spot[i]] \in Nat /\ Fits(ss, flat, place, spot[i])
    BY <1>7, <2>1 DEF Placed
  <2>5. flat[place[spot[i]] + 1] = ss[spot[i]][1] /\ place[spot[i]] + 1 <= Len(flat)
    BY <2>3, <2>4 DEF Fits
  <2>. QED BY <1>6, <2>1, <2>3, <2>4, <2>5
<1>11. run \in [DOMAIN nodes -> Nat]
  BY <1>10
<1>12. ASSUME NEW i \in DOMAIN nodes, NEW j \in DOMAIN nodes, i < j,
              Leads(nodes, g, turn, i), Leads(nodes, g, turn, j)
       PROVE  run[i] < run[j]
  <2>1. spot[i] < spot[j]
    BY <1>3, <1>12 DEF Leads, Spots
  <2>2. place[spot[i]] + Len(ss[spot[i]]) <= place[spot[j]]
    BY <1>7, <1>10, <1>12, <2>1 DEF Placed
  <2>3. run[i] = place[spot[i]] + 1 /\ run[j] = place[spot[j]] + 1
    BY <1>12
  <2>4. place[spot[i]] \in Nat /\ place[spot[j]] \in Nat /\ Len(ss[spot[i]]) \in Nat /\ Len(ss[spot[i]]) >= 1
    BY <1>10, <1>12
  <2>5. \A a, b, l \in Nat : l >= 1 /\ a + l <= b => a + 1 < b + 1
    OBVIOUS
  <2>6. place[spot[i]] + 1 < place[spot[j]] + 1
    BY <2>2, <2>4, <2>5
  <2>. HIDE DEF run
  <2>. QED BY <2>3, <2>6
<1>13. \A i \in DOMAIN nodes : Leads(nodes, g, turn, i) =>
         run[i] \in DOMAIN flat /\ flat[run[i]] = turn[nodes[i]][1]
  BY <1>10
<1>. HIDE DEF run
<1>14. Runs(nodes, g, turn, run)
  BY <1>11, <1>12, <1>13 DEF flat, Runs
<1>. QED BY <1>6, <1>8, <1>9, <1>14 DEF flat

--------------------------------------------------------------------------------
(* What the commands of a node are.                                             *)

(* The commands there can be, and those of a node that are of some kinds.       *)
Tools == ({"npm", "apt-get"} \cup {n.manager : n \in Nodes}) \ {"none"}

PreBuildKinds == {"node", "login", "name", "get manager", "os", "export", "source",
                  "dockerfile", "dockerfile without start"}
BuildKinds == {"install", "nonsense", "bundle", "move", "script", "build",
               "nothing", "docker build", "docker tag"}
PostBuildKinds == {"test", "test script", "push latest", "push tag", "definitions", "notify"}

(* A command, of any phase.                                                   *)
Command == [what : PreBuildKinds \cup BuildKinds \cup PostBuildKinds, with : Tools,
            in : {Here} \cup {n.dir : n \in Nodes}, of : Nodes \cup {NoNode}]

(* The commands made from node n.                                             *)
Made(n, whats, dirs) == [what : whats, with : Tools, in : dirs, of : {n}]

(* Repetition keeps to a set of commands.                                       *)
LEMMA TimesMade ==
  ASSUME NEW S, NEW c \in S, NEW k \in Nat
  PROVE  Times(k, <<c>>) \in Seq(S) /\ (k > 0 => Times(k, <<c>>) # <<>>)
<1>. DEFINE ss == [i \in 1..k |-> <<c>>]
<1>1. <<c>> \in Seq(S)
  OBVIOUS
<1>2. ss \in [1..k -> Seq(S)]
  BY <1>1
<1>3. ss \in Seq(Seq(S)) /\ Len(ss) = k
  <2>1. \A R, s : \A n \in Nat : s \in [1..n -> R] => s \in Seq(R) /\ Len(s) = n
    OBVIOUS
  <2>. HIDE DEF ss
  <2>. QED BY <1>2, <2>1
<1>4. Times(k, <<c>>) = FlattenSeq(ss)
  BY DEF Times
<1>5. k > 0 => 1 \in DOMAIN ss /\ c \in ToSet(ss[1])
  <2>1. 1 \in DOMAIN <<c>> /\ <<c>>[1] = c
    OBVIOUS
  <2>2. k > 0 => 1 \in 1..k
    OBVIOUS
  <2>3. c \in ToSet(<<c>>)
    BY <2>1 DEF ToSet
  <2>. QED BY <2>2, <2>3
<1>. HIDE DEF ss
<1>6. FlattenSeq(ss) \in Seq(S)
  BY <1>3, FlattenPlaced
<1>7. k > 0 => c \in ToSet(FlattenSeq(ss))
  BY <1>3, <1>5, FlattenElements
<1>8. ToSet(<<>>) = {}
  BY DEF ToSet
<1>. QED BY <1>4, <1>6, <1>7, <1>8

(* A node's lines are counted and its manager has a name.                       *)
LEMMA NodeFields ==
  ASSUME NEW n \in Nodes
  PROVE  n.lines \in Nat /\ Manager(n) \in Tools /\ "npm" \in Tools
<1>1. n \in [block : STRING, group : STRING, manager : STRING, dir : STRING,
             given : SUBSET STRING, lines : Nat]
  BY BuildspecAssumption
<1>2. n.lines \in Nat
  BY <1>1
<1>. QED BY <1>2 DEF Manager, Tools

(* One command; commands under a condition; two runs of commands.               *)
LEMMA DoesMade ==
  ASSUME NEW S, NEW n, NEW what, NEW with, [what |-> what, with |-> with, in |-> Here, of |-> n] \in S
  PROVE  /\ Does(n, what, with) \in Seq(S) /\ Does(n, what, with) # <<>>
<1>. DEFINE c == [what |-> what, with |-> with, in |-> Here, of |-> n]
<1>1. Does(n, what, with) = <<c>> /\ c \in S
  BY DEF Does
<1>. HIDE DEF c
<1>2. <<c>> \in Seq(S) /\ <<c>> # <<>>
  BY <1>1
<1>. QED BY <1>1, <1>2

(* Commands under a condition.                                                *)
LEMMA WhenMade ==
  ASSUME NEW S, NEW s \in Seq(S), NEW condition
  PROVE  When(condition, s) \in Seq(S) /\ (condition => When(condition, s) = s)
BY DEF When

(* Two runs of commands, one after the other.                                 *)
LEMMA BothMade ==
  ASSUME NEW S, NEW a \in Seq(S), NEW b \in Seq(S)
  PROVE  a \o b \in Seq(S) /\ (a # <<>> \/ b # <<>> => a \o b # <<>>)
<1>1. a \o b \in Seq(S) /\ Len(a \o b) = Len(a) + Len(b) /\ Len(a) \in Nat /\ Len(b) \in Nat
  OBVIOUS
<1>2. a # <<>> => Len(a) > 0
  OBVIOUS
<1>3. b # <<>> => Len(b) > 0
  OBVIOUS
<1>4. a \o b = <<>> => Len(a \o b) = 0
  OBVIOUS
<1>. QED BY <1>1, <1>2, <1>3, <1>4

(* A change of directory keeps to a set that is closed under it.                *)
LEMMA InDirectoryMade ==
  ASSUME NEW S, NEW n, \A c \in S : [c EXCEPT !.in = n.dir] \in S, NEW commands \in Seq(S)
  PROVE  /\ InDirectory(n, commands) \in Seq(S)
         /\ commands # <<>> => InDirectory(n, commands) # <<>>
<1>. DEFINE s == InDirectory(n, commands)
<1>1. Len(commands) \in Nat /\ DOMAIN commands = 1..Len(commands)
      /\ \A i \in 1..Len(commands) : commands[i] \in S
  OBVIOUS
<1>2. s \in [1..Len(commands) -> S]
  BY <1>1 DEF InDirectory
<1>. HIDE DEF s
<1>3. \A R, t : \A k \in Nat : t \in [1..k -> R] => t \in Seq(R) /\ Len(t) = k
  OBVIOUS
<1>4. s \in Seq(S) /\ Len(s) = Len(commands)
  BY <1>1, <1>2, <1>3
<1>5. commands # <<>> => s # <<>>
  BY <1>4
<1>. QED BY <1>4, <1>5 DEF s

(* The plain nodes of a flow whose install manager is the one given.            *)
PlainNode(n, manager) ==
  /\ n.dir = Here
  /\ n.given \cap {"scriptName", "outputDir"} = {} /\ n.block # "test_jest"
  /\ n.block \in {"install_module_node", "build_webpack", "build_vite"}
       => Manager(n) \in Known \cap {"npm", manager}

(* What the turns of a node are made of, in each group.                         *)
PreBuildTurn(n) == Made(n, {"os", "export", "source"}, {Here})

(* A plain node of the build group stays in the root, has no script and needs *)
(* npm or the flow's manager.                                                 *)
BuildTurn(n, manager) ==
  {c \in Made(n, {"install", "nonsense", "nothing", "bundle", "move", "script", "build"}, {Here, n.dir}) :
     PlainNode(n, manager) =>
       /\ c.in = Here /\ c.what \notin {"nonsense", "move", "script"}
       /\ c.what \in {"install", "bundle"} => c.with \in {"npm", manager}}

(* A plain node of the test group needs no script.                            *)
TestTurn(n, manager) ==
  {c \in Made(n, {"test", "test script"}, {Here, n.dir}) :
     PlainNode(n, manager) => c.in = Here /\ c.what = "test"}

(* A node of the notification group sends messages.                           *)
NotificationTurn(n) == Made(n, {"notify"}, {Here})

(* The prebuild switch gives such commands, and some for a node that asks.    *)
LEMMA PreBuildMade ==
  ASSUME NEW n \in Nodes
  PROVE  /\ PreBuildCommands(n) \in Seq(PreBuildTurn(n))
         /\ "prebuild" \in Home(n.block) /\ Asks(n) => PreBuildCommands(n) # <<>>
<1>. DEFINE S == PreBuildTurn(n)
<1>1. <<>> \in Seq(S)
  OBVIOUS
<1>2. OSPackage(n) \in Seq(S) /\ (n.block = "os_package" /\ Asks(n) => OSPackage(n) # <<>>)
  <2>. DEFINE manager == IF n.manager = "none" THEN "apt-get" ELSE n.manager
              change == Does(n, "os", manager)
              a == When("updatePackageList" \in n.given, change)
              b == When(n.lines > 0, change)
  <2>1. [what |-> "os", with |-> manager, in |-> Here, of |-> n] \in S
    <3>1. manager \in Tools
      BY NodeFields DEF Tools
    <3>. HIDE DEF manager
    <3>. QED BY <3>1 DEF PreBuildTurn, Made
  <2>2. change \in Seq(S) /\ change # <<>>
    <3>. HIDE DEF manager, S
    <3>. QED BY <2>1, DoesMade
  <2>3. a \in Seq(S) /\ b \in Seq(S) /\ (n.lines > 0 => b # <<>>)
    <3>. HIDE DEF change, S
    <3>. QED BY <1>1, <2>2 DEF When
  <2>4. a \o b \in Seq(S) /\ (n.lines > 0 => a \o b # <<>>)
    <3>. HIDE DEF a, b, S
    <3>. QED BY <2>3, BothMade
  <2>5. OSPackage(n) = When(manager \in {"apt", "apt-get", "yum"}, a \o b)
    BY DEF OSPackage
  <2>6. n.block = "os_package" /\ Asks(n) => manager \in {"apt", "apt-get", "yum"} /\ n.lines > 0
    BY DEF Asks
  <2>. HIDE DEF manager, a, b, S
  <2>. QED BY <1>1, <2>4, <2>5, <2>6 DEF When
<1>3. EnvironmentSetup(n) \in Seq(S) /\ (Asks(n) => EnvironmentSetup(n) # <<>>)
  <2>. DEFINE a == Times(n.lines, Does(n, "export", "npm"))
              b == When("loadFromFile" \in n.given, Does(n, "source", "npm"))
              c == [what |-> "export", with |-> "npm", in |-> Here, of |-> n]
  <2>1. c \in S /\ [what |-> "source", with |-> "npm", in |-> Here, of |-> n] \in S
    BY NodeFields DEF PreBuildTurn, Made
  <2>2. a \in Seq(S) /\ (n.lines > 0 => a # <<>>)
    <3>1. a = Times(n.lines, <<c>>)
      BY DEF Does
    <3>. HIDE DEF c, a, S
    <3>. QED BY <2>1, <3>1, NodeFields, TimesMade
  <2>3. b \in Seq(S)
    <3>1. Does(n, "source", "npm") \in Seq(S)
      <4>. HIDE DEF S
      <4>. QED BY <2>1, DoesMade
    <3>. HIDE DEF S
    <3>. QED BY <1>1, <3>1 DEF When
  <2>4. EnvironmentSetup(n) = a \o b
    BY DEF EnvironmentSetup
  <2>5. a \o b \in Seq(S) /\ (n.lines > 0 => a \o b # <<>>)
    <3>. HIDE DEF a, b, S
    <3>. QED BY <2>2, <2>3, BothMade
  <2>6. Asks(n) => n.lines > 0
    BY DEF Asks
  <2>. HIDE DEF a, b, S
  <2>. QED BY <2>4, <2>5, <2>6
<1>4. "prebuild" \in Home(n.block) => n.block \in {"os_package", "environment_setup"}
  BY DEF Home
<1>. HIDE DEF S
<1>5. CASE n.block = "os_package"
  <2>1. PreBuildCommands(n) = OSPackage(n)
    BY <1>5 DEF PreBuildCommands
  <2>. QED BY <1>2, <1>5, <2>1 DEF S
<1>6. CASE n.block = "environment_setup"
  <2>1. PreBuildCommands(n) = EnvironmentSetup(n)
    BY <1>6 DEF PreBuildCommands
  <2>. QED BY <1>3, <2>1 DEF S
<1>7. CASE n.block \notin {"os_package", "environment_setup"}
  <2>1. PreBuildCommands(n) = <<>>
    BY <1>7 DEF PreBuildCommands
  <2>. QED BY <1>1, <1>4, <1>7, <2>1 DEF S
<1>. QED BY <1>5, <1>6, <1>7

(* A node's command repeated.                                                 *)
LEMMA TimesDoes ==
  ASSUME NEW S, NEW n, NEW what, NEW with, NEW k \in Nat,
         [what |-> what, with |-> with, in |-> Here, of |-> n] \in S
  PROVE  /\ Times(k, Does(n, what, with)) \in Seq(S)
         /\ k > 0 => Times(k, Does(n, what, with)) # <<>>
<1>. DEFINE c == [what |-> what, with |-> with, in |-> Here, of |-> n]
<1>1. Does(n, what, with) = <<c>> /\ c \in S
  BY DEF Does
<1>. HIDE DEF c
<1>. QED BY <1>1, TimesMade

(* The turn of a node of the build group.                                       *)
LEMMA BuildMade ==
  ASSUME NEW n \in Nodes, NEW manager
  PROVE  /\ BuildCommands(n) \in Seq(BuildTurn(n, manager))
         /\ "build" \in Home(n.block) /\ Asks(n) => BuildCommands(n) # <<>>
<1>. DEFINE S == BuildTurn(n, manager)
            Rec(what, with) == [what |-> what, with |-> with, in |-> Here, of |-> n]
<1>1. <<>> \in Seq(S)
  OBVIOUS
<1>2. /\ PlainNode(n, manager) =>
           \/ Manager(n) \in Known /\ Manager(n) \in {"npm", manager}
           \/ n.block \notin {"install_module_node", "build_webpack", "build_vite"}
      /\ PlainNode(n, manager) => n.dir = Here /\ "scriptName" \notin n.given /\ "outputDir" \notin n.given
  BY DEF PlainNode
<1>3. Rec("build", "npm") \in S
  BY NodeFields DEF BuildTurn, Made
<1>4. ASSUME n.block \in {"install_module_node", "build_webpack", "build_vite"}
      PROVE  /\ Rec("install", Manager(n)) \in S /\ Rec("bundle", Manager(n)) \in S
             /\ Manager(n) \notin Known =>
                  Rec("nonsense", Manager(n)) \in S /\ Rec("nothing", Manager(n)) \in S
  BY <1>2, <1>4, NodeFields DEF BuildTurn, Made
<1>5. "outputDir" \in n.given => Rec("move", "npm") \in S
  BY <1>2, NodeFields DEF BuildTurn, Made
<1>6. "scriptName" \in n.given => Rec("script", Manager(n)) \in S
  BY <1>2, NodeFields DEF BuildTurn, Made
<1>7. \A c \in S : [c EXCEPT !.in = n.dir] \in S
  BY <1>2 DEF BuildTurn, Made
<1>. HIDE DEF S
<1>8. CASE n.block = "install_module_node"
  <2>. DEFINE what == IF "cleanInstall" \in n.given /\ Manager(n) \notin Known THEN "nonsense" ELSE "install"
  <2>1. BuildCommands(n) = Does(n, what, Manager(n))
    BY <1>8 DEF BuildCommands, InstallPackages
  <2>2. Rec(what, Manager(n)) \in S
    BY <1>4, <1>8
  <2>. HIDE DEF what
  <2>. QED BY <2>1, <2>2, DoesMade DEF S
<1>9. CASE n.block \in {"build_webpack", "build_vite"}
  <2>. DEFINE what == IF Manager(n) \in Known THEN "bundle"
                      ELSE IF n.block = "build_vite" /\ "basePath" \in n.given THEN "nothing" ELSE "nonsense"
              bundle == Does(n, what, Manager(n))
  <2>1. Rec(what, Manager(n)) \in S
    BY <1>4, <1>9
  <2>2. bundle = Does(n, what, Manager(n))
    OBVIOUS
  <2>3. bundle \in Seq(S) /\ bundle # <<>>
    <3>. HIDE DEF bundle, what
    <3>. QED BY <2>1, <2>2, DoesMade
  <2>4. CASE n.block = "build_webpack"
    <3>1. BuildCommands(n) = bundle
      BY <2>4 DEF BuildCommands, Webpack
    <3>. QED BY <2>3, <3>1 DEF S
  <2>5. CASE n.block = "build_vite"
    <3>. DEFINE move == When("outputDir" \in n.given, Does(n, "move", "npm"))
    <3>1. BuildCommands(n) = bundle \o move
      BY <2>5 DEF BuildCommands, Vite
    <3>2. move \in Seq(S)
      <4>1. CASE "outputDir" \in n.given
        <5>1. Does(n, "move", "npm") \in Seq(S)
          BY <1>5, <4>1, DoesMade
        <5>. QED BY <1>1, <5>1 DEF When
      <4>2. CASE "outputDir" \notin n.given
        BY <1>1, <4>2 DEF When
      <4>. QED BY <4>1, <4>2
    <3>. HIDE DEF move, bundle
    <3>3. bundle \o move \in Seq(S) /\ bundle \o move # <<>>
      BY <2>3, <3>2, BothMade
    <3>. QED BY <3>1, <3>3 DEF S
  <2>. QED BY <1>9, <2>4, <2>5
<1>10. CASE n.block = "build_custom"
  <2>. DEFINE a == When("scriptName" \in n.given, Does(n, "script", Manager(n)))
              b == Times(n.lines, Does(n, "build", "npm"))
  <2>1. BuildCommands(n) = InDirectory(n, a \o b)
    BY <1>10 DEF BuildCommands, CustomBuild
  <2>2. a \in Seq(S)
    <3>1. CASE "scriptName" \in n.given
      <4>1. Does(n, "script", Manager(n)) \in Seq(S)
        BY <1>6, <3>1, DoesMade
      <4>. QED BY <1>1, <4>1 DEF When
    <3>2. CASE "scriptName" \notin n.given
      BY <1>1, <3>2 DEF When
    <3>. QED BY <3>1, <3>2
  <2>3. b \in Seq(S) /\ (n.lines > 0 => b # <<>>)
    BY <1>3, NodeFields, TimesDoes
  <2>. HIDE DEF a, b
  <2>4. a \o b \in Seq(S) /\ (n.lines > 0 => a \o b # <<>>)
    BY <2>2, <2>3, BothMade
  <2>. DEFINE ab == a \o b
  <2>5. ab \in Seq(S) /\ (n.lines > 0 => ab # <<>>) /\ BuildCommands(n) = InDirectory(n, ab)
    BY <2>1, <2>4
  <2>. HIDE DEF ab
  <2>6. InDirectory(n, ab) \in Seq(S) /\ (n.lines > 0 => InDirectory(n, ab) # <<>>)
    BY <1>7, <2>5, InDirectoryMade
  <2>. QED BY <2>5, <2>6 DEF Asks, S
<1>11. CASE n.block \notin {"install_module_node", "build_webpack", "build_vite", "build_custom"}
  <2>1. BuildCommands(n) = <<>>
    BY <1>11 DEF BuildCommands
  <2>2. "build" \notin Home(n.block)
    BY <1>11 DEF Home
  <2>. QED BY <1>1, <2>1, <2>2 DEF S
<1>. QED BY <1>8, <1>9, <1>10, <1>11

(* The turn of a node of the test group, or of a test in the utility group.     *)
LEMMA TestMade ==
  ASSUME NEW n \in Nodes, NEW manager
  PROVE  /\ TestCommands(n) \in Seq(TestTurn(n, manager))
         /\ {"test", "utility"} \cap Home(n.block) # {} /\ Asks(n) => TestCommands(n) # <<>>
         /\ n.block = "test_custom" => CustomTest(n) = TestCommands(n)
<1>. DEFINE S == TestTurn(n, manager)
            Rec(what, with) == [what |-> what, with |-> with, in |-> Here, of |-> n]
<1>1. <<>> \in Seq(S)
  OBVIOUS
<1>2. PlainNode(n, manager) => n.dir = Here /\ n.block # "test_jest"
  BY DEF PlainNode
<1>3. Rec("test", "npm") \in S
  BY NodeFields DEF TestTurn, Made
<1>4. n.block = "test_jest" => Rec("test script", "npm") \in S
  BY <1>2, NodeFields DEF TestTurn, Made
<1>5. \A c \in S : [c EXCEPT !.in = n.dir] \in S
  BY <1>2 DEF TestTurn, Made
<1>. HIDE DEF S
<1>6. CASE n.block = "test_jest"
  <2>1. TestCommands(n) = Does(n, "test script", "npm")
    BY <1>6 DEF TestCommands, Jest
  <2>2. Does(n, "test script", "npm") \in Seq(S) /\ Does(n, "test script", "npm") # <<>>
    BY <1>4, <1>6, DoesMade
  <2>. QED BY <1>6, <2>1, <2>2 DEF S
<1>7. CASE n.block \in {"test_vitest", "test_mocha", "test_playwright"}
  <2>1. TestCommands(n) = Does(n, "test", "npm")
    BY <1>7 DEF TestCommands, Vitest, Mocha, Playwright
  <2>2. Does(n, "test", "npm") \in Seq(S) /\ Does(n, "test", "npm") # <<>>
    BY <1>3, DoesMade
  <2>. QED BY <1>7, <2>1, <2>2 DEF S
<1>8. CASE n.block = "test_custom"
  <2>. DEFINE a == Times(n.lines, Does(n, "test", "npm"))
  <2>1. TestCommands(n) = CustomTest(n) /\ CustomTest(n) = InDirectory(n, a)
    BY <1>8 DEF TestCommands, CustomTest
  <2>2. a \in Seq(S) /\ (n.lines > 0 => a # <<>>)
    BY <1>3, NodeFields, TimesDoes
  <2>. HIDE DEF a
  <2>3. InDirectory(n, a) \in Seq(S) /\ (n.lines > 0 => InDirectory(n, a) # <<>>)
    BY <1>5, <2>2, InDirectoryMade
  <2>. QED BY <2>1, <2>3 DEF Asks, S
<1>9. CASE n.block \notin {"test_jest", "test_vitest", "test_mocha", "test_playwright", "test_custom"}
  <2>1. TestCommands(n) = <<>>
    BY <1>9 DEF TestCommands
  <2>2. "test" \notin Home(n.block) /\ "utility" \notin Home(n.block)
    BY <1>9 DEF Home
  <2>. QED BY <1>1, <1>9, <2>1, <2>2 DEF S
<1>. QED BY <1>6, <1>7, <1>8, <1>9

(* The turn of a node of the notification group.                                *)
LEMMA NotificationMade ==
  ASSUME NEW n \in Nodes
  PROVE  /\ NotificationCommands(n) \in Seq(NotificationTurn(n))
         /\ "notification" \in Home(n.block) /\ Asks(n) => NotificationCommands(n) # <<>>
<1>. DEFINE S == NotificationTurn(n)
            note == Does(n, "notify", "npm")
<1>1. <<>> \in Seq(S)
  OBVIOUS
<1>2. [what |-> "notify", with |-> "npm", in |-> Here, of |-> n] \in S
  BY NodeFields DEF NotificationTurn, Made
<1>. HIDE DEF S
<1>3. note \in Seq(S) /\ note # <<>>
  BY <1>2, DoesMade
<1>. HIDE DEF note
<1>4. \A condition : When(condition, note) \in Seq(S) /\ (condition => When(condition, note) # <<>>)
  BY <1>1, <1>3 DEF When
<1>5. CASE n.block = "notification_slack"
  <2>1. NotificationCommands(n) = When({"channel", "webhookUrlEnv"} \subseteq n.given, note)
    BY <1>5 DEF NotificationCommands, Slack, note
  <2>. QED BY <1>4, <1>5, <2>1 DEF Asks, S
<1>6. CASE n.block = "notification_email"
  <2>1. NotificationCommands(n) = When({"recipients", "subject"} \subseteq n.given, note)
    BY <1>6 DEF NotificationCommands, Email, note
  <2>. QED BY <1>4, <1>6, <2>1 DEF Asks, S
<1>7. CASE n.block \notin {"notification_slack", "notification_email"}
  <2>1. NotificationCommands(n) = <<>>
    BY <1>7 DEF NotificationCommands
  <2>2. "notification" \notin Home(n.block)
    BY <1>7 DEF Home
  <2>. QED BY <1>1, <2>1, <2>2 DEF S
<1>. QED BY <1>5, <1>6, <1>7

--------------------------------------------------------------------------------
(* The phases.                                                                  *)

(* Where a sequence stands in another one.                                      *)
Within(part, whole, off) ==
  /\ off \in Nat /\ off + Len(part) <= Len(whole)
  /\ \A j \in 1..Len(part) : whole[off + j] = part[j]

(* The two parts of a concatenation stand in it.                                *)
LEMMA ConcatWithin ==
  ASSUME NEW S, NEW a \in Seq(S), NEW b \in Seq(S)
  PROVE  Within(a, a \o b, 0) /\ Within(b, a \o b, Len(a))
<1>. DEFINE c == a \o b
<1>1. /\ c \in Seq(S) /\ Len(c) = Len(a) + Len(b) /\ Len(a) \in Nat /\ Len(b) \in Nat
      /\ \A i \in 1..Len(a) : c[i] = a[i] /\ 0 + i = i
      /\ \A i \in 1..Len(b) : c[Len(a) + i] = b[i]
  OBVIOUS
<1>. HIDE DEF c
<1>2. Within(a, c, 0)
  BY <1>1 DEF Within
<1>3. Within(b, c, Len(a))
  BY <1>1 DEF Within
<1>. QED BY <1>2, <1>3 DEF c

(* What stands in a part stands in the whole.                                   *)
LEMMA WithinWithin ==
  ASSUME NEW S, NEW a \in Seq(S), NEW b \in Seq(S), NEW c \in Seq(S), NEW o, NEW p,
         Within(a, b, o), Within(b, c, p)
  PROVE  Within(a, c, p + o)
<1>1. /\ o \in Nat /\ p \in Nat /\ Len(a) \in Nat /\ Len(b) \in Nat /\ Len(c) \in Nat
      /\ o + Len(a) <= Len(b) /\ p + Len(b) <= Len(c)
  BY DEF Within
<1>2. p + o \in Nat /\ (p + o) + Len(a) <= Len(c)
  BY <1>1
<1>3. ASSUME NEW j \in 1..Len(a) PROVE c[(p + o) + j] = a[j]
  <2>1. o + j \in 1..Len(b) /\ p + (o + j) = (p + o) + j
    BY <1>1
  <2>2. b[o + j] = a[j]
    BY DEF Within
  <2>3. c[p + (o + j)] = b[o + j]
    BY <2>1 DEF Within
  <2>. QED BY <2>1, <2>2, <2>3
<1>. QED BY <1>2, <1>3 DEF Within

(* An element that is not in a first part comes after all of those that are.    *)
LEMMA FirstPart ==
  ASSUME NEW S, NEW a \in Seq(S), NEW c \in Seq(S), Within(a, c, 0),
         NEW i \in DOMAIN c, c[i] \notin ToSet(a), NEW x \in ToSet(a)
  PROVE  \E j \in DOMAIN c : j < i /\ c[j] = x
<1>1. /\ DOMAIN c = 1..Len(c) /\ DOMAIN a = 1..Len(a) /\ Len(a) \in Nat /\ Len(c) \in Nat
      /\ Len(a) <= Len(c) /\ \A k \in 1..Len(a) : c[k] = a[k]
  BY DEF Within
<1>2. i \notin 1..Len(a)
  BY <1>1 DEF ToSet
<1>3. PICK j \in 1..Len(a) : x = a[j]
  BY <1>1 DEF ToSet
<1>4. j \in DOMAIN c /\ j < i /\ c[j] = x
  BY <1>1, <1>2, <1>3
<1>. QED BY <1>4

(* A sequence of one element.                                                   *)
LEMMA Singleton ==
  ASSUME NEW S, NEW c \in S
  PROVE  <<c>> \in Seq(S) /\ ToSet(<<c>>) = {c}
<1>1. <<c>> \in Seq(S) /\ DOMAIN <<c>> = {1} /\ <<c>>[1] = c
  OBVIOUS
<1>. QED BY <1>1 DEF ToSet

(* A command of the generator's own.                                            *)
LEMMA OwnTyped ==
  ASSUME NEW what \in PreBuildKinds \cup BuildKinds \cup PostBuildKinds, NEW with \in Tools
  PROVE  /\ Own(what, with) \in Seq(Command)
         /\ ToSet(Own(what, with)) = {[what |-> what, with |-> with, in |-> Here, of |-> NoNode]}
<1>. DEFINE c == [what |-> what, with |-> with, in |-> Here, of |-> NoNode]
<1>1. Own(what, with) = <<c>> /\ c \in Command
  BY DEF Own, Command
<1>. HIDE DEF c
<1>2. <<c>> \in Seq(Command) /\ ToSet(<<c>>) = {c}
  BY <1>1, Singleton
<1>. QED BY <1>1, <1>2 DEF c

(* find finds a node of the flow, of one of the blocks asked for.               *)
LEMMA FirstFound ==
  ASSUME NEW nodes \in Seq(Nodes), NEW blocks
  PROVE  \/ First(nodes, blocks) = NoNode
         \/ /\ First(nodes, blocks) \in ToSet(nodes) /\ First(nodes, blocks) \in Nodes
            /\ First(nodes, blocks).block \in blocks
<1>. DEFINE those == {i \in DOMAIN nodes : nodes[i].block \in blocks}
<1>1. CASE those = {}
  BY <1>1 DEF First
<1>2. CASE those # {}
  <2>1. those \in SUBSET Nat
    OBVIOUS
  <2>2. PICK m \in those : \A k \in those : m <= k
    <3>. HIDE DEF those
    <3>. QED BY <1>2, <2>1, Least
  <2>3. Min(those) \in those
    <3>. HIDE DEF those
    <3>. QED BY <2>2 DEF Min
  <2>4. First(nodes, blocks) = nodes[Min(those)]
    BY <1>2 DEF First
  <2>5. \A i \in those : nodes[i] \in Nodes /\ nodes[i] \in ToSet(nodes) /\ nodes[i].block \in blocks
    BY DEF ToSet
  <2>. HIDE DEF those
  <2>. QED BY <2>3, <2>4, <2>5
<1>. QED BY <1>1, <1>2

(* The flow's package manager has a name.                                     *)
LEMMA InstallManagerTool ==
  ASSUME NEW nodes \in Seq(Nodes)
  PROVE  InstallManager(nodes) \in Tools
BY FirstFound, NodeFields DEF InstallManager, Tools

(* The turns of the groups, as functions.                                       *)
PreBuildTurns == [n \in Nodes |-> PreBuildCommands(n)]
BuildTurns == [n \in Nodes |-> BuildCommands(n)]
TestTurns == [n \in Nodes |-> TestCommands(n)]
UtilityTurns == [n \in Nodes |-> When(n.block = "test_custom", CustomTest(n))]
NotificationTurns == [n \in Nodes |-> NotificationCommands(n)]

(* All of them give commands.                                                 *)
LEMMA TurnsAreCommands ==
  /\ PreBuildTurns \in [Nodes -> Seq(Command)] /\ BuildTurns \in [Nodes -> Seq(Command)]
  /\ TestTurns \in [Nodes -> Seq(Command)] /\ UtilityTurns \in [Nodes -> Seq(Command)]
  /\ NotificationTurns \in [Nodes -> Seq(Command)]
<1>1. \A A, B, s : A \subseteq B /\ s \in Seq(A) => s \in Seq(B)
  OBVIOUS
<1>2. ASSUME NEW n \in Nodes
      PROVE  /\ PreBuildCommands(n) \in Seq(Command) /\ BuildCommands(n) \in Seq(Command)
             /\ TestCommands(n) \in Seq(Command) /\ NotificationCommands(n) \in Seq(Command)
             /\ When(n.block = "test_custom", CustomTest(n)) \in Seq(Command)
  <2>1. /\ PreBuildTurn(n) \subseteq Command /\ BuildTurn(n, "npm") \subseteq Command
        /\ TestTurn(n, "npm") \subseteq Command /\ NotificationTurn(n) \subseteq Command
    BY DEF PreBuildTurn, BuildTurn, TestTurn, NotificationTurn, Made, Command,
           PreBuildKinds, BuildKinds, PostBuildKinds
  <2>2. PreBuildCommands(n) \in Seq(Command)
    BY <1>1, <2>1, PreBuildMade
  <2>3. BuildCommands(n) \in Seq(Command)
    BY <1>1, <2>1, BuildMade
  <2>4. TestCommands(n) \in Seq(Command)
    BY <1>1, <2>1, TestMade
  <2>5. NotificationCommands(n) \in Seq(Command)
    BY <1>1, <2>1, NotificationMade
  <2>6. When(n.block = "test_custom", CustomTest(n)) \in Seq(Command)
    <3>1. n.block = "test_custom" => CustomTest(n) = TestCommands(n)
      BY TestMade
    <3>2. <<>> \in Seq(Command)
      OBVIOUS
    <3>. QED BY <2>4, <3>1, <3>2 DEF When
  <2>. QED BY <2>2, <2>3, <2>4, <2>5, <2>6
<1>. QED BY <1>2 DEF PreBuildTurns, BuildTurns, TestTurns, UtilityTurns, NotificationTurns

(* The group commands of a phase, as they stand in generateBuildSpec.           *)
LEMMA GroupsOf ==
  ASSUME NEW nodes \in Seq(Nodes)
  PROVE  /\ Of(Group(nodes, "prebuild"), PreBuildCommands) = GroupCommands(nodes, "prebuild", PreBuildTurns)
         /\ Of(Group(nodes, "build"), BuildCommands) = GroupCommands(nodes, "build", BuildTurns)
         /\ Of(Group(nodes, "test"), TestCommands) = GroupCommands(nodes, "test", TestTurns)
         /\ Of(Group(nodes, "utility"), LAMBDA n : When(n.block = "test_custom", CustomTest(n)))
              = GroupCommands(nodes, "utility", UtilityTurns)
         /\ Of(Group(nodes, "notification"), NotificationCommands)
              = GroupCommands(nodes, "notification", NotificationTurns)
<1>1. \A g : \A i \in DOMAIN Group(nodes, g) : Group(nodes, g)[i] \in Nodes
  <2>. TAKE g
  <2>1. Group(nodes, g) \in Seq(Nodes)
    BY GroupPlaced
  <2>. QED BY <2>1
<1>2. Of(Group(nodes, "prebuild"), PreBuildCommands) = GroupCommands(nodes, "prebuild", PreBuildTurns)
  <2>1. Turns(Group(nodes, "prebuild"), PreBuildTurns)
          = [i \in DOMAIN Group(nodes, "prebuild") |-> PreBuildCommands(Group(nodes, "prebuild")[i])]
    BY <1>1 DEF Turns, PreBuildTurns
  <2>. QED BY <2>1 DEF Of, GroupCommands
<1>3. Of(Group(nodes, "build"), BuildCommands) = GroupCommands(nodes, "build", BuildTurns)
  <2>1. Turns(Group(nodes, "build"), BuildTurns)
          = [i \in DOMAIN Group(nodes, "build") |-> BuildCommands(Group(nodes, "build")[i])]
    BY <1>1 DEF Turns, BuildTurns
  <2>. QED BY <2>1 DEF Of, GroupCommands
<1>4. Of(Group(nodes, "test"), TestCommands) = GroupCommands(nodes, "test", TestTurns)
  <2>1. Turns(Group(nodes, "test"), TestTurns)
          = [i \in DOMAIN Group(nodes, "test") |-> TestCommands(Group(nodes, "test")[i])]
    BY <1>1 DEF Turns, TestTurns
  <2>. QED BY <2>1 DEF Of, GroupCommands
<1>5. Of(Group(nodes, "utility"), LAMBDA n : When(n.block = "test_custom", CustomTest(n)))
        = GroupCommands(nodes, "utility", UtilityTurns)
  <2>. DEFINE group == Group(nodes, "utility")
  <2>1. Turns(group, UtilityTurns)
          = [i \in DOMAIN group |-> When(group[i].block = "test_custom", CustomTest(group[i]))]
    BY <1>1 DEF Turns, UtilityTurns
  <2>. QED BY <2>1 DEF Of, GroupCommands
<1>6. Of(Group(nodes, "notification"), NotificationCommands)
        = GroupCommands(nodes, "notification", NotificationTurns)
  <2>1. Turns(Group(nodes, "notification"), NotificationTurns)
          = [i \in DOMAIN Group(nodes, "notification") |-> NotificationCommands(Group(nodes, "notification")[i])]
    BY <1>1 DEF Turns, NotificationTurns
  <2>. QED BY <2>1 DEF Of, GroupCommands
<1>. QED BY <1>2, <1>3, <1>4, <1>5, <1>6

(* pre_build: nothing changes directory, and the manager of the first install   *)
(* node is fetched and a Dockerfile written.                                    *)
PreBuildFacts(nodes) ==
  /\ PreBuild(nodes) \in Seq(Command)
  /\ \A c \in ToSet(PreBuild(nodes)) :
       /\ c.what \in PreBuildKinds /\ c.in = Here
       /\ c.what = "dockerfile without start" => InstallManager(nodes) \notin Known
  /\ InstallManager(nodes) # "npm" =>
       \E c \in ToSet(PreBuild(nodes)) : c.what = "get manager" /\ c.with = InstallManager(nodes)
  /\ \E c \in ToSet(PreBuild(nodes)) :
       c.what \in {"dockerfile", "dockerfile without start"} /\ c.in = Here
  /\ \E off : Within(GroupCommands(nodes, "prebuild", PreBuildTurns), PreBuild(nodes), off)

(* They hold of every flow.                                                   *)
LEMMA PreBuildShape ==
  ASSUME NEW nodes \in Seq(Nodes) PROVE PreBuildFacts(nodes)
<1>. DEFINE version == NodeVersion(nodes)
            login == Own("login", "npm")
            name == Own("name", "npm")
            manager == GetManager(nodes)
            group == GroupCommands(nodes, "prebuild", PreBuildTurns)
            docker == DockerfileScript(nodes)
            head == version \o login \o name \o manager
            Fact(c) == /\ c.what \in PreBuildKinds /\ c.in = Here
                       /\ c.what = "dockerfile without start" => InstallManager(nodes) \notin Known
<1>1. <<>> \in Seq(Command) /\ ToSet(<<>>) = {} /\ "npm" \in Tools
  <2>1. DOMAIN <<>> = {}
    OBVIOUS
  <2>. QED BY <2>1 DEF ToSet, Tools
<1>2. version \in Seq(Command) /\ \A c \in ToSet(version) : Fact(c)
  <2>. DEFINE v == First(nodes, {"node_version"})
              c == [what |-> "node", with |-> "npm", in |-> Here, of |-> v]
  <2>1. v \in Nodes \cup {NoNode}
    BY FirstFound
  <2>2. c \in Command /\ Fact(c)
    <3>. HIDE DEF v
    <3>. QED BY <1>1, <2>1 DEF Command, PreBuildKinds
  <2>3. version = <<c>> \/ version = <<>>
    BY DEF NodeVersion, When, Does
  <2>. HIDE DEF c, version
  <2>4. <<c>> \in Seq(Command) /\ ToSet(<<c>>) = {c}
    <3>. HIDE DEF Fact
    <3>. QED BY <2>2, Singleton
  <2>. QED BY <1>1, <2>2, <2>3, <2>4
<1>3. login \in Seq(Command) /\ \A c \in ToSet(login) : Fact(c)
  <2>. DEFINE c == [what |-> "login", with |-> "npm", in |-> Here, of |-> NoNode]
  <2>1. "login" \in PreBuildKinds /\ Fact(c)
    BY DEF PreBuildKinds
  <2>2. login \in Seq(Command) /\ ToSet(login) = {c}
    BY <1>1, <2>1, OwnTyped
  <2>. HIDE DEF c
  <2>. QED BY <2>1, <2>2
<1>4. name \in Seq(Command) /\ \A c \in ToSet(name) : Fact(c)
  <2>. DEFINE c == [what |-> "name", with |-> "npm", in |-> Here, of |-> NoNode]
  <2>1. "name" \in PreBuildKinds /\ Fact(c)
    BY DEF PreBuildKinds
  <2>2. name \in Seq(Command) /\ ToSet(name) = {c}
    BY <1>1, <2>1, OwnTyped
  <2>. HIDE DEF c
  <2>. QED BY <2>1, <2>2
<1>5. /\ manager \in Seq(Command) /\ \A c \in ToSet(manager) : Fact(c)
      /\ InstallManager(nodes) # "npm" =>
           \E c \in ToSet(manager) : c.what = "get manager" /\ c.with = InstallManager(nodes)
  <2>. DEFINE get == Own("get manager", InstallManager(nodes))
              c == [what |-> "get manager", with |-> InstallManager(nodes), in |-> Here, of |-> NoNode]
  <2>1. get \in Seq(Command) /\ ToSet(get) = {c}
    BY InstallManagerTool, OwnTyped DEF PreBuildKinds
  <2>2. Fact(c) /\ c.what = "get manager" /\ c.with = InstallManager(nodes)
    BY DEF PreBuildKinds
  <2>3. manager = IF InstallManager(nodes) # "npm" THEN get ELSE <<>>
    BY DEF GetManager, When
  <2>. HIDE DEF get, c
  <2>. QED BY <1>1, <2>1, <2>2, <2>3
<1>6. group \in Seq(Command) /\ \A c \in ToSet(group) : Fact(c)
  <2>1. group \in Seq(Command)
    BY TurnsAreCommands, GroupTurns
  <2>2. ASSUME NEW c \in ToSet(group) PROVE Fact(c)
    <3>1. PICK n \in ToSet(nodes) : c \in ToSet(PreBuildTurns[n])
      BY TurnsAreCommands, GroupTurns
    <3>2. n \in Nodes
      BY DEF ToSet
    <3>3. c \in ToSet(PreBuildCommands(n)) /\ PreBuildCommands(n) \in Seq(PreBuildTurn(n))
      BY <3>1, <3>2, PreBuildMade DEF PreBuildTurns
    <3>4. c \in PreBuildTurn(n)
      BY <3>3 DEF ToSet
    <3>. QED BY <3>4 DEF PreBuildTurn, Made, PreBuildKinds
  <2>. HIDE DEF group
  <2>. QED BY <2>1, <2>2
<1>7. /\ docker \in Seq(Command) /\ \A c \in ToSet(docker) : Fact(c)
      /\ \E c \in ToSet(docker) : c.what \in {"dockerfile", "dockerfile without start"} /\ c.in = Here
  <2>. DEFINE what == IF InstallManager(nodes) \in Known THEN "dockerfile" ELSE "dockerfile without start"
              c == [what |-> what, with |-> InstallManager(nodes), in |-> Here, of |-> NoNode]
  <2>1. docker = Own(what, InstallManager(nodes))
    BY DEF DockerfileScript
  <2>2. what \in PreBuildKinds /\ what \in {"dockerfile", "dockerfile without start"}
    BY DEF PreBuildKinds
  <2>3. Fact(c)
    BY DEF PreBuildKinds
  <2>4. c.what \in {"dockerfile", "dockerfile without start"} /\ c.in = Here
    OBVIOUS
  <2>5. docker \in Seq(Command) /\ ToSet(docker) = {c}
    <3>1. InstallManager(nodes) \in Tools /\ what \in PreBuildKinds \cup BuildKinds \cup PostBuildKinds
      BY <2>2, InstallManagerTool
    <3>. HIDE DEF what
    <3>2. /\ Own(what, InstallManager(nodes)) \in Seq(Command)
          /\ ToSet(Own(what, InstallManager(nodes))) = {c}
      BY <3>1, OwnTyped
    <3>. HIDE DEF docker, c
    <3>. QED BY <2>1, <3>2
  <2>. HIDE DEF c
  <2>. QED BY <2>3, <2>4, <2>5
<1>8. PreBuild(nodes) = (head \o group) \o docker
  BY GroupsOf DEF PreBuild
<1>. HIDE DEF version, login, name, manager, group, docker
<1>9. /\ head \in Seq(Command) /\ \A c \in ToSet(head) : Fact(c)
      /\ InstallManager(nodes) # "npm" =>
           \E c \in ToSet(head) : c.what = "get manager" /\ c.with = InstallManager(nodes)
  <2>. DEFINE a == version \o login
              b == a \o name
  <2>. HIDE DEF Fact
  <2>1. a \in Seq(Command) /\ \A c \in ToSet(a) : Fact(c)
    BY <1>2, <1>3, ConcatElements
  <2>2. b \in Seq(Command) /\ \A c \in ToSet(b) : Fact(c)
    <3>. HIDE DEF a
    <3>. QED BY <1>4, <2>1, ConcatElements
  <2>3. head = b \o manager
    OBVIOUS
  <2>. HIDE DEF b
  <2>4. b \o manager \in Seq(Command) /\ ToSet(b \o manager) = ToSet(b) \cup ToSet(manager)
    BY <1>5, <2>2, ConcatElements
  <2>. HIDE DEF head
  <2>5. head \in Seq(Command) /\ ToSet(head) = ToSet(b) \cup ToSet(manager)
    BY <2>3, <2>4
  <2>. QED BY <1>5, <2>2, <2>5
<1>. DEFINE most == head \o group
<1>. HIDE DEF head, Fact
<1>10. most \in Seq(Command) /\ ToSet(most) = ToSet(head) \cup ToSet(group)
  BY <1>6, <1>9, ConcatElements
<1>11. Within(group, most, Len(head))
  BY <1>6, <1>9, ConcatWithin
<1>. HIDE DEF most
<1>12. PreBuild(nodes) = most \o docker
  BY <1>8 DEF most
<1>13. PreBuild(nodes) \in Seq(Command) /\ ToSet(PreBuild(nodes)) = ToSet(most) \cup ToSet(docker)
  <2>1. most \in Seq(Command) /\ docker \in Seq(Command)
    BY <1>7, <1>10
  <2>2. most \o docker \in Seq(Command) /\ ToSet(most \o docker) = ToSet(most) \cup ToSet(docker)
    BY <2>1, ConcatElements
  <2>. QED BY <1>12, <2>2
<1>14. \E off : Within(group, PreBuild(nodes), off)
  <2>1. Within(most, most \o docker, 0)
    BY <1>7, <1>10, ConcatWithin
  <2>2. Within(most, PreBuild(nodes), 0)
    BY <1>12, <2>1
  <2>3. Within(group, PreBuild(nodes), 0 + Len(head))
    BY <1>6, <1>10, <1>11, <1>13, <2>2, WithinWithin
  <2>. QED BY <2>3
<1>15. \A c \in ToSet(PreBuild(nodes)) : Fact(c)
  BY <1>6, <1>7, <1>9, <1>10, <1>13
<1>. QED BY <1>7, <1>9, <1>10, <1>13, <1>14, <1>15 DEF PreBuildFacts, Fact, group

(* build: plain nodes change no directory and use only npm and the manager      *)
(* pre_build fetched; the image is built before it is tagged.                   *)
AllPlain(nodes) == \A n \in ToSet(nodes) : PlainNode(n, InstallManager(nodes))

(* The facts about build.                                                     *)
BuildFacts(nodes) ==
  /\ Build(nodes) \in Seq(Command)
  /\ \A c \in ToSet(Build(nodes)) :
       /\ c.what \in BuildKinds
       /\ AllPlain(nodes) =>
            /\ c.in = Here /\ c.what \notin {"nonsense", "move", "script"}
            /\ c.what \in {"install", "bundle"} => c.with \in {"npm", InstallManager(nodes)}
  /\ \E c \in ToSet(Build(nodes)) : c.what = "docker build"
  /\ \E c \in ToSet(Build(nodes)) : c.what = "docker tag"
  /\ \A i \in DOMAIN Build(nodes) : Build(nodes)[i].what = "docker tag" =>
       \E j \in DOMAIN Build(nodes) : j < i /\ Build(nodes)[j].what = "docker build"
  /\ \E off : Within(GroupCommands(nodes, "build", BuildTurns), Build(nodes), off)

(* They hold of every flow.                                                   *)
LEMMA BuildShape ==
  ASSUME NEW nodes \in Seq(Nodes) PROVE BuildFacts(nodes)
<1>. DEFINE group == GroupCommands(nodes, "build", BuildTurns)
            db == Own("docker build", "npm")
            dt == Own("docker tag", "npm")
            cb == [what |-> "docker build", with |-> "npm", in |-> Here, of |-> NoNode]
            ct == [what |-> "docker tag", with |-> "npm", in |-> Here, of |-> NoNode]
            Fact(c) == /\ c.what \in BuildKinds
                       /\ AllPlain(nodes) =>
                            /\ c.in = Here /\ c.what \notin {"nonsense", "move", "script"}
                            /\ c.what \in {"install", "bundle"} => c.with \in {"npm", InstallManager(nodes)}
<1>1. /\ db \in Seq(Command) /\ ToSet(db) = {cb} /\ dt \in Seq(Command) /\ ToSet(dt) = {ct}
  <2>1. "npm" \in Tools /\ "docker build" \in BuildKinds /\ "docker tag" \in BuildKinds
    BY DEF Tools, BuildKinds
  <2>. QED BY <2>1, OwnTyped
<1>2. Fact(cb) /\ Fact(ct) /\ cb.what = "docker build" /\ ct.what = "docker tag"
  BY DEF BuildKinds
<1>3. /\ group \in Seq(Command)
      /\ \A c \in ToSet(group) : Fact(c) /\ c.what \notin {"docker build", "docker tag"}
  <2>1. group \in Seq(Command)
    BY TurnsAreCommands, GroupTurns
  <2>2. ASSUME NEW c \in ToSet(group) PROVE Fact(c) /\ c.what \notin {"docker build", "docker tag"}
    <3>1. PICK n \in ToSet(nodes) : c \in ToSet(BuildTurns[n])
      BY TurnsAreCommands, GroupTurns
    <3>2. n \in Nodes
      BY DEF ToSet
    <3>3. /\ c \in ToSet(BuildCommands(n))
          /\ BuildCommands(n) \in Seq(BuildTurn(n, InstallManager(nodes)))
      BY <3>1, <3>2, BuildMade DEF BuildTurns
    <3>4. c \in BuildTurn(n, InstallManager(nodes))
      BY <3>3 DEF ToSet
    <3>5. AllPlain(nodes) => PlainNode(n, InstallManager(nodes))
      BY DEF AllPlain
    <3>6. c.what \in {"install", "nonsense", "nothing", "bundle", "move", "script", "build"}
      BY <3>4 DEF BuildTurn, Made
    <3>7. PlainNode(n, InstallManager(nodes)) =>
            /\ c.in = Here /\ c.what \notin {"nonsense", "move", "script"}
            /\ c.what \in {"install", "bundle"} => c.with \in {"npm", InstallManager(nodes)}
      BY <3>4 DEF BuildTurn
    <3>. QED BY <3>5, <3>6, <3>7 DEF BuildKinds
  <2>. HIDE DEF group, Fact
  <2>. QED BY <2>1, <2>2
<1>4. Build(nodes) = group \o (db \o dt)
  BY GroupsOf DEF Build, DockerBuild
<1>. HIDE DEF group, db, dt, cb, ct, Fact
<1>. DEFINE most == group \o db
<1>5. Build(nodes) = most \o dt
  <2>1. group \in Seq(Command)
    BY <1>3
  <2>2. group \o (db \o dt) = (group \o db) \o dt
    BY <1>1, <2>1, ConcatAssociative
  <2>. QED BY <1>4, <2>2
<1>6. most \in Seq(Command) /\ ToSet(most) = ToSet(group) \cup {cb} /\ Within(group, most, 0)
  <2>1. group \in Seq(Command)
    BY <1>3
  <2>2. group \o db \in Seq(Command) /\ ToSet(group \o db) = ToSet(group) \cup ToSet(db)
    BY <1>1, <2>1, ConcatElements
  <2>3. Within(group, group \o db, 0)
    BY <1>1, <2>1, ConcatWithin
  <2>. QED BY <1>1, <2>2, <2>3
<1>. HIDE DEF most
<1>7. /\ most \o dt \in Seq(Command) /\ ToSet(most \o dt) = ToSet(most) \cup {ct}
      /\ Within(most, most \o dt, 0)
  <2>1. most \in Seq(Command)
    BY <1>6
  <2>2. most \o dt \in Seq(Command) /\ ToSet(most \o dt) = ToSet(most) \cup ToSet(dt)
    BY <1>1, <2>1, ConcatElements
  <2>3. Within(most, most \o dt, 0)
    BY <1>1, <2>1, ConcatWithin
  <2>. QED BY <1>1, <2>2, <2>3
<1>8. \E off : Within(group, Build(nodes), off)
  <2>1. Within(most, Build(nodes), 0) /\ Build(nodes) \in Seq(Command)
    BY <1>5, <1>7
  <2>2. group \in Seq(Command) /\ most \in Seq(Command) /\ Within(group, most, 0)
    BY <1>3, <1>6
  <2>3. Within(group, Build(nodes), 0 + 0)
    BY <2>1, <2>2, WithinWithin
  <2>. QED BY <2>3
<1>9. ASSUME NEW i \in DOMAIN Build(nodes), Build(nodes)[i].what = "docker tag"
      PROVE  \E j \in DOMAIN Build(nodes) : j < i /\ Build(nodes)[j].what = "docker build"
  <2>1. /\ most \in Seq(Command) /\ Build(nodes) \in Seq(Command) /\ cb \in ToSet(most)
        /\ Within(most, Build(nodes), 0)
    BY <1>5, <1>6, <1>7
  <2>2. \A c \in ToSet(most) : c.what # "docker tag"
    BY <1>2, <1>3, <1>6
  <2>3. Build(nodes)[i] \notin ToSet(most)
    BY <1>9, <2>2
  <2>4. \E j \in DOMAIN Build(nodes) : j < i /\ Build(nodes)[j] = cb
    BY <2>1, <2>3, FirstPart
  <2>. QED BY <1>2, <2>4
<1>10. \A c \in ToSet(Build(nodes)) : Fact(c)
  <2>1. ToSet(Build(nodes)) = (ToSet(group) \cup {cb}) \cup {ct}
    BY <1>5, <1>6, <1>7
  <2>. QED BY <1>2, <1>3, <2>1
<1>11. Build(nodes) \in Seq(Command) /\ cb \in ToSet(Build(nodes)) /\ ct \in ToSet(Build(nodes))
  BY <1>5, <1>6, <1>7
<1>. QED BY <1>2, <1>8, <1>9, <1>10, <1>11 DEF BuildFacts, Fact, group

(* post_build: every test before the push, every notification after the push    *)
(* and the definitions; plain tests change no directory and run no script.      *)
Tested(n) == n.group = "test" \/ (n.group = "utility" /\ n.block = "test_custom")

(* The facts about post_build.                                                *)
PostBuildFacts(nodes) ==
  /\ PostBuild(nodes) \in Seq(Command)
  /\ \A c \in ToSet(PostBuild(nodes)) :
       /\ c.what \in PostBuildKinds
       /\ AllPlain(nodes) => c.in = Here /\ c.what # "test script"
  /\ \E c \in ToSet(PostBuild(nodes)) : c.what = "push tag"
  /\ \E c \in ToSet(PostBuild(nodes)) : c.what = "definitions"
  /\ \A i \in DOMAIN PostBuild(nodes) : PostBuild(nodes)[i].what \in {"push latest", "push tag"} =>
       \A n \in ToSet(nodes) : Tested(n) => \A c \in ToSet(TestCommands(n)) :
         \E j \in DOMAIN PostBuild(nodes) : j < i /\ PostBuild(nodes)[j] = c /\ c.of = n
  /\ \A i \in DOMAIN PostBuild(nodes) : PostBuild(nodes)[i].what = "notify" =>
       \A what \in {"push latest", "push tag", "definitions"} :
         \E j \in DOMAIN PostBuild(nodes) : j < i /\ PostBuild(nodes)[j].what = what
  /\ \E off : Within(GroupCommands(nodes, "test", TestTurns), PostBuild(nodes), off)
  /\ \E off : Within(GroupCommands(nodes, "utility", UtilityTurns), PostBuild(nodes), off)
  /\ \E off : Within(GroupCommands(nodes, "notification", NotificationTurns), PostBuild(nodes), off)

(* The tests of both groups: each test command is there, of its node.         *)
LEMMA TestsShape ==
  ASSUME NEW nodes \in Seq(Nodes)
  PROVE  /\ Tests(nodes) \in Seq(Command)
         /\ \A c \in ToSet(Tests(nodes)) :
              /\ c.what \in {"test", "test script"}
              /\ AllPlain(nodes) => c.in = Here /\ c.what # "test script"
         /\ \A n \in ToSet(nodes) : Tested(n) => \A c \in ToSet(TestCommands(n)) :
              c \in ToSet(Tests(nodes)) /\ c.of = n
         /\ Within(GroupCommands(nodes, "test", TestTurns), Tests(nodes), 0)
         /\ \E off : Within(GroupCommands(nodes, "utility", UtilityTurns), Tests(nodes), off)
<1>. DEFINE a == GroupCommands(nodes, "test", TestTurns)
            b == GroupCommands(nodes, "utility", UtilityTurns)
            Fact(c) == /\ c.what \in {"test", "test script"}
                       /\ AllPlain(nodes) => c.in = Here /\ c.what # "test script"
<1>1. a \in Seq(Command) /\ b \in Seq(Command) /\ Tests(nodes) = a \o b
  <2>1. a \in Seq(Command) /\ b \in Seq(Command)
    BY TurnsAreCommands, GroupTurns
  <2>2. Tests(nodes) = a \o b
    BY GroupsOf DEF Tests
  <2>. QED BY <2>1, <2>2
<1>2. ASSUME NEW n \in ToSet(nodes)
      PROVE  /\ \A c \in ToSet(TestCommands(n)) : Fact(c) /\ c.of = n
             /\ ToSet(UtilityTurns[n]) \subseteq ToSet(TestCommands(n))
             /\ n.block = "test_custom" => UtilityTurns[n] = TestCommands(n)
             /\ TestTurns[n] = TestCommands(n)
  <2>1. n \in Nodes
    BY DEF ToSet
  <2>2. /\ TestCommands(n) \in Seq(TestTurn(n, InstallManager(nodes)))
        /\ n.block = "test_custom" => CustomTest(n) = TestCommands(n)
    BY <2>1, TestMade
  <2>3. AllPlain(nodes) => PlainNode(n, InstallManager(nodes))
    BY DEF AllPlain
  <2>4. ASSUME NEW c \in ToSet(TestCommands(n)) PROVE Fact(c) /\ c.of = n
    <3>1. c \in TestTurn(n, InstallManager(nodes))
      BY <2>2 DEF ToSet
    <3>2. c.what \in {"test", "test script"} /\ c.of = n
      BY <3>1 DEF TestTurn, Made
    <3>3. PlainNode(n, InstallManager(nodes)) => c.in = Here /\ c.what = "test"
      BY <3>1 DEF TestTurn
    <3>. QED BY <2>3, <3>2, <3>3
  <2>5. UtilityTurns[n] = IF n.block = "test_custom" THEN TestCommands(n) ELSE <<>>
    BY <2>1, <2>2 DEF UtilityTurns, When
  <2>6. ToSet(<<>>) = {}
    <3>1. DOMAIN <<>> = {}
      OBVIOUS
    <3>. QED BY <3>1 DEF ToSet
  <2>7. TestTurns[n] = TestCommands(n)
    BY <2>1 DEF TestTurns
  <2>. HIDE DEF Fact
  <2>. QED BY <2>4, <2>5, <2>6, <2>7
<1>3. /\ \A c \in ToSet(a) : \E n \in ToSet(nodes) : c \in ToSet(TestTurns[n])
      /\ \A n \in ToSet(nodes) : n.group = "test" => ToSet(TestTurns[n]) \subseteq ToSet(a)
  BY TurnsAreCommands, GroupTurns
<1>4. /\ \A c \in ToSet(b) : \E n \in ToSet(nodes) : c \in ToSet(UtilityTurns[n])
      /\ \A n \in ToSet(nodes) : n.group = "utility" => ToSet(UtilityTurns[n]) \subseteq ToSet(b)
  BY TurnsAreCommands, GroupTurns
<1>. HIDE DEF a, b, Fact
<1>5. Tests(nodes) \in Seq(Command) /\ ToSet(Tests(nodes)) = ToSet(a) \cup ToSet(b)
  <2>1. a \o b \in Seq(Command) /\ ToSet(a \o b) = ToSet(a) \cup ToSet(b)
    BY <1>1, ConcatElements
  <2>. QED BY <1>1, <2>1
<1>6. Within(a, Tests(nodes), 0) /\ Within(b, Tests(nodes), Len(a))
  BY <1>1, ConcatWithin
<1>7. \A c \in ToSet(Tests(nodes)) : Fact(c)
  BY <1>2, <1>3, <1>4, <1>5
<1>8. ASSUME NEW n \in ToSet(nodes), Tested(n), NEW c \in ToSet(TestCommands(n))
      PROVE  c \in ToSet(Tests(nodes)) /\ c.of = n
  BY <1>2, <1>3, <1>4, <1>5, <1>8 DEF Tested
<1>. QED BY <1>5, <1>6, <1>7, <1>8 DEF Fact, a, b

(* The push: both tags, then the definitions.                                   *)
LEMMA DockerPushShape ==
  /\ DockerPush \in Seq(Command)
  /\ \A c \in ToSet(DockerPush) : c.what \in {"push latest", "push tag", "definitions"} /\ c.in = Here
  /\ \A what \in {"push latest", "push tag", "definitions"} : \E c \in ToSet(DockerPush) : c.what = what
<1>. DEFINE pl == Own("push latest", "npm")
            pt == Own("push tag", "npm")
            pd == Own("definitions", "npm")
            cl == [what |-> "push latest", with |-> "npm", in |-> Here, of |-> NoNode]
            ct == [what |-> "push tag", with |-> "npm", in |-> Here, of |-> NoNode]
            cd == [what |-> "definitions", with |-> "npm", in |-> Here, of |-> NoNode]
<1>1. /\ pl \in Seq(Command) /\ ToSet(pl) = {cl} /\ pt \in Seq(Command) /\ ToSet(pt) = {ct}
      /\ pd \in Seq(Command) /\ ToSet(pd) = {cd}
  <2>1. /\ "npm" \in Tools /\ "push latest" \in PostBuildKinds /\ "push tag" \in PostBuildKinds
        /\ "definitions" \in PostBuildKinds
    BY DEF Tools, PostBuildKinds
  <2>. QED BY <2>1, OwnTyped
<1>2. /\ cl.what = "push latest" /\ ct.what = "push tag" /\ cd.what = "definitions"
      /\ cl.in = Here /\ ct.in = Here /\ cd.in = Here
  OBVIOUS
<1>3. DockerPush = (pl \o pt) \o pd
  BY DEF DockerPush
<1>. HIDE DEF pl, pt, pd, cl, ct, cd
<1>. DEFINE both == pl \o pt
<1>4. both \in Seq(Command) /\ ToSet(both) = {cl, ct}
  <2>1. pl \o pt \in Seq(Command) /\ ToSet(pl \o pt) = ToSet(pl) \cup ToSet(pt)
    BY <1>1, ConcatElements
  <2>. QED BY <1>1, <2>1
<1>5. DockerPush = both \o pd
  BY <1>3
<1>. HIDE DEF both
<1>6. DockerPush \in Seq(Command) /\ ToSet(DockerPush) = {cl, ct, cd}
  <2>1. both \o pd \in Seq(Command) /\ ToSet(both \o pd) = ToSet(both) \cup ToSet(pd)
    BY <1>1, <1>4, ConcatElements
  <2>. QED BY <1>1, <1>4, <1>5, <2>1
<1>. QED BY <1>2, <1>6

(* The facts hold of every flow.                                              *)
LEMMA PostBuildShape ==
  ASSUME NEW nodes \in Seq(Nodes) PROVE PostBuildFacts(nodes)
<1>. DEFINE tests == Tests(nodes)
            notes == GroupCommands(nodes, "notification", NotificationTurns)
            utility == GroupCommands(nodes, "utility", UtilityTurns)
            test == GroupCommands(nodes, "test", TestTurns)
            pushed == tests \o DockerPush
            all == PostBuild(nodes)
<1>1. tests \in Seq(Command) /\ DockerPush \in Seq(Command) /\ notes \in Seq(Command)
      /\ utility \in Seq(Command) /\ test \in Seq(Command)
  <2>1. notes \in Seq(Command) /\ utility \in Seq(Command) /\ test \in Seq(Command)
    BY TurnsAreCommands, GroupTurns
  <2>. QED BY <2>1, TestsShape, DockerPushShape
<1>2. ASSUME NEW c \in ToSet(notes) PROVE c.what = "notify" /\ c.in = Here
  <2>1. PICK n \in ToSet(nodes) : c \in ToSet(NotificationTurns[n])
    BY TurnsAreCommands, GroupTurns
  <2>2. n \in Nodes
    BY DEF ToSet
  <2>3. c \in ToSet(NotificationCommands(n)) /\ NotificationCommands(n) \in Seq(NotificationTurn(n))
    BY <2>1, <2>2, NotificationMade DEF NotificationTurns
  <2>4. c \in NotificationTurn(n)
    BY <2>3 DEF ToSet
  <2>. QED BY <2>4 DEF NotificationTurn, Made
<1>3. all = pushed \o notes
  BY GroupsOf DEF PostBuild
<1>4. /\ \A c \in ToSet(tests) :
           /\ c.what \in {"test", "test script"}
           /\ AllPlain(nodes) => c.in = Here /\ c.what # "test script"
      /\ \A n \in ToSet(nodes) : Tested(n) => \A c \in ToSet(TestCommands(n)) :
           c \in ToSet(tests) /\ c.of = n
      /\ Within(test, tests, 0)
      /\ \E off : Within(utility, tests, off)
  BY TestsShape
<1>. HIDE DEF tests, notes, utility, test, all
<1>5. /\ pushed \in Seq(Command) /\ ToSet(pushed) = ToSet(tests) \cup ToSet(DockerPush)
      /\ Within(tests, pushed, 0)
  BY <1>1, ConcatElements, ConcatWithin
<1>. HIDE DEF pushed
<1>6. /\ all \in Seq(Command) /\ ToSet(all) = (ToSet(tests) \cup ToSet(DockerPush)) \cup ToSet(notes)
      /\ Within(pushed, all, 0) /\ Within(notes, all, Len(pushed))
  <2>1. /\ pushed \o notes \in Seq(Command)
        /\ ToSet(pushed \o notes) = ToSet(pushed) \cup ToSet(notes)
    BY <1>1, <1>5, ConcatElements
  <2>2. Within(pushed, pushed \o notes, 0) /\ Within(notes, pushed \o notes, Len(pushed))
    BY <1>1, <1>5, ConcatWithin
  <2>. QED BY <1>3, <1>5, <2>1, <2>2
<1>7. Within(tests, all, 0)
  <2>1. Within(tests, all, 0 + 0)
    BY <1>1, <1>5, <1>6, WithinWithin
  <2>. QED BY <2>1
<1>8. /\ \E off : Within(test, all, off) /\ \E off2 : Within(utility, all, off2)
      /\ \E off3 : Within(notes, all, off3)
  <2>1. Within(test, all, 0 + 0)
    BY <1>1, <1>4, <1>6, <1>7, WithinWithin
  <2>2. PICK off : Within(utility, tests, off)
    BY <1>4
  <2>3. Within(utility, all, 0 + off)
    BY <1>1, <1>6, <1>7, <2>2, WithinWithin
  <2>. QED BY <1>6, <2>1, <2>3
<1>9. ASSUME NEW i \in DOMAIN all, all[i].what \in {"push latest", "push tag"},
             NEW n \in ToSet(nodes), Tested(n), NEW c \in ToSet(TestCommands(n))
      PROVE  \E j \in DOMAIN all : j < i /\ all[j] = c /\ c.of = n
  <2>1. all[i] \notin ToSet(tests)
    BY <1>4, <1>9
  <2>2. c \in ToSet(tests) /\ c.of = n
    BY <1>4, <1>9
  <2>3. \E j \in DOMAIN all : j < i /\ all[j] = c
    BY <1>1, <1>6, <1>7, <2>1, <2>2, FirstPart
  <2>. QED BY <2>2, <2>3
<1>10. ASSUME NEW k \in DOMAIN all, all[k] \notin ToSet(pushed), NEW x \in ToSet(pushed)
       PROVE  \E j \in DOMAIN all : j < k /\ all[j] = x
  BY <1>5, <1>6, <1>10, FirstPart
<1>11. ASSUME NEW i \in DOMAIN all, all[i].what = "notify",
              NEW what \in {"push latest", "push tag", "definitions"}
       PROVE  \E j \in DOMAIN all : j < i /\ all[j].what = what
  <2>1. \A c \in ToSet(pushed) : c.what # "notify"
    BY <1>4, <1>5, DockerPushShape
  <2>2. all[i] \notin ToSet(pushed)
    BY <1>11, <2>1
  <2>3. PICK c \in ToSet(pushed) : c.what = what
    BY <1>5, DockerPushShape
  <2>4. \E j \in DOMAIN all : j < i /\ all[j] = c
    BY <1>10, <2>2
  <2>. QED BY <2>3, <2>4
<1>12. ASSUME NEW c \in ToSet(all)
       PROVE  /\ c.what \in PostBuildKinds
              /\ AllPlain(nodes) => c.in = Here /\ c.what # "test script"
  BY <1>2, <1>4, <1>6, DockerPushShape DEF PostBuildKinds
<1>13. /\ \E c \in ToSet(all) : c.what = "push tag"
       /\ \E c \in ToSet(all) : c.what = "definitions"
  BY <1>6, DockerPushShape
<1>. QED BY <1>6, <1>8, <1>9, <1>11, <1>12, <1>13
         DEF PostBuildFacts, all, notes, utility, test

--------------------------------------------------------------------------------
(* The shell.                                                                   *)

(* The phases as a set.                                                       *)
LEMMA PhasesSet == ToSet(Phases) = {"pre_build", "build", "post_build", "ended"}
<1>1. Phases = <<"pre_build", "build", "post_build", "ended">>
  BY DEF Phases
<1>2. DOMAIN Phases = {1, 2, 3, 4}
  BY <1>1
<1>. QED BY <1>1, <1>2 DEF ToSet

(* The commands of a phase, for any flow.                                     *)
Script(nodes, p) ==
  CASE p = "pre_build" -> PreBuild(nodes)
    [] p = "build" -> Build(nodes)
    [] p = "post_build" -> PostBuild(nodes)
    [] p = "ended" -> <<>>

(* Each phase is a sequence of commands, of kinds no other phase has.           *)
LEMMA ScriptTyped ==
  ASSUME NEW nodes \in Seq(Nodes), NEW p \in ToSet(Phases)
  PROVE  /\ Script(nodes, p) \in Seq(Command) /\ Len(Script(nodes, p)) \in Nat
         /\ DOMAIN Script(nodes, p) = 1..Len(Script(nodes, p))
         /\ \A i \in DOMAIN Script(nodes, p) :
              /\ Script(nodes, p)[i] \in Command /\ Script(nodes, p)[i] \in ToSet(Script(nodes, p))
              /\ \/ p = "pre_build" /\ Script(nodes, p)[i].what \in PreBuildKinds
                 \/ p = "build" /\ Script(nodes, p)[i].what \in BuildKinds
                 \/ p = "post_build" /\ Script(nodes, p)[i].what \in PostBuildKinds
<1>. DEFINE s == Script(nodes, p)
            Kind(c) == \/ p = "pre_build" /\ c.what \in PreBuildKinds
                       \/ p = "build" /\ c.what \in BuildKinds
                       \/ p = "post_build" /\ c.what \in PostBuildKinds
<1>1. s \in Seq(Command) /\ \A c \in ToSet(s) : Kind(c)
  <2>1. CASE p = "pre_build"
    BY <2>1, PreBuildShape DEF Script, PreBuildFacts
  <2>2. CASE p = "build"
    BY <2>2, BuildShape DEF Script, BuildFacts
  <2>3. CASE p = "post_build"
    BY <2>3, PostBuildShape DEF Script, PostBuildFacts
  <2>4. CASE p = "ended"
    <3>1. s = <<>>
      BY <2>4 DEF Script
    <3>2. <<>> \in Seq(Command) /\ DOMAIN <<>> = {}
      OBVIOUS
    <3>3. ToSet(<<>>) = {}
      BY <3>2 DEF ToSet
    <3>. HIDE DEF s
    <3>. QED BY <3>1, <3>2, <3>3
  <2>. QED BY <2>1, <2>2, <2>3, <2>4, PhasesSet
<1>. HIDE DEF s, Kind
<1>2. Len(s) \in Nat /\ DOMAIN s = 1..Len(s) /\ \A i \in DOMAIN s : s[i] \in Command /\ s[i] \in ToSet(s)
  BY <1>1 DEF ToSet
<1>. QED BY <1>1, <1>2 DEF s, Kind

(* A record of a command that ran, and a stretch of them that a script gave.    *)
Matches(d, c) == d.what = c.what /\ d.with = c.with /\ d.of = c.of

(* From off on, the first k commands of s ran.                                *)
Follows(ran, off, s, k) ==
  /\ off \in Nat /\ off + k <= Len(ran)
  /\ \A i \in 1..k : Matches(ran[off + i], s[i])

(* What is recorded of a command that ran.                                    *)
Record == [what : PreBuildKinds \cup BuildKinds \cup PostBuildKinds, with : Tools,
           of : Nodes \cup {NoNode}, dir : Dirs]

(* The types.                                                                 *)
ShellTypes ==
  /\ flow \in Seq(Nodes) /\ Len(flow) <= MaxNodes
  /\ packages \subseteq Dirs /\ dockerfiles \subseteq Dirs /\ scripts \subseteq packages /\ cwd \in Dirs
  /\ phase \in ToSet(Phases) /\ at \in 1..(Len(Script(flow, phase)) + 1)
  /\ done \in Seq(Record)
  /\ failed \subseteq ToSet(Phases) /\ failures \in 0..MaxFailures

(* The phase under way has run its first at - 1 commands, and nothing since.  *)
Current ==
  \E off : Follows(done, off, Script(flow, phase), at - 1) /\ off + (at - 1) = Len(done)

(* A script that ran from its first command to its last.                      *)
Whole(s) == \E off : Follows(done, off, s, Len(s))

(* A shell without a failure has run every phase before its own.              *)
Through ==
  failed = {} =>
    /\ phase \in {"build", "post_build", "ended"} => Whole(PreBuild(flow))
    /\ phase \in {"post_build", "ended"} => Whole(Build(flow))
    /\ phase = "ended" => Whole(PostBuild(flow))

(* A plain flow whose image builds fails only by itself, never leaves the root. *)
StaysPlain ==
  (failures = 0 /\ AllPlain(flow) /\ ImageBuilds(<<>>)) =>
    failed = {} /\ cwd = <<>> /\ \A i \in DOMAIN done : done[i].dir = <<>>

(* A Dockerfile lacks its start only for a manager the generator does not     *)
(* know.                                                                      *)
Started ==
  Ran("dockerfile without start") => InstallManager(flow) \notin Known

(* The inductive invariant of the shell.                                      *)
ShellInv ==
  ShellTypes /\ Current /\ Through /\ StaysPlain /\ Started /\ PushedIsTested /\ ToldIsPushed

(* The commands of the phase under way, now and after a step.                 *)
LEMMA CommandsScript ==
  /\ Commands(phase) = Script(flow, phase)
  /\ Commands(phase)' = Script(flow', phase')
BY DEF Commands, Script

(* What a stretch holds, it held once more ran; and the next command extends    *)
(* it.                                                                          *)
LEMMA FollowsGrows ==
  ASSUME NEW ran \in Seq(Record), NEW d \in Record, NEW off, NEW s, NEW k \in Nat,
         Follows(ran, off, s, k)
  PROVE  /\ Follows(Append(ran, d), off, s, k)
         /\ off + k = Len(ran) /\ Matches(d, s[k + 1]) =>
              Follows(Append(ran, d), off, s, k + 1) /\ off + (k + 1) = Len(Append(ran, d))
<1>. DEFINE more == Append(ran, d)
<1>1. /\ Len(ran) \in Nat /\ Len(more) = Len(ran) + 1 /\ more[Len(ran) + 1] = d
      /\ \A i \in 1..Len(ran) : more[i] = ran[i]
  OBVIOUS
<1>. HIDE DEF more
<1>2. off \in Nat /\ off + k <= Len(ran) /\ \A i \in 1..k : Matches(ran[off + i], s[i])
  BY DEF Follows
<1>3. \A i \in 1..k : off + i \in 1..Len(ran) /\ more[off + i] = ran[off + i]
  BY <1>1, <1>2
<1>4. Follows(more, off, s, k)
  BY <1>1, <1>2, <1>3 DEF Follows
<1>5. ASSUME off + k = Len(ran), Matches(d, s[k + 1])
      PROVE  Follows(more, off, s, k + 1) /\ off + (k + 1) = Len(more)
  <2>1. off + (k + 1) = Len(ran) + 1
    BY <1>1, <1>2, <1>5
  <2>2. ASSUME NEW i \in 1..(k + 1) PROVE Matches(more[off + i], s[i])
    <3>1. CASE i = k + 1
      BY <1>1, <1>5, <2>1, <3>1
    <3>2. CASE i # k + 1
      <4>1. i \in 1..k
        BY <3>2
      <4>. QED BY <1>2, <1>3, <4>1
    <3>. QED BY <3>1, <3>2
  <2>. QED BY <1>1, <1>2, <2>1, <2>2 DEF Follows
<1>. QED BY <1>4, <1>5 DEF more

(* Every command of a stretch is on record.                                     *)
LEMMA FollowsRecords ==
  ASSUME NEW ran \in Seq(Record), NEW off, NEW s, NEW k \in Nat, Follows(ran, off, s, k),
         NEW i \in 1..k
  PROVE  off + i \in DOMAIN ran /\ Matches(ran[off + i], s[i])
<1>1. Len(ran) \in Nat /\ DOMAIN ran = 1..Len(ran)
  OBVIOUS
<1>2. off \in Nat /\ off + k <= Len(ran)
  BY DEF Follows
<1>. QED BY <1>1, <1>2 DEF Follows

(* Every command of a script that ran whole is recorded.                      *)
LEMMA WholeRecords ==
  ASSUME ShellTypes, NEW s \in Seq(Command), Whole(s), NEW c \in ToSet(s)
  PROVE  \E i \in DOMAIN done : Matches(done[i], c)
<1>1. PICK off : Follows(done, off, s, Len(s))
  BY DEF Whole
<1>2. PICK i \in 1..Len(s) : c = s[i]
  BY DEF ToSet
<1>3. Len(s) \in Nat /\ done \in Seq(Record)
  BY DEF ShellTypes
<1>4. off + i \in DOMAIN done /\ Matches(done[off + i], s[i])
  BY <1>1, <1>2, <1>3, FollowsRecords
<1>. QED BY <1>2, <1>4

(* Every command before the next one is recorded.                             *)
LEMMA CurrentRecords ==
  ASSUME ShellTypes, Current, NEW j \in 1..(at - 1)
  PROVE  \E i \in DOMAIN done : Matches(done[i], Script(flow, phase)[j])
<1>1. PICK off : Follows(done, off, Script(flow, phase), at - 1)
  BY DEF Current
<1>2. Len(Script(flow, phase)) \in Nat
  BY ScriptTyped DEF ShellTypes
<1>3. at - 1 \in Nat /\ done \in Seq(Record)
  BY <1>2 DEF ShellTypes
<1>4. off + j \in DOMAIN done /\ Matches(done[off + j], Script(flow, phase)[j])
  BY <1>1, <1>3, FollowsRecords
<1>. QED BY <1>4

--------------------------------------------------------------------------------
(* The command that is next.                                                    *)
LEMMA NextCommand ==
  ASSUME ShellTypes, at <= Len(Script(flow, phase))
  PROVE  LET c == Script(flow, phase)[at]
         IN  /\ at \in DOMAIN Script(flow, phase) /\ at \in Nat /\ at - 1 \in Nat
             /\ \A j \in DOMAIN Script(flow, phase) : j < at => j \in 1..(at - 1)
             /\ c \in Command /\ c \in ToSet(Script(flow, phase))
             /\ \/ phase = "pre_build" /\ c.what \in PreBuildKinds
                \/ phase = "build" /\ c.what \in BuildKinds
                \/ phase = "post_build" /\ c.what \in PostBuildKinds
<1>1. flow \in Seq(Nodes) /\ phase \in ToSet(Phases) /\ at \in 1..(Len(Script(flow, phase)) + 1)
  BY DEF ShellTypes
<1>2. /\ Len(Script(flow, phase)) \in Nat /\ DOMAIN Script(flow, phase) = 1..Len(Script(flow, phase))
      /\ \A i \in DOMAIN Script(flow, phase) :
           /\ Script(flow, phase)[i] \in Command /\ Script(flow, phase)[i] \in ToSet(Script(flow, phase))
           /\ \/ phase = "pre_build" /\ Script(flow, phase)[i].what \in PreBuildKinds
              \/ phase = "build" /\ Script(flow, phase)[i].what \in BuildKinds
              \/ phase = "post_build" /\ Script(flow, phase)[i].what \in PostBuildKinds
  BY <1>1, ScriptTyped
<1>3. at \in DOMAIN Script(flow, phase) /\ at \in Nat /\ at - 1 \in Nat
  BY <1>1, <1>2
<1>4. \A j \in DOMAIN Script(flow, phase) : j < at => j \in 1..(at - 1)
  BY <1>2, <1>3
<1>. QED BY <1>2, <1>3, <1>4

(* In a plain flow whose shell did not fail, the next command works.            *)
LEMMA PlainWorks ==
  ASSUME ShellTypes, Current, Through, StaysPlain, failures = 0, AllPlain(flow), ImageBuilds(<<>>),
         at <= Len(Script(flow, phase))
  PROVE  /\ Works(Script(flow, phase)[at])
         /\ Directory(Script(flow, phase)[at]) = <<>>
<1>. DEFINE c == Script(flow, phase)[at]
<1>1. flow \in Seq(Nodes) /\ failed = {} /\ cwd = <<>> /\ \A i \in DOMAIN done : done[i].dir = <<>>
  BY DEF ShellTypes, StaysPlain
<1>2. /\ c \in Command /\ c \in ToSet(Script(flow, phase)) /\ at - 1 \in Nat /\ at \in Nat
      /\ at \in DOMAIN Script(flow, phase)
      /\ \A j \in DOMAIN Script(flow, phase) : j < at => j \in 1..(at - 1)
      /\ \/ phase = "pre_build" /\ c.what \in PreBuildKinds
         \/ phase = "build" /\ c.what \in BuildKinds
         \/ phase = "post_build" /\ c.what \in PostBuildKinds
  BY NextCommand
<1>3. /\ phase = "pre_build" => Script(flow, phase) = PreBuild(flow)
      /\ phase = "build" => Script(flow, phase) = Build(flow)
      /\ phase = "post_build" => Script(flow, phase) = PostBuild(flow)
  BY DEF Script
<1>4. PreBuildFacts(flow) /\ BuildFacts(flow) /\ PostBuildFacts(flow)
  BY <1>1, PreBuildShape, BuildShape, PostBuildShape
<1>. HIDE DEF c
<1>5. c.in = Here
  BY <1>2, <1>3, <1>4 DEF PreBuildFacts, BuildFacts, PostBuildFacts
<1>6. Directory(c) = <<>>
  BY <1>1, <1>5 DEF Directory
<1>7. c.what \notin {"nonsense", "move", "script", "test script"}
  <2>1. CASE phase = "pre_build"
    BY <1>2, <2>1 DEF PreBuildKinds
  <2>2. CASE phase = "build"
    <3>1. c.what \notin {"nonsense", "move", "script"}
      BY <1>2, <1>3, <1>4, <2>2 DEF BuildFacts
    <3>. QED BY <1>2, <2>2, <3>1 DEF BuildKinds
  <2>3. CASE phase = "post_build"
    <3>1. c.what # "test script"
      BY <1>2, <1>3, <1>4, <2>3 DEF PostBuildFacts
    <3>. QED BY <1>2, <2>3, <3>1 DEF PostBuildKinds
  <2>. QED BY <1>2, <2>1, <2>2, <2>3
<1>8. c.what \in {"install", "bundle"} => Installed(c.with)
  <2>. SUFFICES ASSUME c.what \in {"install", "bundle"}, c.with # "npm"
                PROVE  \E i \in DOMAIN done : done[i].what = "get manager" /\ done[i].with = c.with
    BY DEF Installed
  <2>1. phase = "build"
    BY <1>2 DEF PreBuildKinds, PostBuildKinds
  <2>2. c.with = InstallManager(flow)
    BY <1>2, <1>3, <1>4, <2>1 DEF BuildFacts
  <2>3. PICK get \in ToSet(PreBuild(flow)) : get.what = "get manager" /\ get.with = InstallManager(flow)
    BY <1>4, <2>2 DEF PreBuildFacts
  <2>4. Whole(PreBuild(flow)) /\ PreBuild(flow) \in Seq(Command)
    BY <1>1, <1>4, <2>1 DEF Through, PreBuildFacts
  <2>5. PICK i \in DOMAIN done : Matches(done[i], get)
    BY <2>3, <2>4, WholeRecords
  <2>. QED BY <2>2, <2>3, <2>5 DEF Matches
<1>9. c.what = "docker build" => HasDockerfile(<<>>)
  <2>. SUFFICES ASSUME c.what = "docker build" PROVE HasDockerfile(<<>>)
    OBVIOUS
  <2>1. phase = "build"
    BY <1>2 DEF PreBuildKinds, PostBuildKinds
  <2>2. PICK file \in ToSet(PreBuild(flow)) : file.what \in {"dockerfile", "dockerfile without start"}
    BY <1>4 DEF PreBuildFacts
  <2>3. Whole(PreBuild(flow)) /\ PreBuild(flow) \in Seq(Command)
    BY <1>1, <1>4, <2>1 DEF Through, PreBuildFacts
  <2>4. PICK i \in DOMAIN done : Matches(done[i], file)
    BY <2>3, WholeRecords
  <2>. QED BY <1>1, <2>2, <2>4 DEF Matches, HasDockerfile
<1>10. c.what = "docker tag" => Ran("docker build")
  <2>. SUFFICES ASSUME c.what = "docker tag" PROVE Ran("docker build")
    OBVIOUS
  <2>1. phase = "build"
    BY <1>2 DEF PreBuildKinds, PostBuildKinds
  <2>2. at \in DOMAIN Build(flow) /\ Build(flow)[at].what = "docker tag"
    BY <1>2, <1>3, <2>1 DEF c
  <2>3. PICK j \in DOMAIN Build(flow) : j < at /\ Build(flow)[j].what = "docker build"
    BY <1>4, <2>2 DEF BuildFacts
  <2>4. j \in 1..(at - 1)
    BY <1>2, <1>3, <2>1, <2>3
  <2>5. PICK i \in DOMAIN done : Matches(done[i], Script(flow, phase)[j])
    BY <2>4, CurrentRecords
  <2>. QED BY <1>3, <2>1, <2>3, <2>5 DEF Matches, Ran
<1>11. /\ c.what = "push latest" => Ran("docker build")
       /\ c.what = "push tag" => Ran("docker tag")
  <2>. SUFFICES ASSUME c.what \in {"push latest", "push tag"} PROVE Ran("docker build") /\ Ran("docker tag")
    OBVIOUS
  <2>1. phase = "post_build"
    BY <1>2 DEF PreBuildKinds, BuildKinds
  <2>2. Whole(Build(flow)) /\ Build(flow) \in Seq(Command)
    BY <1>1, <1>4, <2>1 DEF Through, BuildFacts
  <2>3. PICK b \in ToSet(Build(flow)) : b.what = "docker build"
    BY <1>4 DEF BuildFacts
  <2>4. PICK t \in ToSet(Build(flow)) : t.what = "docker tag"
    BY <1>4 DEF BuildFacts
  <2>5. (\E i \in DOMAIN done : Matches(done[i], b)) /\ (\E i \in DOMAIN done : Matches(done[i], t))
    BY <2>2, WholeRecords
  <2>. QED BY <2>3, <2>4, <2>5 DEF Matches, Ran
<1>12. Directory(c) \in Dirs
  BY <1>6, BuildspecAssumption
<1>. QED BY <1>6, <1>7, <1>8, <1>9, <1>10, <1>11, <1>12 DEF Works, c

(* The invariant holds when the build starts.                                 *)
LEMMA ShellStarts == ShellInit => ShellInv
<1>. SUFFICES ASSUME ShellInit PROVE ShellInv
  OBVIOUS
<1>1. flow \in Seq(Nodes) /\ Len(flow) <= MaxNodes
  <2>1. PICK k \in 0..MaxNodes : flow \in [1..k -> Nodes]
    BY DEF ShellInit
  <2>2. k \in Nat /\ k <= MaxNodes
    BY BuildspecAssumption
  <2>3. \A R, s : \A n \in Nat : s \in [1..n -> R] => s \in Seq(R) /\ Len(s) = n
    OBVIOUS
  <2>. QED BY <2>1, <2>2, <2>3
<1>2. done = <<>> /\ done \in Seq(Record) /\ Len(done) = 0 /\ DOMAIN done = {}
  <2>1. done = <<>>
    BY DEF ShellInit
  <2>. QED BY <2>1
<1>3. phase = "pre_build" /\ phase \in ToSet(Phases) /\ at = 1 /\ cwd = <<>> /\ failed = {} /\ failures = 0
  BY PhasesSet DEF ShellInit
<1>4. ShellTypes
  <2>1. Len(Script(flow, phase)) \in Nat
    BY <1>1, <1>3, ScriptTyped
  <2>. QED BY <1>1, <1>2, <1>3, <2>1, BuildspecAssumption DEF ShellTypes, ShellInit
<1>5. Current
  <2>1. Follows(done, 0, Script(flow, phase), 0) /\ 0 + 0 = Len(done) /\ at - 1 = 0
    BY <1>2, <1>3 DEF Follows
  <2>. QED BY <2>1 DEF Current
<1>6. Through
  BY <1>3 DEF Through
<1>. QED BY <1>2, <1>3, <1>4, <1>5, <1>6
         DEF ShellInv, StaysPlain, Started, Ran, PushedIsTested, ToldIsPushed

(* A repository stays as it is, and what builds of it.                        *)
LEMMA SameImage ==
  ASSUME repository' = repository, flow' = flow
  PROVE  /\ ImageBuilds(<<>>)' <=> ImageBuilds(<<>>)
         /\ packages' = packages /\ dockerfiles' = dockerfiles /\ scripts' = scripts
<1>1. packages' = packages /\ dockerfiles' = dockerfiles /\ scripts' = scripts
  BY DEF repository
<1>. QED BY <1>1 DEF ImageBuilds

(* A command that runs.                                                         *)
LEMMA RunKeeps ==
  ASSUME ShellInv, RunCommand
  PROVE  ShellInv'
<1>. DEFINE c == Script(flow, phase)[at]
            d == [what |-> c.what, with |-> c.with, of |-> c.of, dir |-> Directory(c)]
            n == Len(done)
<1>1. /\ flow \in Seq(Nodes) /\ phase \in ToSet(Phases) /\ done \in Seq(Record)
      /\ cwd \in Dirs /\ failed \subseteq ToSet(Phases) /\ failures \in 0..MaxFailures
  BY DEF ShellInv, ShellTypes
<1>2. Commands(phase) = Script(flow, phase)
  BY CommandsScript
<1>3. /\ at <= Len(Script(flow, phase)) /\ Works(c) /\ cwd' = Directory(c) /\ done' = Append(done, d)
      /\ at' = at + 1 /\ flow' = flow /\ repository' = repository
      /\ phase' = phase /\ failed' = failed /\ failures' = failures
  BY <1>2 DEF RunCommand, repository
<1>4. Directory(c) \in Dirs
  BY <1>3 DEF Works
<1>5. /\ c \in Command /\ c \in ToSet(Script(flow, phase)) /\ at - 1 \in Nat /\ at \in Nat
      /\ at \in DOMAIN Script(flow, phase)
      /\ \A j \in DOMAIN Script(flow, phase) : j < at => j \in 1..(at - 1)
      /\ \/ phase = "pre_build" /\ c.what \in PreBuildKinds
         \/ phase = "build" /\ c.what \in BuildKinds
         \/ phase = "post_build" /\ c.what \in PostBuildKinds
  BY <1>3, NextCommand DEF ShellInv
<1>6. d \in Record
  BY <1>4, <1>5 DEF Command, Record
<1>7. d.what = c.what /\ d.with = c.with /\ d.of = c.of /\ d.dir = Directory(c)
  OBVIOUS
<1>8. PreBuildFacts(flow) /\ BuildFacts(flow) /\ PostBuildFacts(flow)
  BY <1>1, PreBuildShape, BuildShape, PostBuildShape
<1>9. /\ phase = "pre_build" => Script(flow, phase) = PreBuild(flow)
      /\ phase = "build" => Script(flow, phase) = Build(flow)
      /\ phase = "post_build" => Script(flow, phase) = PostBuild(flow)
  BY DEF Script
<1>10. Len(Script(flow, phase)) \in Nat /\ DOMAIN Script(flow, phase) = 1..Len(Script(flow, phase))
  BY <1>1, ScriptTyped
<1>. HIDE DEF c, d
<1>11. /\ n \in Nat /\ DOMAIN done = 1..n /\ DOMAIN done' = 1..(n + 1) /\ Len(done') = n + 1
       /\ done' \in Seq(Record) /\ done'[n + 1] = d
       /\ \A i \in 1..n : done'[i] = done[i]
       /\ \A i \in DOMAIN done' : i \in 1..n \/ i = n + 1
       /\ \A i \in 1..n : \A j \in 1..(i - 1) : j \in 1..n
       /\ (n + 1) - 1 = n /\ \A k \in DOMAIN done : k \in DOMAIN done' /\ done'[k] = done[k]
  BY <1>1, <1>3, <1>6
<1>. HIDE DEF n
<1>12. ShellTypes'
  <2>1. at' \in 1..(Len(Script(flow, phase)) + 1)
    BY <1>3, <1>5, <1>10
  <2>2. at' \in 1..(Len(Script(flow', phase')) + 1)
    BY <1>3, <2>1
  <2>. QED BY <1>3, <1>4, <1>11, <2>2, SameImage DEF ShellInv, ShellTypes
<1>13. ASSUME NEW s \in Seq(Command), Whole(s) PROVE Whole(s)'
  <2>1. PICK off : Follows(done, off, s, Len(s))
    BY <1>13 DEF Whole
  <2>2. Follows(done', off, s, Len(s))
    BY <1>1, <1>3, <1>6, <2>1, FollowsGrows
  <2>. QED BY <2>2 DEF Whole
<1>14. Through'
  <2>1. PreBuild(flow) \in Seq(Command) /\ Build(flow) \in Seq(Command) /\ PostBuild(flow) \in Seq(Command)
    BY <1>8 DEF PreBuildFacts, BuildFacts, PostBuildFacts
  <2>2. /\ Whole(PreBuild(flow)) => Whole(PreBuild(flow))'
        /\ Whole(Build(flow)) => Whole(Build(flow))'
        /\ Whole(PostBuild(flow)) => Whole(PostBuild(flow))'
    <3>1. /\ Whole(PreBuild(flow)) => \E off : Follows(done', off, PreBuild(flow), Len(PreBuild(flow)))
          /\ Whole(Build(flow)) => \E off : Follows(done', off, Build(flow), Len(Build(flow)))
          /\ Whole(PostBuild(flow)) => \E off : Follows(done', off, PostBuild(flow), Len(PostBuild(flow)))
      BY <1>1, <1>3, <1>6, <2>1, FollowsGrows DEF Whole
    <3>. QED BY <1>3, <3>1 DEF Whole
  <2>. QED BY <1>3, <2>2 DEF ShellInv, Through
<1>15. Current'
  <2>1. PICK off : Follows(done, off, Script(flow, phase), at - 1) /\ off + (at - 1) = n
    BY DEF ShellInv, Current, n
  <2>2. (at - 1) + 1 = at /\ at' - 1 = at
    BY <1>3, <1>5
  <2>3. Matches(d, Script(flow, phase)[at])
    BY <1>7 DEF Matches, c
  <2>4. Follows(done', off, Script(flow, phase), at) /\ off + at = Len(done')
    BY <1>1, <1>3, <1>5, <1>6, <2>1, <2>2, <2>3, FollowsGrows DEF n
  <2>. QED BY <1>3, <2>2, <2>4 DEF Current
<1>16. StaysPlain'
  <2>. SUFFICES ASSUME failures' = 0, AllPlain(flow'), ImageBuilds(<<>>)'
                PROVE  failed' = {} /\ cwd' = <<>> /\ \A i \in DOMAIN done' : done'[i].dir = <<>>
    BY DEF StaysPlain
  <2>1. failed = {} /\ cwd = <<>> /\ \A i \in DOMAIN done : done[i].dir = <<>>
    BY <1>3, SameImage DEF ShellInv, StaysPlain
  <2>2. Directory(c) = <<>>
    BY <1>3, SameImage, PlainWorks DEF ShellInv, c
  <2>3. d.dir = <<>>
    BY <1>7, <2>2
  <2>4. ASSUME NEW i \in DOMAIN done' PROVE done'[i].dir = <<>>
    <3>1. i = n + 1 \/ i \in 1..n
      BY <1>11
    <3>. QED BY <1>11, <2>1, <2>3, <3>1
  <2>. QED BY <1>3, <2>1, <2>2, <2>4
<1>17. Started'
  <2>. SUFFICES ASSUME NEW i \in DOMAIN done', done'[i].what = "dockerfile without start"
                PROVE  InstallManager(flow) \notin Known
    BY <1>3 DEF Started, Ran
  <2>1. CASE i \in 1..n
    BY <1>11, <2>1 DEF ShellInv, Started, Ran
  <2>2. CASE i \notin 1..n
    <3>1. i = n + 1
      BY <1>11, <2>2
    <3>2. c.what = "dockerfile without start"
      BY <1>7, <1>11, <3>1
    <3>3. phase = "pre_build"
      BY <1>5, <3>2 DEF BuildKinds, PostBuildKinds
    <3>. QED BY <1>5, <1>8, <1>9, <3>2, <3>3 DEF PreBuildFacts
  <2>. QED BY <2>1, <2>2
<1>20. \A k \in DOMAIN PostBuild(flow) : PostBuild(flow)[k].what \in {"push latest", "push tag"} =>
         \A m \in ToSet(flow) : Tested(m) => \A t \in ToSet(TestCommands(m)) :
           \E j \in DOMAIN PostBuild(flow) : j < k /\ PostBuild(flow)[j] = t /\ t.of = m
  BY <1>8 DEF PostBuildFacts
<1>18. PushedIsTested'
  <2>. SUFFICES ASSUME NEW i \in DOMAIN done', done'[i].what \in {"push latest", "push tag"},
                       NEW m \in ToSet(flow), Tested(m), NEW t \in ToSet(TestCommands(m))
                PROVE  \E j \in 1..(i - 1) : done'[j].of = m /\ done'[j].what = t.what
    BY <1>3 DEF PushedIsTested, TestedBefore, Tested
  <2>1. CASE i \in 1..n
    <3>1. i \in DOMAIN done /\ done[i].what \in {"push latest", "push tag"}
      BY <1>11, <2>1
    <3>2. PICK j \in 1..(i - 1) : done[j].of = m /\ done[j].what = t.what
      BY <3>1 DEF ShellInv, PushedIsTested, TestedBefore, Tested
    <3>3. done'[j] = done[j]
      BY <1>11, <2>1
    <3>. QED BY <3>2, <3>3
  <2>2. CASE i \notin 1..n
    <3>1. i = n + 1 /\ i - 1 = n
      BY <1>11, <2>2
    <3>2. c.what \in {"push latest", "push tag"}
      BY <1>7, <1>11, <3>1
    <3>3. phase = "post_build"
      BY <1>5, <3>2 DEF PreBuildKinds, BuildKinds
    <3>4. at \in DOMAIN PostBuild(flow) /\ PostBuild(flow)[at].what \in {"push latest", "push tag"}
      BY <1>5, <1>9, <3>2, <3>3 DEF c
    <3>5. PICK j \in DOMAIN PostBuild(flow) : j < at /\ PostBuild(flow)[j] = t /\ t.of = m
      BY <1>20, <3>4
    <3>6. j \in 1..(at - 1)
      BY <1>5, <1>9, <3>3, <3>5
    <3>7. PICK k \in DOMAIN done : Matches(done[k], Script(flow, phase)[j])
      BY <3>6, CurrentRecords DEF ShellInv
    <3>8. done[k].of = m /\ done[k].what = t.what /\ k \in 1..n /\ done'[k] = done[k]
      BY <1>9, <1>11, <3>3, <3>5, <3>7 DEF Matches
    <3>. QED BY <3>1, <3>8
  <2>. QED BY <2>1, <2>2
<1>19. ToldIsPushed'
  <2>. SUFFICES ASSUME NEW i \in DOMAIN done', done'[i].what = "notify"
                PROVE  Ran("push latest")' /\ Ran("push tag")' /\ Ran("definitions")'
    BY DEF ToldIsPushed, Ran
  <2>2. CASE i \in 1..n
    <3>1. Ran("notify")
      BY <1>11, <2>2 DEF Ran
    <3>2. Ran("push latest") /\ Ran("push tag") /\ Ran("definitions")
      BY <3>1 DEF ShellInv, ToldIsPushed
    <3>3. \A what : Ran(what) => \E k \in DOMAIN done' : done'[k].what = what
      BY <1>11 DEF Ran
    <3>. QED BY <3>2, <3>3 DEF Ran
  <2>3. CASE i \notin 1..n
    <3>1. i = n + 1
      BY <1>11, <2>3
    <3>2. c.what = "notify"
      BY <1>7, <1>11, <3>1
    <3>3. phase = "post_build"
      BY <1>5, <3>2 DEF PreBuildKinds, BuildKinds
    <3>4. at \in DOMAIN PostBuild(flow) /\ PostBuild(flow)[at].what = "notify"
      BY <1>5, <1>9, <3>2, <3>3 DEF c
    <3>5. ASSUME NEW what \in {"push latest", "push tag", "definitions"}
          PROVE  \E k \in DOMAIN done' : done'[k].what = what
      <4>1. PICK j \in DOMAIN PostBuild(flow) : j < at /\ PostBuild(flow)[j].what = what
        BY <1>8, <3>4 DEF PostBuildFacts
      <4>2. j \in 1..(at - 1)
        BY <1>5, <1>9, <3>3, <4>1
      <4>3. PICK k \in DOMAIN done : Matches(done[k], Script(flow, phase)[j])
        BY <4>2, CurrentRecords DEF ShellInv
      <4>4. done[k].what = what
        BY <1>9, <3>3, <4>1, <4>3 DEF Matches
      <4>5. k \in DOMAIN done' /\ done'[k] = done[k]
        BY <1>11
      <4>. QED BY <4>4, <4>5
    <3>. QED BY <3>5 DEF Ran
  <2>. QED BY <2>2, <2>3
<1>. QED BY <1>12, <1>14, <1>15, <1>16, <1>17, <1>18, <1>19 DEF ShellInv

(* A command that fails: the plain flow's would have worked.                    *)
LEMMA FailKeeps ==
  ASSUME ShellInv, FailCommand
  PROVE  ShellInv'
<1>. DEFINE c == Script(flow, phase)[at]
<1>1. /\ flow \in Seq(Nodes) /\ phase \in ToSet(Phases) /\ done \in Seq(Record)
      /\ failed \subseteq ToSet(Phases) /\ failures \in Nat /\ failures \in 0..MaxFailures /\ cwd \in Dirs
  BY BuildspecAssumption DEF ShellInv, ShellTypes
<1>2. Commands(phase) = Script(flow, phase)
  BY CommandsScript
<1>3. /\ at <= Len(Script(flow, phase))
      /\ \/ ~Works(c) /\ failures' = failures
         \/ Works(c) /\ failures < MaxFailures /\ failures' = failures + 1
      /\ cwd' = (IF Directory(c) \in Dirs THEN Directory(c) ELSE cwd)
      /\ failed' = failed \cup {phase} /\ phase' = After(phase, FALSE) /\ at' = 1
      /\ flow' = flow /\ repository' = repository /\ done' = done
  BY <1>2 DEF FailCommand, repository
<1>4. phase # "ended"
  BY <1>3, NextCommand DEF ShellInv
<1>. HIDE DEF c
<1>5. ShellTypes'
  <2>1. phase' \in ToSet(Phases)
    BY <1>1, <1>3, PhasesSet DEF After
  <2>2. Len(Script(flow', phase')) \in Nat
    BY <1>1, <1>3, <2>1, ScriptTyped
  <2>3. at' \in 1..(Len(Script(flow', phase')) + 1)
    <3>1. \A k \in Nat : 1 \in 1..(k + 1)
      OBVIOUS
    <3>2. 1 \in 1..(Len(Script(flow', phase')) + 1)
      BY <2>2, <3>1
    <3>. QED BY <1>3, <3>2
  <2>4. failures' \in 0..MaxFailures
    BY <1>1, <1>3, BuildspecAssumption
  <2>. QED BY <1>1, <1>3, <2>1, <2>3, <2>4, SameImage DEF ShellInv, ShellTypes
<1>6. Current'
  <2>1. Len(done) \in Nat
    BY <1>1
  <2>2. Follows(done', Len(done), Script(flow', phase'), 0) /\ Len(done) + 0 = Len(done') /\ at' - 1 = 0
    BY <1>3, <2>1 DEF Follows
  <2>. QED BY <2>2 DEF Current
<1>7. Through'
  BY <1>3 DEF Through
<1>8. StaysPlain'
  <2>. SUFFICES ASSUME failures' = 0, AllPlain(flow'), ImageBuilds(<<>>)' PROVE FALSE
    BY DEF StaysPlain
  <2>1. failures = 0 /\ ~Works(c)
    BY <1>1, <1>3
  <2>2. ImageBuilds(<<>>)
    BY <1>3, SameImage
  <2>3. Works(c)
    BY <1>3, <2>1, <2>2, PlainWorks DEF ShellInv, c
  <2>. QED BY <2>1, <2>3
<1>9. Started' /\ PushedIsTested' /\ ToldIsPushed'
  <2>1. Started'
    BY <1>3 DEF ShellInv, Started, Ran
  <2>2. PushedIsTested'
    BY <1>3 DEF ShellInv, PushedIsTested, TestedBefore
  <2>3. ToldIsPushed'
    BY <1>3 DEF ShellInv, ToldIsPushed, Ran
  <2>. QED BY <2>1, <2>2, <2>3
<1>. QED BY <1>5, <1>6, <1>7, <1>8, <1>9 DEF ShellInv

(* The end of a phase: all of its commands ran.                                 *)
LEMMA EndKeeps ==
  ASSUME ShellInv, EndPhase
  PROVE  ShellInv'
<1>1. /\ flow \in Seq(Nodes) /\ phase \in ToSet(Phases) /\ done \in Seq(Record)
      /\ at \in 1..(Len(Script(flow, phase)) + 1)
  BY DEF ShellInv, ShellTypes
<1>2. Commands(phase) = Script(flow, phase)
  BY CommandsScript
<1>3. /\ phase # "ended" /\ at > Len(Script(flow, phase))
      /\ phase' = After(phase, TRUE) /\ at' = 1
      /\ flow' = flow /\ repository' = repository
      /\ cwd' = cwd /\ done' = done /\ failed' = failed /\ failures' = failures
  BY <1>2 DEF EndPhase, repository
<1>4. ShellTypes'
  <2>1. phase' \in ToSet(Phases)
    BY <1>1, <1>3, PhasesSet DEF After
  <2>2. Len(Script(flow', phase')) \in Nat
    BY <1>1, <1>3, <2>1, ScriptTyped
  <2>3. at' \in 1..(Len(Script(flow', phase')) + 1)
    <3>1. \A k \in Nat : 1 \in 1..(k + 1)
      OBVIOUS
    <3>2. 1 \in 1..(Len(Script(flow', phase')) + 1)
      BY <2>2, <3>1
    <3>. QED BY <1>3, <3>2
  <2>. QED BY <1>3, <2>1, <2>3, SameImage DEF ShellInv, ShellTypes
<1>5. Current'
  <2>1. Len(done) \in Nat
    BY <1>1
  <2>2. Follows(done', Len(done), Script(flow', phase'), 0) /\ Len(done) + 0 = Len(done') /\ at' - 1 = 0
    BY <1>3, <2>1 DEF Follows
  <2>. QED BY <2>2 DEF Current
<1>6. Through'
  <2>1. Whole(Script(flow, phase))
    <3>1. Len(Script(flow, phase)) \in Nat
      BY <1>1, ScriptTyped
    <3>2. at - 1 = Len(Script(flow, phase))
      BY <1>1, <1>3, <3>1
    <3>. QED BY <3>2 DEF ShellInv, Current, Whole
  <2>2. \A s : Whole(s) => \E off : Follows(done', off, s, Len(s))
    BY <1>3 DEF Whole
  <2>. DEFINE W(s) == \E off : Follows(done', off, s, Len(s))
  <2>3. failed = {} =>
          /\ phase = "pre_build" => W(PreBuild(flow))
          /\ phase = "build" => W(PreBuild(flow)) /\ W(Build(flow))
          /\ phase = "post_build" => W(PreBuild(flow)) /\ W(Build(flow)) /\ W(PostBuild(flow))
    <3>1. /\ phase = "pre_build" => Script(flow, phase) = PreBuild(flow)
          /\ phase = "build" => Script(flow, phase) = Build(flow)
          /\ phase = "post_build" => Script(flow, phase) = PostBuild(flow)
      BY DEF Script
    <3>2. failed = {} =>
            /\ phase = "pre_build" => Whole(PreBuild(flow))
            /\ phase = "build" => Whole(PreBuild(flow)) /\ Whole(Build(flow))
            /\ phase = "post_build" => Whole(PreBuild(flow)) /\ Whole(Build(flow)) /\ Whole(PostBuild(flow))
      BY <2>1, <3>1 DEF ShellInv, Through
    <3>. HIDE DEF W
    <3>3. \A s : Whole(s) => W(s)
      BY <2>2 DEF W
    <3>. QED BY <3>2, <3>3
  <2>4. failed' = {} =>
          /\ phase' \in {"build", "post_build", "ended"} => W(PreBuild(flow))
          /\ phase' \in {"post_build", "ended"} => W(Build(flow))
          /\ phase' = "ended" => W(PostBuild(flow))
    <3>. HIDE DEF W
    <3>. QED BY <1>1, <1>3, <2>3, PhasesSet DEF After
  <2>. QED BY <1>3, <2>4 DEF Through, Whole
<1>7. StaysPlain' /\ Started' /\ PushedIsTested' /\ ToldIsPushed'
  <2>1. Started'
    BY <1>3 DEF ShellInv, Started, Ran
  <2>2. PushedIsTested'
    BY <1>3 DEF ShellInv, PushedIsTested, TestedBefore
  <2>3. ToldIsPushed'
    BY <1>3 DEF ShellInv, ToldIsPushed, Ran
  <2>4. StaysPlain'
    BY <1>3, SameImage DEF ShellInv, StaysPlain
  <2>. QED BY <2>1, <2>2, <2>3, <2>4
<1>. QED BY <1>4, <1>5, <1>6, <1>7 DEF ShellInv

(* The invariant of every run of the shell.                                     *)
LEMMA ShellInvariant == ShellSpec => []ShellInv
<1>1. ShellInv /\ UNCHANGED shellVars => ShellInv'
  <2>. SUFFICES ASSUME ShellInv, UNCHANGED shellVars PROVE ShellInv'
    OBVIOUS
  <2>1. /\ flow' = flow /\ repository' = repository /\ phase' = phase /\ at' = at
        /\ cwd' = cwd /\ done' = done /\ failed' = failed /\ failures' = failures
    BY DEF shellVars
  <2>2. ShellTypes' /\ Current' /\ Through'
    BY <2>1, SameImage DEF ShellInv, ShellTypes, Current, Through, Whole
  <2>3. StaysPlain' /\ Started' /\ PushedIsTested' /\ ToldIsPushed'
    <3>1. Started'
      BY <2>1 DEF ShellInv, Started, Ran
    <3>2. PushedIsTested'
      BY <2>1 DEF ShellInv, PushedIsTested, TestedBefore
    <3>3. ToldIsPushed'
      BY <2>1 DEF ShellInv, ToldIsPushed, Ran
    <3>4. StaysPlain'
      BY <2>1, SameImage DEF ShellInv, StaysPlain
    <3>. QED BY <3>1, <3>2, <3>3, <3>4
  <2>. QED BY <2>2, <2>3 DEF ShellInv
<1>2. ShellInv /\ [ShellNext]_shellVars => ShellInv'
  BY <1>1, RunKeeps, FailKeeps, EndKeeps DEF ShellNext
<1>. QED BY <1>2, ShellStarts, PTL DEF ShellSpec

--------------------------------------------------------------------------------
(* The nodes asking had their turns in the flow's order.                        *)
InOrder(asking) ==
  \E run \in [asking -> DOMAIN done] :
    \A i \in asking : /\ done[run[i]].of = flow[i]
                      /\ \A j \in asking : i < j => run[i] < run[j]

(* A script that ran whole ran the first commands of a group's asking nodes, in *)
(* the flow's order.                                                            *)
LEMMA GroupRan ==
  ASSUME ShellTypes, NEW turn \in [Nodes -> Seq(Command)], NEW g,
         NEW s \in Seq(Command), Whole(s),
         \E o : Within(GroupCommands(flow, g, turn), s, o),
         NEW asking \in SUBSET DOMAIN flow,
         \A i \in asking : Leads(flow, g, turn, i) /\ turn[flow[i]][1].of = flow[i]
  PROVE  InOrder(asking)
<1>. DEFINE group == GroupCommands(flow, g, turn)
<1>1. flow \in Seq(Nodes) /\ done \in Seq(Record)
  BY DEF ShellTypes
<1>2. group \in Seq(Command)
  BY <1>1, GroupTurns
<1>3. PICK first : Runs(flow, g, turn, first)
  BY <1>1, GroupTurns
<1>4. PICK o : Within(group, s, o)
  OBVIOUS
<1>5. PICK p : Follows(done, p, s, Len(s))
  BY DEF Whole
<1>6. /\ first \in [DOMAIN flow -> Nat]
      /\ \A i \in asking : first[i] \in DOMAIN group /\ group[first[i]] = turn[flow[i]][1]
      /\ \A i, j \in asking : i < j => first[i] < first[j]
  BY <1>3 DEF Runs
<1>. HIDE DEF group
<1>7. o \in Nat /\ p \in Nat /\ Len(s) \in Nat /\ Len(group) \in Nat /\ DOMAIN group = 1..Len(group)
  BY <1>2, <1>4, <1>5 DEF Within, Follows
<1>8. ASSUME NEW i \in asking
      PROVE  /\ first[i] \in Nat /\ p + (o + first[i]) \in DOMAIN done
             /\ done[p + (o + first[i])].of = flow[i]
  <2>1. first[i] \in 1..Len(group) /\ group[first[i]].of = flow[i]
    BY <1>6, <1>7
  <2>2. o + first[i] \in 1..Len(s)
    BY <1>4, <1>7, <2>1 DEF Within
  <2>3. s[o + first[i]] = group[first[i]]
    BY <1>4, <2>1 DEF Within
  <2>4. /\ p + (o + first[i]) \in DOMAIN done
        /\ Matches(done[p + (o + first[i])], s[o + first[i]])
    BY <1>1, <1>5, <1>7, <2>2, FollowsRecords
  <2>. QED BY <2>1, <2>3, <2>4 DEF Matches
<1>. DEFINE run == [i \in asking |-> p + (o + first[i])]
<1>9. run \in [asking -> DOMAIN done]
  BY <1>8
<1>10. ASSUME NEW i \in asking, NEW j \in asking, i < j PROVE run[i] < run[j]
  <2>1. first[i] \in Nat /\ first[j] \in Nat /\ first[i] < first[j]
    BY <1>6, <1>8, <1>10
  <2>2. p + (o + first[i]) < p + (o + first[j])
    BY <1>7, <2>1
  <2>. QED BY <2>2
<1>11. \A i \in asking : done[run[i]].of = flow[i]
  BY <1>8
<1>. HIDE DEF run
<1>. QED BY <1>9, <1>10, <1>11 DEF InOrder

(* The first command of a node that stands in its own group and asks for        *)
(* something.                                                                   *)
LEMMA AskingLeads ==
  ASSUME NEW nodes \in Seq(Nodes), NEW i \in DOMAIN nodes, Asks(nodes[i]),
         nodes[i].group \in Home(nodes[i].block)
  PROVE  LET n == nodes[i]
         IN  /\ n.group = "prebuild" =>
                  Leads(nodes, "prebuild", PreBuildTurns, i) /\ PreBuildTurns[n][1].of = n
             /\ n.group = "build" =>
                  Leads(nodes, "build", BuildTurns, i) /\ BuildTurns[n][1].of = n
             /\ n.group = "test" =>
                  Leads(nodes, "test", TestTurns, i) /\ TestTurns[n][1].of = n
             /\ n.group = "utility" =>
                  Leads(nodes, "utility", UtilityTurns, i) /\ UtilityTurns[n][1].of = n
             /\ n.group = "notification" =>
                  Leads(nodes, "notification", NotificationTurns, i) /\ NotificationTurns[n][1].of = n
<1>. DEFINE n == nodes[i]
<1>1. n \in Nodes
  OBVIOUS
<1>2. Asks(n) /\ n.group \in Home(n.block)
  OBVIOUS
<1>. HIDE DEF n
<1>3. \A S, s : s \in Seq(S) /\ s # <<>> => s[1] \in S
  OBVIOUS
<1>4. n.group = "prebuild" =>
        PreBuildCommands(n) # <<>> /\ PreBuildCommands(n)[1] \in PreBuildTurn(n)
  BY <1>1, <1>2, <1>3, PreBuildMade
<1>5. n.group = "build" =>
        BuildCommands(n) # <<>> /\ BuildCommands(n)[1] \in BuildTurn(n, "npm")
  BY <1>1, <1>2, <1>3, BuildMade
<1>6. n.group \in {"test", "utility"} =>
        TestCommands(n) # <<>> /\ TestCommands(n)[1] \in TestTurn(n, "npm")
  BY <1>1, <1>2, <1>3, TestMade
<1>7. n.group = "notification" =>
        NotificationCommands(n) # <<>> /\ NotificationCommands(n)[1] \in NotificationTurn(n)
  BY <1>1, <1>2, <1>3, NotificationMade
<1>8. n.group = "utility" => n.block = "test_custom"
  BY <1>2 DEF Home
<1>9. n.block = "test_custom" => When(n.block = "test_custom", CustomTest(n)) = TestCommands(n)
  BY <1>1, TestMade DEF When
<1>10. /\ PreBuildTurns[n] = PreBuildCommands(n) /\ BuildTurns[n] = BuildCommands(n)
       /\ TestTurns[n] = TestCommands(n) /\ (n.group = "utility" => UtilityTurns[n] = TestCommands(n))
       /\ NotificationTurns[n] = NotificationCommands(n)
  BY <1>1, <1>8, <1>9
     DEF PreBuildTurns, BuildTurns, TestTurns, UtilityTurns, NotificationTurns
<1>11. /\ \A c \in PreBuildTurn(n) : c.of = n
       /\ \A c \in BuildTurn(n, "npm") : c.of = n
       /\ \A c \in TestTurn(n, "npm") : c.of = n
       /\ \A c \in NotificationTurn(n) : c.of = n
  BY DEF PreBuildTurn, BuildTurn, TestTurn, NotificationTurn, Made
<1>. QED BY <1>4, <1>5, <1>6, <1>7, <1>10, <1>11 DEF Leads, n

(* The invariant holds what the runs check.                                     *)
LEMMA ShellTyped == ShellInv => ShellTypeOK
<1>. SUFFICES ASSUME ShellInv PROVE ShellTypeOK
  OBVIOUS
<1>1. ShellTypes
  BY DEF ShellInv
<1>2. Commands(phase) = Script(flow, phase)
  BY CommandsScript
<1>3. Script(flow, phase) \in Seq(Command)
  BY <1>1, ScriptTyped DEF ShellTypes
<1>4. ASSUME NEW c \in ToSet(Script(flow, phase)) PROVE c.with # "none"
  <2>1. c \in Command
    BY <1>3 DEF ToSet
  <2>. QED BY <2>1 DEF Command, Tools
<1>5. ASSUME NEW i \in DOMAIN done PROVE done[i].dir \in Dirs
  <2>1. done[i] \in Record
    BY <1>1 DEF ShellTypes
  <2>. QED BY <2>1 DEF Record
<1>. QED BY <1>1, <1>2, <1>4, <1>5 DEF ShellTypes, ShellTypeOK

(* Flows of plain nodes push their image.                                     *)
LEMMA PlainPushes == ShellInv => PlainFlowsPush
<1>. SUFFICES ASSUME ShellInv, phase = "ended", failures = 0, \A n \in ToSet(flow) : Plain(n),
                     ImageBuilds(<<>>)
              PROVE  /\ failed = {} /\ Ran("push tag") /\ Ran("definitions")
                     /\ \A i \in DOMAIN done : done[i].what = "docker build" => done[i].dir = <<>>
                     /\ ~Ran("dockerfile without start")
  BY DEF PlainFlowsPush
<1>1. AllPlain(flow)
  BY DEF AllPlain, Plain, PlainNode
<1>2. failed = {} /\ \A i \in DOMAIN done : done[i].dir = <<>>
  BY <1>1 DEF ShellInv, StaysPlain
<1>3. PostBuildFacts(flow) /\ Whole(PostBuild(flow)) /\ ShellTypes
  BY <1>2, PostBuildShape DEF ShellInv, ShellTypes, Through
<1>4. PostBuild(flow) \in Seq(Command)
  BY <1>3 DEF PostBuildFacts
<1>5. PICK tag \in ToSet(PostBuild(flow)) : tag.what = "push tag"
  BY <1>3 DEF PostBuildFacts
<1>6. PICK file \in ToSet(PostBuild(flow)) : file.what = "definitions"
  BY <1>3 DEF PostBuildFacts
<1>7. (\E i \in DOMAIN done : Matches(done[i], tag)) /\ (\E i \in DOMAIN done : Matches(done[i], file))
  BY <1>3, <1>4, WholeRecords
<1>8. Ran("push tag") /\ Ran("definitions")
  BY <1>5, <1>6, <1>7 DEF Matches, Ran
<1>9. InstallManager(flow) \in Known
  BY <1>3, FirstFound DEF InstallManager, Known, Plain, ShellTypes
<1>. QED BY <1>2, <1>8, <1>9 DEF ShellInv, Started

(* Every node that asked had its turn.                                        *)
LEMMA NodesRan == ShellInv => NoNodeIsLost
<1>. SUFFICES ASSUME ShellInv, phase = "ended", failed = {},
                     NEW g \in {"prebuild", "build", "test", "utility", "notification"}
              PROVE  LET asking == {i \in DOMAIN flow :
                                      flow[i].group = g /\ g \in Home(flow[i].block) /\ Asks(flow[i])}
                     IN  \E run \in [asking -> DOMAIN done] :
                           \A i \in asking : /\ done[run[i]].of = flow[i]
                                             /\ \A j \in asking : i < j => run[i] < run[j]
  BY DEF NoNodeIsLost
<1>. DEFINE asking == {i \in DOMAIN flow :
                         flow[i].group = g /\ g \in Home(flow[i].block) /\ Asks(flow[i])}
<1>. SUFFICES InOrder(asking)
  BY DEF InOrder
<1>1. ShellTypes /\ flow \in Seq(Nodes)
  BY DEF ShellInv, ShellTypes
<1>2. PreBuildFacts(flow) /\ BuildFacts(flow) /\ PostBuildFacts(flow)
  BY <1>1, PreBuildShape, BuildShape, PostBuildShape
<1>3. Whole(PreBuild(flow)) /\ Whole(Build(flow)) /\ Whole(PostBuild(flow))
  BY DEF ShellInv, Through
<1>4. PreBuild(flow) \in Seq(Command) /\ Build(flow) \in Seq(Command) /\ PostBuild(flow) \in Seq(Command)
  BY <1>2 DEF PreBuildFacts, BuildFacts, PostBuildFacts
<1>5. /\ asking \in SUBSET DOMAIN flow
      /\ \A i \in asking : flow[i].group = g /\ flow[i].group \in Home(flow[i].block) /\ Asks(flow[i])
  OBVIOUS
<1>. HIDE DEF asking
<1>6. /\ PreBuildTurns \in [Nodes -> Seq(Command)] /\ BuildTurns \in [Nodes -> Seq(Command)]
      /\ TestTurns \in [Nodes -> Seq(Command)] /\ UtilityTurns \in [Nodes -> Seq(Command)]
      /\ NotificationTurns \in [Nodes -> Seq(Command)]
  BY TurnsAreCommands
<1>7. CASE g = "prebuild"
  <2>1. \A i \in asking : Leads(flow, g, PreBuildTurns, i) /\ PreBuildTurns[flow[i]][1].of = flow[i]
    BY <1>1, <1>5, <1>7, AskingLeads
  <2>2. \E o : Within(GroupCommands(flow, g, PreBuildTurns), PreBuild(flow), o)
    BY <1>2, <1>7 DEF PreBuildFacts
  <2>. QED BY <1>1, <1>3, <1>4, <1>5, <1>6, <2>1, <2>2, GroupRan
<1>8. CASE g = "build"
  <2>1. \A i \in asking : Leads(flow, g, BuildTurns, i) /\ BuildTurns[flow[i]][1].of = flow[i]
    BY <1>1, <1>5, <1>8, AskingLeads
  <2>2. \E o : Within(GroupCommands(flow, g, BuildTurns), Build(flow), o)
    BY <1>2, <1>8 DEF BuildFacts
  <2>. QED BY <1>1, <1>3, <1>4, <1>5, <1>6, <2>1, <2>2, GroupRan
<1>9. CASE g = "test"
  <2>1. \A i \in asking : Leads(flow, g, TestTurns, i) /\ TestTurns[flow[i]][1].of = flow[i]
    BY <1>1, <1>5, <1>9, AskingLeads
  <2>2. \E o : Within(GroupCommands(flow, g, TestTurns), PostBuild(flow), o)
    BY <1>2, <1>9 DEF PostBuildFacts
  <2>. QED BY <1>1, <1>3, <1>4, <1>5, <1>6, <2>1, <2>2, GroupRan
<1>10. CASE g = "utility"
  <2>1. \A i \in asking : Leads(flow, g, UtilityTurns, i) /\ UtilityTurns[flow[i]][1].of = flow[i]
    BY <1>1, <1>5, <1>10, AskingLeads
  <2>2. \E o : Within(GroupCommands(flow, g, UtilityTurns), PostBuild(flow), o)
    BY <1>2, <1>10 DEF PostBuildFacts
  <2>. QED BY <1>1, <1>3, <1>4, <1>5, <1>6, <2>1, <2>2, GroupRan
<1>11. CASE g = "notification"
  <2>1. \A i \in asking :
          Leads(flow, g, NotificationTurns, i) /\ NotificationTurns[flow[i]][1].of = flow[i]
    BY <1>1, <1>5, <1>11, AskingLeads
  <2>2. \E o : Within(GroupCommands(flow, g, NotificationTurns), PostBuild(flow), o)
    BY <1>2, <1>11 DEF PostBuildFacts
  <2>. QED BY <1>1, <1>3, <1>4, <1>5, <1>6, <2>1, <2>2, GroupRan
<1>. QED BY <1>7, <1>8, <1>9, <1>10, <1>11

(* The variables of a build keep their types: a command's manager is never      *)
(* "none", and no command ran in a directory the repository does not have.      *)
THEOREM ShellTypeCorrect == ShellSpec => []ShellTypeOK
BY ShellInvariant, ShellTyped, PTL

(* Whatever the flow and whatever fails, an image is pushed only after every    *)
(* command of every test node ran.                                              *)
THEOREM PushedTested == ShellSpec => []PushedIsTested
<1>1. ShellInv => PushedIsTested
  BY DEF ShellInv
<1>. QED BY <1>1, ShellInvariant, PTL

(* Whoever is notified finds both tags pushed and the definitions written.      *)
THEOREM ToldPushed == ShellSpec => []ToldIsPushed
<1>1. ShellInv => ToldIsPushed
  BY DEF ShellInv
<1>. QED BY <1>1, ShellInvariant, PTL

(* A flow of plain nodes, of any length and in any order, pushes its image      *)
(* unless a command fails by itself.                                            *)
THEOREM PlainPushed == ShellSpec => []PlainFlowsPush
BY ShellInvariant, PlainPushes, PTL

(* A build that succeeds has run something of every node that asked, the nodes  *)
(* of a group in the flow's order.                                              *)
THEOREM NoNodeLost == ShellSpec => []NoNodeIsLost
BY ShellInvariant, NodesRan, PTL
================================================================================
