--------------------------- MODULE LogPolling_proofs ---------------------------
(***************************************************************************)
(* What holds of LogPolling for any number of pollers, polls, jobs, logs,  *)
(* failures and restarts.  The invariant says that whatever an activity    *)
(* has read up to is stored; stored logs stay, so it is stable.            *)
(***************************************************************************)
EXTENDS LogPolling, TLAPS

Stored(n) == 1..n \subseteq saved

(* The closures of startPolling, as TypeOK has them.                       *)
PollerType == [Pollers -> [state : {"new", "lookup", "on", "off"}, token : 0..MaxLogs,
                           retries : Nat, delay : BOOLEAN]]

(* A poll asks from a token behind stored logs, and moves the token only   *)
(* behind logs it has stored.                                              *)
PollOK(t) ==
  /\ poll[t].pc # "idle" => poll[t].by \in Pollers
  /\ poll[t].pc \in {"fetch", "save", "advance"} => Stored(poll[t].from)
  /\ poll[t].pc = "advance" => Stored(poll[t].to)

(* So does a recovery job, which has read fewer pages than it may.         *)
JobOK(j) ==
  /\ job[j].pc \in {"fetch", "save"} => Stored(job[j].from)
  /\ job[j].pc = "fetch" => job[j].attempts < MaxAttempts

IInv == /\ TypeOK
        /\ NothingSkipped
        /\ \A t \in Polls : PollOK(t)
        /\ \A j \in Jobs : JobOK(j)

-----------------------------------------------------------------------------
(* A page ends behind its token, inside the stream: storing what lies      *)
(* between the two extends a stored prefix.                                *)
LEMMA PagesAreBehind ==
  ASSUME stream \in 0..MaxLogs, NEW from \in 0..MaxLogs, NEW to \in Pages(from)
  PROVE  /\ to \in 0..MaxLogs
         /\ from < stream => to > from
         /\ to = from => from >= stream
  BY BoundsAreNat DEF Pages

LEMMA PrefixGrows ==
  ASSUME NEW from \in Nat, NEW to \in Nat, NEW S, 1..from \subseteq S
  PROVE  1..to \subseteq S \cup Behind(from, to)
  BY DEF Behind

(* Stored positions stay stored.                                           *)
LEMMA StoredStays ==
  ASSUME saved \subseteq saved', NEW n, Stored(n)
  PROVE  1..n \subseteq saved'
  BY DEF Stored

(* stopPolling changes no token.                                           *)
LEMMA StoppedKeepsTokens ==
  ASSUME TypeOK, NEW q \in PollerType
  PROVE  /\ Stopped(q) \in PollerType
         /\ \A p \in Pollers : Stopped(q)[p].token = q[p].token
  BY DEF Stopped, TypeOK, PollerType

LEMMA IdleTyped == IdlePoll \in PollState /\ IdleJob \in JobState
  BY BoundsAreNat DEF IdlePoll, IdleJob, PollState, JobState

LEMMA InitInv == Init => IInv
<1> SUFFICES ASSUME Init PROVE IInv OBVIOUS
<1>1. TypeOK
  <2>1. IdlePoll \in PollState /\ IdleJob \in JobState
    BY IdleTyped
  <2>2. poller \in PollerType
    BY BoundsAreNat DEF Init, FreshPoller, PollerType
  <2>3. 0 \in 0..MaxLogs
    BY BoundsAreNat
  <2>. QED BY <2>1, <2>2, <2>3 DEF Init, TypeOK, PollerType, Position, Terminal
<1>2. NothingSkipped
  <2>1. \A p \in Pollers : poller[p].token = 0 BY DEF Init, FreshPoller
  <2>2. 1..0 = {} OBVIOUS
  <2>. QED BY <2>1, <2>2 DEF NothingSkipped
<1>3. \A t \in Polls : PollOK(t)
  BY DEF Init, PollOK, IdlePoll
<1>4. \A j \in Jobs : JobOK(j)
  BY DEF Init, JobOK, IdleJob
<1>. QED BY <1>1, <1>2, <1>3, <1>4 DEF IInv

-----------------------------------------------------------------------------
(* A step that changes no poll and no job and keeps what is stored leaves  *)
(* their part of the invariant alone.                                      *)
LEMMA Frame ==
  ASSUME IInv, saved \subseteq saved'
  PROVE  /\ \A t \in Polls : poll'[t] = poll[t] => PollOK(t)'
         /\ \A j \in Jobs : job'[j] = job[j] => JobOK(j)'
         /\ \A p \in Pollers : poller'[p].token = poller[p].token => 1..poller'[p].token \subseteq saved'
<1>1. ASSUME NEW t \in Polls, poll'[t] = poll[t] PROVE PollOK(t)'
  <2>1. PollOK(t) BY DEF IInv
  <2>. QED BY <1>1, <2>1 DEF PollOK, Stored
<1>2. ASSUME NEW j \in Jobs, job'[j] = job[j] PROVE JobOK(j)'
  <2>1. JobOK(j) BY DEF IInv
  <2>. QED BY <1>2, <2>1 DEF JobOK, Stored
<1>3. ASSUME NEW p \in Pollers, poller'[p].token = poller[p].token
      PROVE  1..poller'[p].token \subseteq saved'
  BY <1>3 DEF IInv, NothingSkipped
<1>. QED BY <1>1, <1>2, <1>3

(* What a poll t may do: it reads behind stored logs, stores what it read, *)
(* and moves its poller's token behind what it stored.                     *)
LEMMA PollMoves ==
  ASSUME IInv, NEW t \in Polls, NEW rec \in PollState, PollGoto(t, rec),
         saved' \subseteq Position, saved \subseteq saved',
         poller' \in PollerType,
         \A p \in Pollers : 1..poller'[p].token \subseteq saved',
         UNCHANGED <<pollVars>>, current' \in Pollers \cup {None}, faults' \in Nat,
         PollOK(t)'
  PROVE  IInv'
<1>1. poll' \in [Polls -> PollState] /\ \A u \in Polls \ {t} : poll'[u] = poll[u]
  BY DEF IInv, TypeOK, PollGoto
<1>2. TypeOK'
  BY <1>1 DEF IInv, TypeOK, PollerType, pollVars, cloudVars, statusVars
<1>3. NothingSkipped'
  BY DEF NothingSkipped
<1>4. \A u \in Polls : PollOK(u)'
  BY <1>1, Frame
<1>5. \A j \in Jobs : JobOK(j)'
  BY Frame DEF pollVars
<1>. QED BY <1>2, <1>3, <1>4, <1>5 DEF IInv

(* The same for a recovery job.                                            *)
LEMMA JobMoves ==
  ASSUME IInv, NEW j \in Jobs, NEW rec \in JobState, JobGoto(j, rec),
         saved' \subseteq Position, saved \subseteq saved',
         ending' \in {"idle", "store", "finalize", "recover", "done"},
         UNCHANGED <<jobVars>>, faults' \in Nat, JobOK(j)'
  PROVE  IInv'
<1>1. job' \in [Jobs -> JobState] /\ \A u \in Jobs \ {j} : job'[u] = job[u]
  BY DEF IInv, TypeOK, JobGoto
<1>2. TypeOK'
  BY <1>1 DEF IInv, TypeOK, jobVars, cloudVars
<1>3. NothingSkipped'
  BY Frame DEF NothingSkipped, jobVars
<1>4. \A t \in Polls : PollOK(t)'
  BY Frame DEF jobVars
<1>5. \A u \in Jobs : JobOK(u)'
  BY <1>1, Frame
<1>. QED BY <1>2, <1>3, <1>4, <1>5 DEF IInv

(* Every step of a poll.                                                   *)
LEMMA PollStepInv ==
  ASSUME IInv, NEW t \in Polls, PollStep(t) \/ \E p \in Pollers : Tick(t, p)
  PROVE  IInv'
<1> DEFINE p == poll[t].by
<1>0. /\ TypeOK /\ poller \in PollerType /\ PollOK(t) /\ poll[t] \in PollState
      /\ saved \subseteq Position /\ faults \in Nat /\ current \in Pollers \cup {None}
  BY DEF IInv, TypeOK, PollerType
<1>00. \A q \in Pollers : 1..poller[q].token \subseteq saved /\ poller[q].token \in 0..MaxLogs
  BY <1>0 DEF IInv, NothingSkipped, PollerType
<1>1. ASSUME NEW q \in Pollers, Tick(t, q) PROVE IInv'
  <2> DEFINE rec == IF poller[q].delay THEN [IdlePoll EXCEPT !.pc = "delay", !.by = q]
                    ELSE [IdlePoll EXCEPT !.pc = "fetch", !.by = q, !.from = poller[q].token]
  <2>1. rec \in PollState
    BY <1>00, IdleTyped DEF PollState
  <2>2. PollGoto(t, rec) /\ UNCHANGED <<pollVars, saved, poller, current, faults>>
    BY <1>1 DEF Tick, Ask
  <2>3. poll'[t] = rec
    BY <1>0, <2>2 DEF TypeOK, PollGoto
  <2>4. PollOK(t)'
    BY <1>00, <2>2, <2>3 DEF PollOK, Stored, IdlePoll
  <2> HIDE DEF rec
  <2>. QED BY <1>0, <1>00, <2>1, <2>2, <2>4, PollMoves
<1>2. CASE DelayEnds(t)
  <2> DEFINE rec == [IdlePoll EXCEPT !.pc = "fetch", !.by = p, !.from = poller[p].token]
  <2>1. p \in Pollers
    BY <1>0, <1>2 DEF DelayEnds, PollOK
  <2>2. rec \in PollState
    BY <1>00, <2>1, IdleTyped DEF PollState
  <2>3. PollGoto(t, rec) /\ UNCHANGED <<pollVars, saved, current, faults>>
    BY <1>2 DEF DelayEnds, Ask
  <2>4. poller' \in PollerType /\ \A q \in Pollers : poller'[q].token = poller[q].token
    BY <1>0, <1>2, <2>1 DEF DelayEnds, PollerType
  <2>5. poll'[t] = rec
    BY <1>0, <2>3 DEF TypeOK, PollGoto
  <2>6. PollOK(t)'
    BY <1>00, <2>1, <2>3, <2>5 DEF PollOK, Stored, IdlePoll
  <2> HIDE DEF rec
  <2>. QED BY <1>0, <1>00, <2>2, <2>3, <2>4, <2>6, PollMoves
<1>3. CASE Answer(t)
  <2>1. PICK to \in Pages(poll[t].from) :
          IF to = poll[t].from
          THEN /\ poller' = Advanced(p, to)
               /\ PollGoto(t, [poll[t] EXCEPT !.pc = "check", !.to = to])
          ELSE /\ PollGoto(t, [poll[t] EXCEPT !.pc = "save", !.to = to])
               /\ UNCHANGED poller
    BY <1>3 DEF Answer
  <2>2. UNCHANGED <<pollVars, saved, current, faults>>
    BY <1>3 DEF Answer
  <2>3. p \in Pollers /\ 1..poll[t].from \subseteq saved /\ poll[t].from \in 0..MaxLogs
    BY <1>0, <1>3 DEF Answer, PollOK, Stored, PollState
  <2>4. to \in 0..MaxLogs
    BY <1>0, <2>1, <2>3, PagesAreBehind DEF TypeOK
  <2>5. CASE to = poll[t].from
    <3> DEFINE rec == [poll[t] EXCEPT !.pc = "check", !.to = to]
    <3>1. rec \in PollState /\ PollGoto(t, rec) /\ poller' = Advanced(p, to)
      BY <1>0, <2>1, <2>4, <2>5 DEF PollState
    <3>2. /\ poller' \in PollerType
          /\ \A q \in Pollers : 1..poller'[q].token \subseteq saved
      BY <1>0, <1>00, <2>3, <2>4, <2>5, <3>1 DEF Advanced, PollerType
    <3>3. poll'[t] = rec
      BY <1>0, <3>1 DEF TypeOK, PollGoto
    <3>4. PollOK(t)'
      BY <1>0, <2>3, <3>3 DEF PollOK, PollState
    <3> HIDE DEF rec
    <3>. QED BY <1>0, <2>2, <3>1, <3>2, <3>4, PollMoves
  <2>6. CASE to # poll[t].from
    <3> DEFINE rec == [poll[t] EXCEPT !.pc = "save", !.to = to]
    <3>1. rec \in PollState /\ PollGoto(t, rec) /\ UNCHANGED poller
      BY <1>0, <2>1, <2>4, <2>6 DEF PollState
    <3>2. poll'[t] = rec
      BY <1>0, <3>1 DEF TypeOK, PollGoto
    <3>3. PollOK(t)'
      BY <1>0, <2>2, <2>3, <3>2 DEF PollOK, PollState, Stored
    <3> HIDE DEF rec
    <3>. QED BY <1>0, <1>00, <2>2, <3>1, <3>3, PollMoves
  <2>. QED BY <2>5, <2>6
<1>4. CASE NotFound(t)
  <2>1. PollGoto(t, IdlePoll) /\ UNCHANGED <<pollVars, saved, poller, current, faults>>
    BY <1>4 DEF NotFound
  <2>2. PollOK(t)'
    BY <1>0, <2>1 DEF TypeOK, PollGoto, PollOK, IdlePoll
  <2>. QED BY <1>0, <1>00, <2>1, <2>2, PollMoves, IdleTyped
<1>5. CASE SaveLogs(t)
  <2> DEFINE rec == [poll[t] EXCEPT !.pc = "advance"]
  <2>1. /\ PollGoto(t, rec) /\ UNCHANGED <<pollVars, poller, current, faults>>
        /\ saved' = saved \cup Behind(poll[t].from, poll[t].to)
    BY <1>5 DEF SaveLogs
  <2>2. p \in Pollers /\ 1..poll[t].from \subseteq saved
    BY <1>0, <1>5 DEF SaveLogs, PollOK, Stored
  <2>3. poll[t].from \in 0..MaxLogs /\ poll[t].to \in 0..MaxLogs /\ rec \in PollState
    BY <1>0 DEF PollState
  <2>4. saved' \subseteq Position /\ saved \subseteq saved'
    BY <1>0, <2>1, <2>3, BoundsAreNat DEF Position, Behind
  <2>5. 1..poll[t].to \subseteq saved'
    BY <2>1, <2>2, <2>3, BoundsAreNat, PrefixGrows
  <2>6. poll'[t] = rec
    BY <1>0, <2>1 DEF TypeOK, PollGoto
  <2>7. PollOK(t)'
    BY <1>0, <2>2, <2>4, <2>5, <2>6 DEF PollOK, Stored, PollState
  <2> HIDE DEF rec
  <2>. QED BY <1>0, <1>00, <2>1, <2>3, <2>4, <2>7, PollMoves
<1>6. CASE Advance(t)
  <2> DEFINE rec == [poll[t] EXCEPT !.pc = "check"]
  <2>1. /\ PollGoto(t, rec) /\ UNCHANGED <<pollVars, saved, current, faults>>
        /\ poller' = Advanced(p, poll[t].to)
    BY <1>6 DEF Advance
  <2>2. p \in Pollers /\ 1..poll[t].to \subseteq saved
    BY <1>0, <1>6 DEF Advance, PollOK, Stored
  <2>3. poll[t].to \in 0..MaxLogs /\ rec \in PollState
    BY <1>0 DEF PollState
  <2>4. /\ poller' \in PollerType
        /\ \A q \in Pollers : 1..poller'[q].token \subseteq saved
    BY <1>0, <1>00, <2>1, <2>2, <2>3 DEF Advanced, PollerType
  <2>5. poll'[t] = rec
    BY <1>0, <2>1 DEF TypeOK, PollGoto
  <2>6. PollOK(t)'
    BY <1>0, <2>2, <2>5 DEF PollOK, PollState
  <2> HIDE DEF rec
  <2>. QED BY <1>0, <2>1, <2>3, <2>4, <2>6, PollMoves
<1>7. CASE CheckStatus(t)
  <2>1. PollGoto(t, IdlePoll) /\ UNCHANGED <<pollVars, saved, faults>>
    BY <1>7 DEF CheckStatus
  <2>2. /\ poller' \in PollerType /\ current' \in Pollers \cup {None}
        /\ \A q \in Pollers : poller'[q].token = poller[q].token
    BY <1>0, <1>7, StoppedKeepsTokens DEF CheckStatus, StopPolling
  <2>3. PollOK(t)'
    BY <1>0, <2>1 DEF TypeOK, PollGoto, PollOK, IdlePoll
  <2>. QED BY <1>0, <1>00, <2>1, <2>2, <2>3, PollMoves, IdleTyped
<1>8. CASE PollFails(t)
  <2> DEFINE counted == [poller EXCEPT ![p].retries = @ + 1]
  <2>1. /\ PollGoto(t, IdlePoll) /\ UNCHANGED <<pollVars, saved>> /\ faults' \in Nat
        /\ \/ StopPolling(counted)
           \/ poller' = counted /\ UNCHANGED current
    BY <1>0, <1>8 DEF PollFails, Fault
  <2>2. counted \in PollerType
    <3>1. p \in Pollers => poller[p].retries + 1 \in Nat
      BY <1>0 DEF PollerType
    <3>. QED BY <1>0, <3>1 DEF PollerType
  <2>20. \A q \in Pollers : counted[q].token = poller[q].token
    BY <1>0 DEF PollerType
  <2> HIDE DEF counted
  <2>3. /\ poller' \in PollerType /\ current' \in Pollers \cup {None}
        /\ \A q \in Pollers : poller'[q].token = poller[q].token
    BY <1>0, <2>1, <2>2, <2>20, StoppedKeepsTokens DEF StopPolling
  <2>4. PollOK(t)'
    BY <1>0, <2>1 DEF TypeOK, PollGoto, PollOK, IdlePoll
  <2>. QED BY <1>0, <1>00, <2>1, <2>3, <2>4, PollMoves, IdleTyped
<1>. QED BY <1>1, <1>2, <1>3, <1>4, <1>5, <1>6, <1>7, <1>8 DEF PollStep

(* Every step of a recovery job.                                           *)
LEMMA JobStepInv ==
  ASSUME IInv, NEW j \in Jobs, EventRecovers(j) \/ CronRecovers(j) \/ JobStep(j)
  PROVE  IInv'
<1>0. /\ TypeOK /\ JobOK(j) /\ job[j] \in JobState /\ saved \subseteq Position /\ faults \in Nat
      /\ ending \in {"idle", "store", "finalize", "recover", "done"}
  BY DEF IInv, TypeOK
<1>1. CASE EventRecovers(j) \/ CronRecovers(j)
  <2> DEFINE rec == [IdleJob EXCEPT !.pc = "count"]
  <2>1. /\ JobGoto(j, rec) /\ UNCHANGED <<jobVars, saved, faults>>
        /\ ending' \in {"idle", "store", "finalize", "recover", "done"}
    BY <1>0, <1>1 DEF EventRecovers, CronRecovers
  <2>2. rec \in JobState
    BY IdleTyped DEF JobState
  <2>3. JobOK(j)'
    BY <1>0, <2>1 DEF TypeOK, JobGoto, JobOK, IdleJob
  <2> HIDE DEF rec
  <2>. QED BY <1>0, <2>1, <2>2, <2>3, JobMoves
<1>2. CASE JobCounts(j)
  <2> DEFINE rec == IF saved = {} THEN [IdleJob EXCEPT !.pc = "fetch"] ELSE IdleJob
  <2>1. JobGoto(j, rec) /\ UNCHANGED <<jobVars, saved, ending, faults>>
    BY <1>2 DEF JobCounts
  <2>2. rec \in JobState
    BY IdleTyped DEF JobState
  <2>3. job'[j] = rec
    BY <1>0, <2>1 DEF TypeOK, JobGoto
  <2>4. 1..0 = {} /\ 0 < MaxAttempts
    BY BoundsAreNat
  <2>5. JobOK(j)'
    BY <2>3, <2>4 DEF JobOK, IdleJob, Stored
  <2> HIDE DEF rec
  <2>. QED BY <1>0, <2>1, <2>2, <2>5, JobMoves
<1>3. CASE JobFetches(j)
  <2>1. UNCHANGED <<jobVars, saved, ending, faults>>
    BY <1>3 DEF JobFetches
  <2>2. CASE JobGoto(j, IdleJob)
    <3>1. JobOK(j)'
      BY <1>0, <2>2 DEF TypeOK, JobGoto, JobOK, IdleJob
    <3>. QED BY <1>0, <2>1, <2>2, <3>1, JobMoves, IdleTyped
  <2>3. CASE ~JobGoto(j, IdleJob)
    <3>1. PICK to \in Pages(job[j].from) :
            JobGoto(j, [job[j] EXCEPT !.pc = "save", !.to = to, !.attempts = @ + 1])
      BY <1>3, <2>3 DEF JobFetches
    <3> DEFINE rec == [job[j] EXCEPT !.pc = "save", !.to = to, !.attempts = @ + 1]
    <3>2. job[j].pc = "fetch" /\ 1..job[j].from \subseteq saved /\ job[j].attempts < MaxAttempts
      BY <1>0, <1>3 DEF JobFetches, JobOK, Stored
    <3>3. to \in 0..MaxLogs
      BY <1>0, PagesAreBehind DEF TypeOK, JobState
    <3>4. job[j].attempts + 1 \in 0..MaxAttempts
      BY <1>0, <3>2, BoundsAreNat DEF JobState
    <3>5. rec \in JobState
      BY <1>0, <3>3, <3>4 DEF JobState
    <3>6. job'[j] = rec
      BY <1>0, <3>1 DEF TypeOK, JobGoto
    <3>7. JobOK(j)'
      BY <1>0, <2>1, <3>2, <3>6 DEF JobOK, JobState, Stored
    <3>8. JobGoto(j, rec)
      BY <3>1
    <3> HIDE DEF rec
    <3>. QED BY <1>0, <2>1, <3>5, <3>7, <3>8, JobMoves
  <2>. QED BY <2>2, <2>3
<1>4. CASE JobSaves(j)
  <2> DEFINE rec == IF job[j].attempts = MaxAttempts THEN IdleJob
                    ELSE [job[j] EXCEPT !.pc = "fetch", !.from = job[j].to]
  <2>1. /\ JobGoto(j, rec) /\ UNCHANGED <<jobVars, ending, faults>>
        /\ saved' = saved \cup Behind(job[j].from, job[j].to)
    BY <1>4 DEF JobSaves
  <2>2. 1..job[j].from \subseteq saved
    BY <1>0, <1>4 DEF JobSaves, JobOK, Stored
  <2>3. job[j].from \in 0..MaxLogs /\ job[j].to \in 0..MaxLogs /\ job[j].attempts \in 0..MaxAttempts
    BY <1>0 DEF JobState
  <2>4. rec \in JobState
    BY <1>0, IdleTyped DEF JobState
  <2>5. saved' \subseteq Position /\ saved \subseteq saved'
    BY <1>0, <2>1, <2>3, BoundsAreNat DEF Position, Behind
  <2>6. 1..job[j].to \subseteq saved'
    BY <2>1, <2>2, <2>3, BoundsAreNat, PrefixGrows
  <2>7. job'[j] = rec
    BY <1>0, <2>1 DEF TypeOK, JobGoto
  <2>8. job[j].attempts # MaxAttempts => job[j].attempts < MaxAttempts
    BY <2>3, BoundsAreNat
  <2>9. JobOK(j)'
    BY <1>0, <2>6, <2>7, <2>8 DEF JobOK, Stored, JobState, IdleJob
  <2> HIDE DEF rec
  <2>. QED BY <1>0, <2>1, <2>4, <2>5, <2>9, JobMoves
<1>5. CASE JobFails(j)
  <2>1. JobGoto(j, IdleJob) /\ UNCHANGED <<jobVars, saved, ending>> /\ faults' \in Nat
    BY <1>0, <1>5 DEF JobFails, Fault
  <2>2. JobOK(j)'
    BY <1>0, <2>1 DEF TypeOK, JobGoto, JobOK, IdleJob
  <2>. QED BY <1>0, <2>1, <2>2, JobMoves, IdleTyped
<1>. QED BY <1>1, <1>2, <1>3, <1>4, <1>5 DEF JobStep

(* A step that moves no poll, no job and no token and stores no log.       *)
LEMMA QuietStep ==
  ASSUME IInv, UNCHANGED <<saved, poll, job>>, TypeOK',
         \A p \in Pollers : poller'[p].token = poller[p].token
  PROVE  IInv'
BY Frame DEF IInv, NothingSkipped

(* The startPolling calls, CloudWatch and the end of the execution.        *)
LEMMA OtherStepInv ==
  ASSUME IInv,
         \/ CreateStream \/ Ingest \/ EndStops \/ EndStores \/ EndFinalizes
         \/ \E p \in Pollers : StartPolling(p) \/ SetTimer(p)
  PROVE  IInv'
<1>0. TypeOK /\ poller \in PollerType
  BY DEF IInv, TypeOK, PollerType
<1>1. CASE CreateStream \/ Ingest
  <2>1. stream' \in 0..MaxLogs /\ streamExists' \in BOOLEAN
    <3>1. CASE CreateStream
      BY <1>0, <3>1 DEF CreateStream, TypeOK
    <3>2. CASE Ingest
      <4>1. stream + 1 \in 0..MaxLogs
        BY <1>0, <3>2, BoundsAreNat DEF Ingest, TypeOK
      <4>. QED BY <1>0, <3>2, <4>1 DEF Ingest, TypeOK
    <3>. QED BY <1>1, <3>1, <3>2
  <2>2. UNCHANGED <<saved, statusVars, poller, current, poll, job, faults, restarts>>
    BY <1>1 DEF CreateStream, Ingest
  <2>3. TypeOK'
    BY <1>0, <2>1, <2>2 DEF TypeOK, statusVars
  <2>. QED BY <2>2, <2>3, QuietStep
<1>2. CASE EndStops \/ EndStores \/ EndFinalizes
  <2>1. /\ UNCHANGED <<endVars, job>> /\ faults' \in Nat
        /\ status' \in {"running"} \cup Terminal
        /\ ending' \in {"idle", "store", "finalize", "recover", "done"}
        /\ StopPolling(poller) \/ UNCHANGED <<poller, current>>
    BY <1>0, <1>2 DEF EndStops, EndStores, EndFinalizes, Fault, TypeOK
  <2>2. /\ poller' \in PollerType /\ current' \in Pollers \cup {None}
        /\ \A p \in Pollers : poller'[p].token = poller[p].token
    BY <1>0, <2>1, StoppedKeepsTokens DEF StopPolling, TypeOK
  <2>3. TypeOK'
    BY <1>0, <2>1, <2>2 DEF TypeOK, PollerType, endVars, cloudVars
  <2>. QED BY <2>1, <2>2, <2>3, QuietStep DEF endVars
<1>3. ASSUME NEW p \in Pollers, StartPolling(p) \/ SetTimer(p) PROVE IInv'
  <2>1. /\ UNCHANGED <<cloudVars, saved, statusVars, poll, job, restarts>> /\ faults' \in Nat
        /\ current' \in Pollers \cup {None}
        /\ \E s \in {"lookup", "on", "off"} : poller' = [poller EXCEPT ![p].state = s]
    BY <1>0, <1>3 DEF StartPolling, SetTimer, Fault, TypeOK
  <2>2. poller' \in PollerType /\ \A q \in Pollers : poller'[q].token = poller[q].token
    BY <1>0, <2>1 DEF PollerType
  <2>3. TypeOK'
    BY <1>0, <2>1, <2>2 DEF TypeOK, PollerType, cloudVars, statusVars
  <2>. QED BY <2>1, <2>2, <2>3, QuietStep
<1>. QED BY <1>1, <1>2, <1>3

(* Nothing is read and nothing is under way after a restart.               *)
LEMMA RestartInv ==
  ASSUME IInv, Restart
  PROVE  IInv'
<1>0. TypeOK
  BY DEF IInv
<1>1. poller' \in PollerType /\ \A p \in Pollers : poller'[p].token = 0
  BY BoundsAreNat DEF Restart, FreshPoller, PollerType
<1>2. /\ UNCHANGED <<cloudVars, saved, status, faults>> /\ current' = None /\ restarts' \in Nat
      /\ ending' \in {"idle", "store", "finalize", "recover", "done"}
      /\ poll' = [t \in Polls |-> IdlePoll] /\ job' = [j \in Jobs |-> IdleJob]
  BY <1>0 DEF Restart, TypeOK
<1>3. TypeOK'
  BY <1>0, <1>1, <1>2, IdleTyped DEF TypeOK, PollerType, cloudVars
<1>4. 1..0 = {}
  OBVIOUS
<1>5. NothingSkipped'
  BY <1>1, <1>4 DEF NothingSkipped
<1>6. (\A t \in Polls : PollOK(t)') /\ (\A j \in Jobs : JobOK(j)')
  BY <1>2 DEF PollOK, JobOK, IdlePoll, IdleJob
<1>. QED BY <1>3, <1>5, <1>6 DEF IInv

(* The invariant is inductive.                                             *)
THEOREM Invariant == Spec => []IInv
<1>1. Init => IInv
  BY InitInv
<1>2. IInv /\ [Next]_vars => IInv'
  <2> SUFFICES ASSUME IInv, [Next]_vars PROVE IInv'
    OBVIOUS
  <2>1. CASE \E t \in Polls : PollStep(t) \/ \E p \in Pollers : Tick(t, p)
    BY <2>1, PollStepInv
  <2>2. CASE \E j \in Jobs : EventRecovers(j) \/ CronRecovers(j) \/ JobStep(j)
    BY <2>2, JobStepInv
  <2>3. CASE \/ CreateStream \/ Ingest \/ EndStops \/ EndStores \/ EndFinalizes
             \/ \E p \in Pollers : StartPolling(p) \/ SetTimer(p)
    BY <2>3, OtherStepInv
  <2>4. CASE Restart
    BY <2>4, RestartInv
  <2>5. CASE UNCHANGED vars
    <3>1. UNCHANGED <<saved, poll, job, poller>> /\ TypeOK'
      BY <2>5 DEF vars, IInv, TypeOK
    <3>. QED BY <3>1, QuietStep
  <2>. QED BY <2>1, <2>2, <2>3, <2>4, <2>5 DEF Next
<1>. QED BY <1>1, <1>2, PTL DEF Spec

(* Every variable of LogPolling keeps its type.                            *)
THEOREM TypeCorrect == Spec => []TypeOK
<1>1. IInv => TypeOK
  BY DEF IInv
<1>. QED BY <1>1, Invariant, PTL

(* No log is skipped by a poller, however its polls overlap, fail and      *)
(* overtake each other.                                                    *)
THEOREM NoLogSkipped == Spec => []NothingSkipped
<1>1. IInv => NothingSkipped
  BY DEF IInv
<1>. QED BY <1>1, Invariant, PTL

(* A recovery job that ends at the end of the stream has stored all of it. *)
THEOREM RecoveryComplete == Spec => RecoveryIsComplete
<1> DEFINE Complete == \A j \in Jobs : job[j].pc = "fetch" /\ streamExists /\ job'[j].pc = "idle" =>
                         faults' > faults \/ restarts' > restarts \/ 1..stream \subseteq saved'
<1>1. IInv /\ [Next]_vars => [Complete]_vars
  <2> SUFFICES ASSUME IInv, Next, NEW j \in Jobs,
                      job[j].pc = "fetch", streamExists, job'[j].pc = "idle"
               PROVE  faults' > faults \/ restarts' > restarts \/ 1..stream \subseteq saved'
    BY DEF vars
  <2>0. TypeOK /\ JobOK(j) /\ job[j] \in JobState
    BY DEF IInv, TypeOK
  <2>1. CASE UNCHANGED job
    BY <2>1
  <2>2. ASSUME NEW k \in Jobs, EventRecovers(k) \/ CronRecovers(k) \/ JobStep(k)
        PROVE  faults' > faults \/ 1..stream \subseteq saved'
    <3>1. CASE k # j
      <4>1. job'[j] = job[j]
        BY <2>0, <2>2, <3>1 DEF TypeOK, EventRecovers, CronRecovers, JobStep, JobCounts,
           JobFetches, JobSaves, JobFails, JobGoto
      <4>. QED BY <4>1
    <3>2. CASE JobFetches(j)
      <4>1. PICK to \in Pages(job[j].from) :
              JobGoto(j, IF to = job[j].from THEN IdleJob
                         ELSE [job[j] EXCEPT !.pc = "save", !.to = to, !.attempts = @ + 1])
        BY <3>2 DEF JobFetches
      <4>2. to = job[j].from
        BY <2>0, <4>1 DEF TypeOK, JobGoto, JobState
      <4>3. job[j].from >= stream
        BY <2>0, <4>2, PagesAreBehind DEF TypeOK, JobState
      <4>4. 1..stream \subseteq 1..job[j].from
        BY <2>0, <4>3, BoundsAreNat DEF TypeOK, JobState
      <4>5. 1..job[j].from \subseteq saved /\ UNCHANGED saved
        BY <2>0, <3>2 DEF JobOK, Stored, JobFetches
      <4>. QED BY <4>4, <4>5
    <3>3. CASE JobFails(j)
      BY <2>0, <3>3 DEF JobFails, Fault, TypeOK
    <3>. QED
      BY <2>2, <3>1, <3>2, <3>3
      DEF EventRecovers, CronRecovers, JobStep, JobCounts, JobSaves
  <2>3. CASE Restart
    BY <2>0, <2>3 DEF Restart, TypeOK
  <2>. QED
    BY <2>1, <2>2, <2>3
    DEF Next, CreateStream, Ingest, StartPolling, SetTimer, Tick, PollStep, pollVars, DelayEnds,
        Answer, NotFound, SaveLogs, Advance, CheckStatus, PollFails, EndStops, EndStores,
        EndFinalizes
<1>. QED BY <1>1, Invariant, PTL DEF Spec, RecoveryIsComplete
=============================================================================
