------------------------------ MODULE LogPolling ------------------------------
(***************************************************************************)
(* How the logs of one execution get from CloudWatch into execution_log:   *)
(* CloudwatchService.startPolling sets a timer that polls every second,    *)
(* whether or not the poll before has been answered; recovery jobs read    *)
(* the stream again when a successful execution has no logs.               *)
(*                                                                         *)
(* A log is its position in the stream and a token the position it stands  *)
(* behind: 0, the head, is also what an undefined token reads from.  The   *)
(* activities (startPolling calls, polls, recovery jobs, the update that   *)
(* ends the execution) interleave at their awaits.                         *)
(***************************************************************************)
EXTENDS Naturals

CONSTANTS
  Pollers,       \* calls of startPolling for the execution
  Guarded,       \* those of phase events, made only if isPolling says no
  Polls,         \* polls under way at once
  Jobs,          \* recovery jobs under way at once
  MaxLogs,       \* bound: logs the build writes
  MaxRetries,    \* failing polls in a row a poller puts up with (5 in the code)
  MaxAttempts,   \* pages a recovery job reads (10 in the code)
  MaxFaults,     \* bound: calls to CloudWatch or Postgres that throw
  MaxRestarts,   \* bound: restarts of the process
  None

ASSUME GuardedExist == Guarded \subseteq Pollers
ASSUME NoneIsNobody == None \notin Pollers
ASSUME BoundsAreNat == /\ MaxLogs \in Nat /\ MaxFaults \in Nat /\ MaxRestarts \in Nat
                       /\ MaxRetries \in Nat \ {0} /\ MaxAttempts \in Nat \ {0}

VARIABLES
  streamExists,  \* CloudWatch has the log group and the stream
  stream,        \* how many logs it holds
  saved,         \* the positions that have rows in execution_log
  status,        \* execution.status
  ending,        \* pc of the handler that ends the execution
  poller,        \* the closures of startPolling
  current,       \* CloudwatchService.pollers.get(executionId)
  poll,          \* polls under way
  job,           \* recovery jobs under way
  faults,
  restarts

vars == <<streamExists, stream, saved, status, ending, poller, current, poll, job,
          faults, restarts>>
cloudVars  == <<streamExists, stream>>
statusVars == <<status, ending>>

Position == 1..MaxLogs
Behind(from, to) == (from + 1)..to     \* the logs between two tokens
Terminal == {"success", "failed"}

FreshPoller == [state |-> "new", token |-> 0, retries |-> 0, delay |-> TRUE]
IdlePoll    == [pc |-> "idle", by |-> None, from |-> 0, to |-> 0]
IdleJob     == [pc |-> "idle", from |-> 0, to |-> 0, attempts |-> 0]

Init ==
  /\ streamExists = FALSE /\ stream = 0
  /\ saved = {}
  /\ status = "running" /\ ending = "idle"
  /\ poller = [p \in Pollers |-> FreshPoller]
  /\ current = None
  /\ poll = [t \in Polls |-> IdlePoll]
  /\ job = [j \in Jobs |-> IdleJob]
  /\ faults = 0 /\ restarts = 0

Fault == faults < MaxFaults /\ faults' = faults + 1

-----------------------------------------------------------------------------
(* CloudWatch: the stream appears some time after the build started.       *)

CreateStream ==
  /\ ~streamExists
  /\ streamExists' = TRUE
  /\ UNCHANGED <<stream, saved, statusVars, poller, current, poll, job, faults, restarts>>

Ingest ==
  /\ streamExists /\ stream < MaxLogs
  /\ stream' = stream + 1
  /\ UNCHANGED <<streamExists, saved, statusVars, poller, current, poll, job, faults, restarts>>

(* GetLogEvents: what follows the token, one page of it at a time; nothing *)
(* and the same token at the end of the stream.                            *)
Pages(from) == IF from < stream THEN (from + 1)..stream ELSE {from}

-----------------------------------------------------------------------------
(* startPolling: the project is looked up, then the timer is set.          *)

StartPolling(p) ==
  /\ poller[p].state = "new"
  /\ p \in Guarded => current = None
  /\ poller' = [poller EXCEPT ![p].state = "lookup"]
  /\ UNCHANGED <<cloudVars, saved, statusVars, current, poll, job, faults, restarts>>

(* pollers.set forgets the timer that was there.                           *)
SetTimer(p) ==
  /\ poller[p].state = "lookup"
  /\ \/ poller' = [poller EXCEPT ![p].state = "on"] /\ current' = p /\ UNCHANGED faults
     \/ Fault /\ poller' = [poller EXCEPT ![p].state = "off"] /\ UNCHANGED current
  /\ UNCHANGED <<cloudVars, saved, statusVars, poll, job, restarts>>

(* Only the timer in the map can be cleared.                               *)
Stopped(closures) ==
  IF current = None THEN closures ELSE [closures EXCEPT ![current].state = "off"]

StopPolling(closures) == poller' = Stopped(closures) /\ current' = None

-----------------------------------------------------------------------------
(* One poll.                                                               *)

pollVars == <<cloudVars, statusVars, job, restarts>>

PollGoto(t, rec) == poll' = [poll EXCEPT ![t] = rec]

Ask(t, p) == PollGoto(t, [IdlePoll EXCEPT !.pc = "fetch", !.by = p, !.from = poller[p].token])

(* The timer fires.  Until the first poll's three seconds have passed the  *)
(* polls that follow wait three seconds too.                               *)
Tick(t, p) ==
  /\ poller[p].state = "on" /\ poll[t].pc = "idle"
  /\ IF poller[p].delay
     THEN PollGoto(t, [IdlePoll EXCEPT !.pc = "delay", !.by = p])
     ELSE Ask(t, p)
  /\ UNCHANGED <<pollVars, saved, poller, current, faults>>

DelayEnds(t) ==
  /\ poll[t].pc = "delay"
  /\ poller' = [poller EXCEPT ![poll[t].by].delay = FALSE]
  /\ Ask(t, poll[t].by)
  /\ UNCHANGED <<pollVars, saved, current, faults>>

(* The token of the page after this one. *)
AdvancedTooFar(p, to) == [poller EXCEPT ![p].token = to + 1, ![p].retries = 0]

(* The poller's token and retry counter after a page.                      *)
Advanced(p, to) == [poller EXCEPT ![p].token = to, ![p].retries = 0]

(* The token moves when the page arrives, before its logs are stored. *)
AnswerAdvances(t) ==
  /\ poll[t].pc = "fetch" /\ streamExists
  /\ \E to \in Pages(poll[t].from) :
       /\ poller' = Advanced(poll[t].by, to)
       /\ PollGoto(t, [poll[t] EXCEPT !.pc = IF to = poll[t].from THEN "check" ELSE "save",
                                      !.to = to])
  /\ UNCHANGED <<pollVars, saved, current, faults>>

(* A page without logs goes straight to the token.                         *)
Answer(t) ==
  /\ poll[t].pc = "fetch" /\ streamExists
  /\ \E to \in Pages(poll[t].from) :
       IF to = poll[t].from
       THEN /\ poller' = Advanced(poll[t].by, to)
            /\ PollGoto(t, [poll[t] EXCEPT !.pc = "check", !.to = to])
       ELSE /\ PollGoto(t, [poll[t] EXCEPT !.pc = "save", !.to = to])
            /\ UNCHANGED poller
  /\ UNCHANGED <<pollVars, saved, current, faults>>

(* ResourceNotFoundException: this poll is over, the next one tries again. *)
NotFound(t) ==
  /\ poll[t].pc = "fetch" /\ ~streamExists
  /\ PollGoto(t, IdlePoll)
  /\ UNCHANGED <<pollVars, saved, poller, current, faults>>

(* logStorage.saveLogs commits one transaction.                            *)
SaveLogs(t) ==
  /\ poll[t].pc = "save"
  /\ saved' = saved \cup Behind(poll[t].from, poll[t].to)
  /\ PollGoto(t, [poll[t] EXCEPT !.pc = "advance"])
  /\ UNCHANGED <<pollVars, poller, current, faults>>

(* The logs go to the buffer and the token moves behind them.              *)
Advance(t) ==
  /\ poll[t].pc = "advance"
  /\ poller' = Advanced(poll[t].by, poll[t].to)
  /\ PollGoto(t, [poll[t] EXCEPT !.pc = "check"])
  /\ UNCHANGED <<pollVars, saved, current, faults>>

(* Only a successful execution counts as finished. *)
CheckSuccess(t) ==
  /\ poll[t].pc = "check"
  /\ IF status = "success" THEN StopPolling(poller) ELSE UNCHANGED <<poller, current>>
  /\ PollGoto(t, IdlePoll)
  /\ UNCHANGED <<pollVars, saved, faults>>

(* A finished execution is not polled any more.                            *)
CheckStatus(t) ==
  /\ poll[t].pc = "check"
  /\ IF status \in Terminal THEN StopPolling(poller) ELSE UNCHANGED <<poller, current>>
  /\ PollGoto(t, IdlePoll)
  /\ UNCHANGED <<pollVars, saved, faults>>

PollFails(t) ==
  /\ poll[t].pc \in {"fetch", "save", "check"}
  /\ Fault
  /\ LET p == poll[t].by
         counted == [poller EXCEPT ![p].retries = @ + 1]
     IN IF counted[p].retries >= MaxRetries
        THEN StopPolling(counted)
        ELSE poller' = counted /\ UNCHANGED current
  /\ PollGoto(t, IdlePoll)
  /\ UNCHANGED <<pollVars, saved>>

PollStep(t) ==
  \/ DelayEnds(t) \/ Answer(t) \/ NotFound(t) \/ SaveLogs(t) \/ Advance(t)
  \/ CheckStatus(t) \/ PollFails(t)

-----------------------------------------------------------------------------
(* The end of the execution: updateExecutionStatus stops the poller and    *)
(* saves the status; an event handler then stops it again and, when the    *)
(* build succeeded, looks whether logs are missing.                        *)

endVars == <<cloudVars, saved, poll, restarts>>

EndStops ==
  /\ status = "running" /\ ending = "idle"
  /\ ending' = "store"
  /\ StopPolling(poller)
  /\ UNCHANGED <<endVars, status, job, faults>>

(* The heartbeat ends here, an event handler goes on to finalizeExecution. *)
EndStores ==
  /\ ending = "store"
  /\ \/ status' \in Terminal /\ ending' \in {"done", "finalize"} /\ UNCHANGED faults
     \/ Fault /\ ending' = "idle" /\ UNCHANGED status
  /\ UNCHANGED <<endVars, poller, current, job>>

EndFinalizes ==
  /\ ending = "finalize"
  /\ ending' = IF status = "success" THEN "recover" ELSE "done"
  /\ StopPolling(poller)
  /\ UNCHANGED <<endVars, status, job, faults>>

-----------------------------------------------------------------------------
(* Recovery: checkAndRecoverLogs of the event handler and the cron job     *)
(* recoverMissingLogs, both for successful executions without any log.     *)

jobVars == <<cloudVars, status, poller, current, poll, restarts>>

JobGoto(j, rec) == job' = [job EXCEPT ![j] = rec]

EventRecovers(j) ==
  /\ ending = "recover" /\ job[j].pc = "idle"
  /\ ending' = "done"
  /\ JobGoto(j, [IdleJob EXCEPT !.pc = "count"])
  /\ UNCHANGED <<jobVars, saved, faults>>

CronRecovers(j) ==
  /\ status = "success" /\ job[j].pc = "idle" /\ saved = {}
  /\ JobGoto(j, [IdleJob EXCEPT !.pc = "count"])
  /\ UNCHANGED <<jobVars, saved, ending, faults>>

(* The test for missing logs the wrong way round. *)
JobCountsInverted(j) ==
  /\ job[j].pc = "count"
  /\ JobGoto(j, IF saved # {} THEN [IdleJob EXCEPT !.pc = "fetch"] ELSE IdleJob)
  /\ UNCHANGED <<jobVars, saved, ending, faults>>

(* autoRecoverLogsForExecution counts again.                               *)
JobCounts(j) ==
  /\ job[j].pc = "count"
  /\ JobGoto(j, IF saved = {} THEN [IdleJob EXCEPT !.pc = "fetch"] ELSE IdleJob)
  /\ UNCHANGED <<jobVars, saved, ending, faults>>

(* fetchAndSaveAllLogs: page after page until the token stands still.      *)
JobFetches(j) ==
  /\ job[j].pc = "fetch"
  /\ IF streamExists
     THEN \E to \in Pages(job[j].from) :
            JobGoto(j, IF to = job[j].from THEN IdleJob
                       ELSE [job[j] EXCEPT !.pc = "save", !.to = to, !.attempts = @ + 1])
     ELSE JobGoto(j, IdleJob)
  /\ UNCHANGED <<jobVars, saved, ending, faults>>

(* A page that could not be saved is skipped. *)
JobSavesOrSkips(j) ==
  /\ job[j].pc = "save"
  /\ saved' \in {saved, saved \cup Behind(job[j].from, job[j].to)}
  /\ JobGoto(j, IF job[j].attempts = MaxAttempts THEN IdleJob
                ELSE [job[j] EXCEPT !.pc = "fetch", !.from = job[j].to])
  /\ UNCHANGED <<jobVars, ending, faults>>

JobSaves(j) ==
  /\ job[j].pc = "save"
  /\ saved' = saved \cup Behind(job[j].from, job[j].to)
  /\ JobGoto(j, IF job[j].attempts = MaxAttempts THEN IdleJob
                ELSE [job[j] EXCEPT !.pc = "fetch", !.from = job[j].to])
  /\ UNCHANGED <<jobVars, ending, faults>>

(* Best effort: a failing call ends the job, what it has saved stays.      *)
JobFails(j) ==
  /\ job[j].pc # "idle"
  /\ Fault
  /\ JobGoto(j, IdleJob)
  /\ UNCHANGED <<jobVars, saved, ending>>

JobStep(j) == JobCounts(j) \/ JobFetches(j) \/ JobSaves(j) \/ JobFails(j)

-----------------------------------------------------------------------------
(* What the process holds in memory is gone; another handler (the          *)
(* heartbeat, in the end) ends an execution that was not ended yet.        *)
Restart ==
  /\ restarts < MaxRestarts
  /\ restarts' = restarts + 1
  /\ poller'   = [p \in Pollers |-> FreshPoller]
  /\ current'  = None
  /\ poll'     = [t \in Polls |-> IdlePoll]
  /\ job'      = [j \in Jobs |-> IdleJob]
  /\ ending'   = IF status = "running" THEN "idle" ELSE "done"
  /\ UNCHANGED <<cloudVars, saved, status, faults>>

Next ==
  \/ CreateStream \/ Ingest
  \/ \E p \in Pollers : StartPolling(p) \/ SetTimer(p)
  \/ \E t \in Polls, p \in Pollers : Tick(t, p)
  \/ \E t \in Polls : PollStep(t)
  \/ EndStops \/ EndStores \/ EndFinalizes
  \/ \E j \in Jobs : EventRecovers(j) \/ CronRecovers(j) \/ JobStep(j)
  \/ Restart

Spec == Init /\ [][Next]_vars

(***************************************************************************)
(* Fairness.  Every call settles, so every poll, job and handler goes on;  *)
(* the timer fires every second, the heartbeat ends an execution whose     *)
(* build has ended, the cron looks for missing logs every five minutes;    *)
(* CloudWatch makes the stream of a build that logs anything.              *)
(***************************************************************************)
Fairness ==
  /\ WF_vars(CreateStream)
  /\ \A p \in Pollers : WF_vars(SetTimer(p)) /\ WF_vars(\E t \in Polls : Tick(t, p))
  /\ \A t \in Polls : WF_vars(PollStep(t))
  /\ WF_vars(EndStops \/ EndStores \/ EndFinalizes)
  /\ SF_vars(\E j \in Jobs : CronRecovers(j))
  /\ \A j \in Jobs : WF_vars(JobStep(j))

FairSpec == Spec /\ Fairness

-----------------------------------------------------------------------------
PollState == [pc : {"idle", "delay", "fetch", "save", "advance", "check"},
              by : Pollers \cup {None}, from : 0..MaxLogs, to : 0..MaxLogs]
JobState  == [pc : {"idle", "count", "fetch", "save"},
              from : 0..MaxLogs, to : 0..MaxLogs, attempts : 0..MaxAttempts]

TypeOK ==
  /\ streamExists \in BOOLEAN /\ stream \in 0..MaxLogs
  /\ saved \subseteq Position
  /\ status \in {"running"} \cup Terminal
  /\ ending \in {"idle", "store", "finalize", "recover", "done"}
  /\ poller \in [Pollers -> [state : {"new", "lookup", "on", "off"}, token : 0..MaxLogs,
                             retries : Nat, delay : BOOLEAN]]
  /\ current \in Pollers \cup {None}
  /\ poll \in [Polls -> PollState]
  /\ job \in [Jobs -> JobState]
  /\ faults \in Nat /\ restarts \in Nat

(* However polls overlap, fail and overtake each other, a poller's token   *)
(* never stands behind a log that is not stored: none is skipped while the *)
(* execution is polled.                                                    *)
NothingSkipped == \A p \in Pollers : 1..poller[p].token \subseteq saved

(* A recovery job that stops because CloudWatch has no more has stored the *)
(* whole stream, whatever polls store at the same time.                    *)
RecoveryIsComplete ==
  [][\A j \in Jobs : job[j].pc = "fetch" /\ streamExists /\ job'[j].pc = "idle" =>
       faults' > faults \/ restarts' > restarts \/ 1..stream \subseteq saved']_vars

(* Polling ends with the execution: from some time after its final status  *)
(* was stored no timer fires any more.  ("폴링 중지", logs.service.ts:228) *)
PollingStops ==
  status \in Terminal ~> [](\A p \in Pollers : poller[p].state # "on")

(* A successful execution that logged something does not stay without logs *)
(* in the database, though its poller may never have started.              *)
SuccessHasLogs == (status = "success" /\ stream > 0) ~> saved # {}

=============================================================================
