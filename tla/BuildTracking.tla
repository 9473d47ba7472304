---------------------------- MODULE BuildTracking ----------------------------
(***************************************************************************)
(* How otto-handler follows a CodeBuild build: the row of the execution    *)
(* table that mirrors it, the EventBridge events that move the row, the    *)
(* heartbeat that repairs it and the deployment started when it succeeds.  *)
(*                                                                         *)
(* Several activities of the one Node process interleave at every await:   *)
(* POST /events/process handlers (Handlers), runs of the stale-execution   *)
(* check (Checkers) and startBuild.  An activity is a record of its pc and *)
(* of the entities it holds in memory between two database calls.  `save`  *)
(* of a TypeORM entity is two of them: a SELECT finds the columns in which *)
(* the row differs from the entity, an UPDATE writes these columns.  A copy*)
(* loaded before somebody else's update overwrites it, and two saves that  *)
(* overlap leave columns of both.                                          *)
(***************************************************************************)
EXTENDS Naturals, FiniteSets, Functions

CONSTANTS
  Builds,          \* CodeBuild builds; the UUID of a build is its executionId
  AutoIds,         \* ids the database generates for rows made by an event
  Pipelines,       \* the pipelines of one project
  Edited,          \* those their user edits meanwhile
  Handlers,        \* concurrent /events/process and status-patch requests
  Checkers,        \* concurrent runs of the stale-execution check
  Outcomes,        \* build statuses CodeBuild can end with
  MaxDeliveries,   \* how often EventBridge may deliver one event
  MaxRestarts,     \* how often the process may be restarted
  RedisReliable,   \* FALSE: SETNX may throw, and checkDuplicate fails open
  MaxFaults,       \* how many calls to Postgres, CodeBuild or ECS may throw
  PatchStatuses,   \* statuses a client may PATCH into a row ({}: nobody does)
  None

ASSUME DistinctIds    == Builds \cap AutoIds = {}
ASSUME NoneIsNothing  == None \notin Builds \cup AutoIds \cup Pipelines
ASSUME OutcomesKnown  == Outcomes \subseteq {"SUCCEEDED", "FAILED", "STOPPED", "TIMED_OUT", "FAULT"}
ASSUME BoundsAreNat   == MaxDeliveries \in Nat /\ MaxRestarts \in Nat /\ MaxFaults \in Nat
ASSUME EditedExist    == Edited \subseteq Pipelines
ASSUME SwitchIsBool   == RedisReliable \in BOOLEAN
ASSUME PatchesAreStatuses == PatchStatuses \subseteq {"pending", "running", "success", "failed"}

VARIABLES
  aws,          \* what CodeBuild knows of each build
  builtFor,     \* the pipeline (PIPELINE_ID variable) a build was started for
  starter,      \* pc of executePipeline / startBuild, per build
  image,        \* pipeline.ecrImageUri, named by the build that will push it
  latest,       \* the pipeline with an image that was updated last
  editor,       \* the pipeline entity an edit has loaded and not saved yet
  executions,   \* the execution table
  marked,       \* ids of events whose Redis key exists
  deliveries,   \* how often each event has been delivered
  handler,      \* request handlers
  checker,      \* stale-execution checks
  triggers,     \* how often each build has started a deployment
  shipped,      \* the deployments started: of which build, pipeline and image
  beside,       \* per build, the pipelines somebody else wrote to, or was about
                \* to write to, at some time since it started
  faults,       \* calls that have thrown so far
  restarts

vars == <<aws, builtFor, starter, image, latest, editor, executions, marked, deliveries,
          handler, checker, triggers, shipped, beside, faults, restarts>>
releaseVars == <<builtFor, image, latest, editor>>
historyVars == <<triggers, shipped, beside>>

Ids      == Builds \cup AutoIds
Status   == {"pending", "running", "success", "failed"}
Terminal == {"success", "failed"}

(* A row, as far as the properties tell rows apart: env says whether the   *)
(* OTTO_* variables of the build have been merged into row.metadata.       *)
Row == [build : Builds, status : Status, env : BOOLEAN]

(* Which of its columns a save is about to write.                          *)
Columns   == [status : BOOLEAN, env : BOOLEAN]
NoColumns == [status |-> FALSE, env |-> FALSE]

(* An event is identified by its content: EventBridge keeps the id of an   *)
(* event when it delivers it again.  PHASE stands for the phase changes.   *)
Event == [build : Builds, kind : {"IN_PROGRESS", "PHASE"} \cup Outcomes]

Emitted == {e \in Event : /\ aws[e.build] # "NOT_STARTED"
                          /\ e.kind \in {"IN_PROGRESS", "PHASE", aws[e.build]}}

(* A pipeline entity in the memory of updatePipeline: whether save has     *)
(* compared it with the row, and found another image there.                *)
Edit == [pipeline : Pipelines, image : Builds \cup {None}, compared : BOOLEAN, differs : BOOLEAN]

ASSUME NoneIsNoValue == None \notin Row \cup Event \cup Status \cup Edit

RowsOf(b) == {r \in Ids : executions[r] # None /\ executions[r].build = b}

(* A mapping that forgets to translate the status. *)
EventStatusUntranslated(kind, old) == kind

(* statusMap of updateExecutionStatus: a status it does not list keeps the *)
(* one of the entity the handler loaded.                                   *)
EventStatus(kind, old) ==
  CASE kind = "IN_PROGRESS"             -> "running"
    [] kind = "SUCCEEDED"               -> "success"
    [] kind \in {"FAILED", "STOPPED"}   -> "failed"
    [] OTHER                            -> old

(* What logsService.updateExecutionStatus makes of the row it loaded.      *)
Updated(row, status, withEnv) == [row EXCEPT !.status = status, !.env = @ \/ withEnv]

(* The SELECT of a save: the columns in which the entity differs from the  *)
(* row.  Metadata may differ in more than env, it may be written anyway.   *)
Differing(entity, row) ==
  {columns \in Columns : /\ columns.status = (entity.status # row.status)
                         /\ entity.env # row.env => columns.env}

(* Its UPDATE.                                                             *)
Merged(row, entity, columns) ==
  [row EXCEPT !.status = IF columns.status THEN entity.status ELSE @,
              !.env    = IF columns.env    THEN entity.env    ELSE @]

Fault == faults < MaxFaults /\ faults' = faults + 1

IdleHandler == [pc |-> "idle", event |-> None, exec |-> None, entity |-> None,
                copy |-> None, to |-> None, columns |-> NoColumns, pipeline |-> None]
IdleChecker == [pc |-> "idle", mode |-> "cron", todo |-> [r \in Ids |-> None],
                exec |-> None, copy |-> None, to |-> None, columns |-> NoColumns]

Init ==
  /\ aws        = [b \in Builds |-> "NOT_STARTED"]
  /\ builtFor   = [b \in Builds |-> None]
  /\ starter    = [b \in Builds |-> "idle"]
  /\ image      = [p \in Pipelines |-> None]
  /\ latest     = None
  /\ editor     = None
  /\ executions = [r \in Ids |-> None]
  /\ marked     = {}
  /\ deliveries = [e \in Event |-> 0]
  /\ handler    = [h \in Handlers |-> IdleHandler]
  /\ checker    = [c \in Checkers |-> IdleChecker]
  /\ triggers   = [b \in Builds |-> 0]
  /\ shipped    = {}
  /\ beside     = [b \in Builds |-> {}]
  /\ faults     = 0
  /\ restarts   = 0

-----------------------------------------------------------------------------
(* executePipeline: StartBuild, then the row, then the pipeline's image.   *)

(* Who has a pipeline in hand to write to it: requests for its image, an   *)
(* edit, a deployment for its URL.                                         *)
Starting  == {b \in Builds : starter[b] \in {"record", "image"}}
Deploying == {h \in Handlers : handler[h].pc = "url"}
InHand    == {builtFor[b] : b \in Starting} \cup {handler[h].pipeline : h \in Deploying}
               \cup (IF editor = None THEN {} ELSE {editor.pipeline})

(* The pipeline p is taken in hand, beside every build that has started.   *)
Beside(p) == [b \in Builds |-> IF starter[b] = "idle" THEN {} ELSE beside[b] \cup {p}]

StartBuild(b, p) ==
  /\ starter[b] = "idle"
  /\ starter'  = [starter EXCEPT ![b] = "record"]
  /\ aws'      = [aws EXCEPT ![b] = "IN_PROGRESS"]
  /\ builtFor' = [builtFor EXCEPT ![b] = p]
  /\ beside'   = [Beside(p) EXCEPT ![b] = InHand]
  /\ UNCHANGED <<image, latest, editor, executions, marked, deliveries, handler, checker,
                 triggers, shipped, faults, restarts>>

(* The row gets the build's UUID as its primary key.  No poller is started: *)
(* moduleRef.get('CloudwatchService') names a token nobody registers, the   *)
(* error is caught.  A failed save is caught too and the build goes on.     *)
RecordExecution(b) ==
  /\ starter[b] = "record"
  /\ starter' = [starter EXCEPT ![b] = "image"]
  /\ \/ executions' = [executions EXCEPT
           ![b] = [build |-> b, status |-> "running", env |-> FALSE]]
        /\ UNCHANGED faults
     \/ Fault /\ UNCHANGED executions
  /\ UNCHANGED <<aws, releaseVars, marked, deliveries, handler, checker, historyVars, restarts>>

(* The pipeline points at the image while the build that pushes it runs.   *)
SetImage(b) ==
  /\ starter[b] = "image"
  /\ starter' = [starter EXCEPT ![b] = "done"]
  /\ image'   = [image EXCEPT ![builtFor[b]] = b]
  /\ latest'  = builtFor[b]
  /\ UNCHANGED <<aws, builtFor, editor, executions, marked, deliveries, handler, checker,
                 historyVars, faults, restarts>>

(* Any other call of the request throws: it ends, CodeBuild builds on.     *)
StartFails(b) ==
  /\ starter[b] \in {"record", "image"}
  /\ Fault
  /\ starter' = [starter EXCEPT ![b] = "failed"]
  /\ UNCHANGED <<aws, releaseVars, executions, marked, deliveries, handler, checker,
                 historyVars, restarts>>

(* updatePipeline loads the pipeline ...                                   *)
EditPipeline(p) ==
  /\ p \in Edited
  /\ editor = None
  /\ editor' = [pipeline |-> p, image |-> image[p], compared |-> FALSE, differs |-> FALSE]
  /\ beside' = Beside(p)
  /\ UNCHANGED <<aws, builtFor, image, latest, starter, executions, marked, deliveries,
                 handler, checker, triggers, shipped, faults, restarts>>

(* ... compares it with the row, which may have another image by then ...  *)
ComparePipeline ==
  /\ editor # None /\ ~editor.compared
  /\ editor' = [editor EXCEPT !.compared = TRUE, !.differs = image[editor.pipeline] # editor.image]
  /\ UNCHANGED <<aws, builtFor, image, latest, starter, executions, marked, deliveries,
                 handler, checker, historyVars, faults, restarts>>

(* ... and writes what differs, the image as it was when it was loaded     *)
(* included; an edit that changes nothing writes nothing.  The pipeline    *)
(* updated last may lose its image: another one is the latest.             *)
SavePipeline ==
  /\ editor # None /\ editor.compared
  /\ image' = IF editor.differs THEN [image EXCEPT ![editor.pipeline] = editor.image] ELSE image
  /\ \/ ~editor.differs /\ latest' = latest
     \/ latest' \in IF image'[editor.pipeline] # None THEN {editor.pipeline}
                    ELSE IF latest # editor.pipeline THEN {latest}
                    ELSE LET imaged == {p \in Pipelines : image'[p] # None}
                         IN IF imaged = {} THEN {None} ELSE imaged
  /\ editor' = None
  /\ UNCHANGED <<aws, builtFor, starter, executions, marked, deliveries, handler,
                 checker, historyVars, faults, restarts>>

(* CodeBuild ends the build and emits the event of its outcome.  A build   *)
(* that ends before its request has stored the image is beside itself.     *)
BuildEnds(b, outcome) ==
  /\ aws[b] = "IN_PROGRESS"
  /\ aws'    = [aws EXCEPT ![b] = outcome]
  /\ beside' = IF starter[b] = "done" THEN beside ELSE [beside EXCEPT ![b] = @ \cup {builtFor[b]}]
  /\ UNCHANGED <<releaseVars, starter, executions, marked, deliveries, handler,
                 checker, triggers, shipped, faults, restarts>>

-----------------------------------------------------------------------------
(* POST /events/process.                                                   *)

requestVars == <<aws, starter, releaseVars, checker, restarts>>
quietVars   == <<requestVars, faults>>

Goto(h, rec) == handler' = [handler EXCEPT ![h] = rec]
Reply(h)     == Goto(h, IdleHandler)

(* EventBridge delivers at least once and in any order.                    *)
Receive(h, e) ==
  /\ handler[h].pc = "idle"
  /\ e \in Emitted /\ deliveries[e] < MaxDeliveries
  /\ deliveries' = [deliveries EXCEPT ![e] = @ + 1]
  /\ Goto(h, [IdleHandler EXCEPT !.pc = "dedup", !.event = e])
  /\ UNCHANGED <<quietVars, executions, marked, historyVars>>

(* GET then SET: the event is processed whether or not it was marked. *)
DedupNewUnchecked(h) ==
  /\ handler[h].pc = "dedup"
  /\ marked' = marked \cup {handler[h].event}
  /\ Goto(h, [handler[h] EXCEPT !.pc = "find"])
  /\ UNCHANGED <<quietVars, executions, deliveries, historyVars>>

(* SETNX marks the event before it is processed; an error counts as "new". *)
DedupNew(h) ==
  /\ handler[h].pc = "dedup"
  /\ \/ handler[h].event \notin marked /\ marked' = marked \cup {handler[h].event}
     \/ ~RedisReliable /\ UNCHANGED marked
  /\ Goto(h, [handler[h] EXCEPT !.pc = "find"])
  /\ UNCHANGED <<quietVars, executions, deliveries, historyVars>>

DedupSkip(h) ==
  /\ handler[h].pc = "dedup"
  /\ handler[h].event \in marked
  /\ Reply(h)
  /\ UNCHANGED <<quietVars, executions, marked, deliveries, historyVars>>

(* findExecutionByBuildId found a row, any row of this build: a phase      *)
(* change only makes sure that it is polled, a state change updates it.    *)
FindByBuildId(h) ==
  /\ handler[h].pc = "find"
  /\ \E r \in RowsOf(handler[h].event.build) :
       IF handler[h].event.kind = "PHASE"
       THEN Reply(h)
       ELSE Goto(h, [handler[h] EXCEPT !.pc = "load", !.exec = r, !.entity = executions[r],
                        !.to = EventStatus(handler[h].event.kind, executions[r].status)])
  /\ UNCHANGED <<quietVars, executions, marked, deliveries, historyVars>>

(* It found none, or threw and answered null: only IN_PROGRESS goes on.    *)
FindNothing(h) ==
  /\ handler[h].pc = "find"
  /\ \/ RowsOf(handler[h].event.build) = {} /\ UNCHANGED faults
     \/ Fault
  /\ IF handler[h].event.kind = "IN_PROGRESS"
     THEN Goto(h, [handler[h] EXCEPT !.pc = "findById"])
     ELSE Reply(h)
  /\ UNCHANGED <<requestVars, executions, marked, deliveries, historyVars>>

FindById(h) ==
  /\ handler[h].pc = "findById"
  /\ LET row == executions[handler[h].event.build] IN
       IF row = None
       THEN Goto(h, [handler[h] EXCEPT !.pc = "create"])
       ELSE Goto(h, [handler[h] EXCEPT !.pc = "adopt", !.exec = handler[h].event.build,
                                       !.entity = row, !.copy = row, !.to = "running"])
  /\ UNCHANGED <<quietVars, executions, marked, deliveries, historyVars>>

(* createNewExecution: a new row under a generated id, then polled.        *)
Create(h) ==
  /\ handler[h].pc = "create"
  /\ \E r \in AutoIds :
       /\ executions[r] = None
       /\ executions' = [executions EXCEPT
            ![r] = [build |-> handler[h].event.build, status |-> "running", env |-> FALSE]]
  /\ Reply(h)
  /\ UNCHANGED <<quietVars, marked, deliveries, historyVars>>

(* logsService.updateExecutionStatus loads the row again and changes it.   *)
Load(h) ==
  /\ handler[h].pc = "load"
  /\ Goto(h, [handler[h] EXCEPT !.pc = "save",
       !.copy = Updated(executions[handler[h].exec], handler[h].to, handler[h].event # None)])
  /\ UNCHANGED <<quietVars, executions, marked, deliveries, historyVars>>

(* The SELECT of either save.                                              *)
Compare(h) ==
  /\ handler[h].pc \in {"adopt", "save"}
  /\ \E columns \in Differing(handler[h].copy, executions[handler[h].exec]) :
       Goto(h, [handler[h] EXCEPT !.pc = IF @ = "adopt" THEN "adopting" ELSE "saving",
                                  !.columns = columns])
  /\ UNCHANGED <<quietVars, executions, marked, deliveries, historyVars>>

(* Its UPDATE.                                                             *)
WriteCopy(h) ==
  executions' = [executions EXCEPT
    ![handler[h].exec] = Merged(@, handler[h].copy, handler[h].columns)]

(* The pre-created row is saved with its awsBuildId, then polled, and goes *)
(* on to its status update.                                                *)
Adopt(h) ==
  /\ handler[h].pc = "adopting"
  /\ WriteCopy(h)
  /\ Goto(h, [handler[h] EXCEPT !.pc = "load", !.copy = None, !.columns = NoColumns])
  /\ UNCHANGED <<quietVars, marked, deliveries, historyVars>>

(* Every final status triggers a deployment. *)
DeploysEnded(event) == event # None /\ event.kind \notin {"IN_PROGRESS", "PHASE"}

(* finalizeExecution: only a build that succeeded is deployed.             *)
Deploys(event) == event # None /\ event.kind = "SUCCEEDED"

Save(h) ==
  /\ handler[h].pc = "saving"
  /\ WriteCopy(h)
  /\ IF Deploys(handler[h].event) THEN Goto(h, [handler[h] EXCEPT !.pc = "trigger"])
                                  ELSE Reply(h)
  /\ UNCHANGED <<quietVars, marked, deliveries, historyVars>>

(* The pipeline of the project that was updated last, as builds were found *)
(* before they had OTTO_* variables.                                       *)
TargetPipelineLatest(h) == latest

(* triggerDeploymentAfterBuild reads the metadata of the entity loaded by  *)
(* FindByBuildId: with the OTTO_* variables it deploys their pipeline,     *)
(* without them the pipeline of the project that was updated last.         *)
TargetPipeline(h) ==
  IF handler[h].entity.env THEN builtFor[handler[h].event.build] ELSE latest

Trigger(h) ==
  /\ handler[h].pc = "trigger"
  /\ LET p == TargetPipeline(h)
     IN IF p # None THEN Goto(h, [handler[h] EXCEPT !.pc = "deploy", !.pipeline = p]) ELSE Reply(h)
  /\ UNCHANGED <<quietVars, executions, marked, deliveries, historyVars>>

(* Nobody had the build's pipeline in hand meanwhile, nor, if the pipeline *)
(* was found as the one updated last, any other.                           *)
Undisturbed(h) ==
  LET b == handler[h].event.build IN
  IF handler[h].entity.env THEN builtFor[b] \notin beside[b] ELSE beside[b] = {}

(* deployAfterBuildSuccess reads the image of the pipeline and deploys it. *)
Deploy(h) ==
  /\ handler[h].pc = "deploy"
  /\ LET b == handler[h].event.build
         p == handler[h].pipeline
     IN IF image[p] = None THEN Reply(h) /\ UNCHANGED historyVars
        ELSE /\ triggers' = [triggers EXCEPT ![b] = @ + 1]
             /\ shipped'  = shipped \cup {[build |-> b, pipeline |-> p, image |-> image[p],
                                           undisturbed |-> Undisturbed(h)]}
             /\ beside'   = Beside(p)
             /\ Goto(h, [IdleHandler EXCEPT !.pc = "url", !.pipeline = p])
  /\ UNCHANGED <<quietVars, executions, marked, deliveries>>

(* A first deployment stores its URL in the pipeline, which so is the one  *)
(* updated last; others leave it alone.                                    *)
SetUrl(h) ==
  /\ handler[h].pc = "url"
  /\ latest' \in {latest, IF image[handler[h].pipeline] = None THEN latest ELSE handler[h].pipeline}
  /\ Reply(h)
  /\ UNCHANGED <<aws, starter, builtFor, image, editor, checker, restarts, faults, executions,
                 marked, deliveries, historyVars>>

(* A call fails: the error ends the request, the event stays marked.       *)
RequestFails(h) ==
  /\ Fault
  /\ handler[h].pc \notin {"idle", "dedup", "find"}
  /\ Reply(h)
  /\ UNCHANGED <<requestVars, executions, marked, deliveries, historyVars>>

(* PATCH /logs/executions/:id/status: the client's status, same update.    *)
Patch(h, r, status) ==
  /\ handler[h].pc = "idle"
  /\ executions[r] # None
  /\ Goto(h, [IdleHandler EXCEPT !.pc = "load", !.exec = r, !.to = status])
  /\ UNCHANGED <<quietVars, executions, marked, deliveries, historyVars>>

RequestStep(h) ==
  \/ DedupNew(h)  \/ DedupSkip(h)  \/ FindByBuildId(h) \/ FindNothing(h)
  \/ FindById(h)  \/ Create(h)     \/ Load(h)          \/ Compare(h)
  \/ Adopt(h)     \/ Save(h)       \/ Trigger(h)       \/ Deploy(h)
  \/ SetUrl(h)    \/ RequestFails(h)

-----------------------------------------------------------------------------
(* checkStaleExecutions (cron, every minute) and                           *)
(* checkStaleExecutionsManually (POST /executions/check-stale).            *)

checkVars == <<aws, starter, releaseVars, handler, marked, deliveries,
               historyVars, restarts>>
calmVars  == <<checkVars, faults>>

CheckGoto(c, rec) == checker' = [checker EXCEPT ![c] = rec]

(* The check is done with its current row.                                 *)
NextRow(c) ==
  LET todo == [checker[c].todo EXCEPT ![checker[c].exec] = None]
  IN IF \A r \in Ids : todo[r] = None
     THEN CheckGoto(c, IdleChecker)
     ELSE CheckGoto(c, [IdleChecker EXCEPT !.pc = "ask", !.mode = checker[c].mode, !.todo = todo])

(* The rows RUNNING and not updated for five minutes: any running rows.    *)
CheckFind(c, mode, stale) ==
  /\ checker[c].pc = "idle"
  /\ stale # {}
  /\ \A r \in stale : executions[r] # None /\ executions[r].status = "running"
  /\ CheckGoto(c, [IdleChecker EXCEPT !.pc = "ask", !.mode = mode,
                     !.todo = [r \in Ids |-> IF r \in stale THEN executions[r] ELSE None]])
  /\ UNCHANGED <<calmVars, executions>>

(* STOPPED left out of the heartbeat's cases. *)
CheckAskIgnoresStopped(c) ==
  /\ checker[c].pc = "ask"
  /\ \E r \in Ids :
       /\ checker[c].todo[r] # None
       /\ LET answer == aws[checker[c].todo[r].build] IN
            CheckGoto(c, [checker[c] EXCEPT
              !.exec = r,
              !.pc   = IF answer \in {"IN_PROGRESS", "STOPPED"} THEN "skip" ELSE "load",
              !.to   = IF answer = "SUCCEEDED" THEN "success" ELSE "failed"])
  /\ UNCHANGED <<calmVars, executions>>

(* The heartbeat takes every build that has ended for a successful one. *)
CheckAskEndedSucceeds(c) ==
  /\ checker[c].pc = "ask"
  /\ \E r \in Ids :
       /\ checker[c].todo[r] # None
       /\ CheckGoto(c, [checker[c] EXCEPT
            !.exec = r,
            !.pc   = IF aws[checker[c].todo[r].build] = "IN_PROGRESS" THEN "skip" ELSE "load",
            !.to   = "success"])
  /\ UNCHANGED <<calmVars, executions>>

(* The cron leaves a status it does not list alone, the manual check takes *)
(* every status but SUCCEEDED for a failure.                               *)
Unknown(c, answer) == checker[c].mode = "cron" /\ answer = "FAULT"

(* The answer of getBuildStatus for the next row: still running (then the  *)
(* cron saves the entity loaded by CheckFind to move its updatedAt, and    *)
(* its other columns with it), unknown, or an outcome to record.           *)
CheckAsk(c) ==
  /\ checker[c].pc = "ask"
  /\ \E r \in Ids :
       /\ checker[c].todo[r] # None
       /\ LET answer  == aws[checker[c].todo[r].build]
              touches == answer = "IN_PROGRESS" /\ checker[c].mode = "cron"
          IN CheckGoto(c, [checker[c] EXCEPT
               !.exec = r,
               !.pc   = IF touches THEN "save"
                        ELSE IF answer = "IN_PROGRESS" \/ Unknown(c, answer) THEN "skip"
                        ELSE "load",
               !.copy = IF touches THEN checker[c].todo[r] ELSE None,
               !.to   = IF answer = "SUCCEEDED" THEN "success" ELSE "failed"])
  /\ UNCHANGED <<calmVars, executions>>

CheckSkip(c) ==
  /\ \/ checker[c].pc = "skip" /\ UNCHANGED faults
     \/ checker[c].pc \in {"load", "save", "saving"} /\ Fault
  /\ NextRow(c)
  /\ UNCHANGED <<checkVars, executions>>

CheckLoad(c) ==
  /\ checker[c].pc = "load"
  /\ CheckGoto(c, [checker[c] EXCEPT !.pc = "save",
       !.copy = Updated(executions[checker[c].exec], checker[c].to, FALSE)])
  /\ UNCHANGED <<calmVars, executions>>

CheckCompare(c) ==
  /\ checker[c].pc = "save"
  /\ \E columns \in Differing(checker[c].copy, executions[checker[c].exec]) :
       CheckGoto(c, [checker[c] EXCEPT !.pc = "saving", !.columns = columns])
  /\ UNCHANGED <<calmVars, executions>>

CheckSave(c) ==
  /\ checker[c].pc = "saving"
  /\ executions' = [executions EXCEPT
       ![checker[c].exec] = Merged(@, checker[c].copy, checker[c].columns)]
  /\ NextRow(c)
  /\ UNCHANGED calmVars

CheckStep(c) == CheckAsk(c) \/ CheckSkip(c) \/ CheckLoad(c) \/ CheckCompare(c) \/ CheckSave(c)

-----------------------------------------------------------------------------
(* The process dies and comes back: what it held in memory is gone.        *)
Restart ==
  /\ restarts < MaxRestarts
  /\ restarts' = restarts + 1
  /\ handler'  = [h \in Handlers |-> IdleHandler]
  /\ checker'  = [c \in Checkers |-> IdleChecker]
  /\ starter'  = [b \in Builds |-> IF b \in Starting THEN "failed" ELSE starter[b]]
  /\ editor'   = None
  /\ UNCHANGED <<aws, builtFor, image, latest, executions, marked, deliveries, historyVars, faults>>

Next ==
  \/ \E b \in Builds, p \in Pipelines : StartBuild(b, p)
  \/ \E b \in Builds : RecordExecution(b) \/ SetImage(b) \/ StartFails(b)
  \/ (\E p \in Pipelines : EditPipeline(p)) \/ ComparePipeline \/ SavePipeline
  \/ \E b \in Builds, outcome \in Outcomes : BuildEnds(b, outcome)
  \/ \E h \in Handlers, e \in Event : Receive(h, e)
  \/ \E h \in Handlers : RequestStep(h)
  \/ \E h \in Handlers, r \in Ids, s \in PatchStatuses : Patch(h, r, s)
  \/ \E c \in Checkers, mode \in {"cron", "manual"}, stale \in SUBSET Ids : CheckFind(c, mode, stale)
  \/ \E c \in Checkers : CheckStep(c)
  \/ Restart

Spec == Init /\ [][Next]_vars

(***************************************************************************)
(* Fairness.  Node's event loop runs every continuation whose promise has  *)
(* settled, and every call settles: the database, Redis and AWS clients    *)
(* answer or reject.  The cron runs every minute, so a row that is running *)
(* over and over when a check starts is picked over and over; the outcome  *)
(* of a build comes because CodeBuild enforces timeoutInMinutes.           *)
(***************************************************************************)
HeartbeatOn(r) ==
  \E c \in Checkers, stale \in SUBSET Ids : r \in stale /\ CheckFind(c, "cron", stale)

Fairness ==
  /\ \A h \in Handlers : WF_vars(RequestStep(h))
  /\ \A c \in Checkers : WF_vars(CheckStep(c))
  /\ \A r \in Ids : SF_vars(HeartbeatOn(r))
  /\ \A b \in Builds : /\ WF_vars(RecordExecution(b) \/ SetImage(b))
                       /\ WF_vars(\E outcome \in Outcomes : BuildEnds(b, outcome))

FairSpec == Spec /\ Fairness

-----------------------------------------------------------------------------
HandlerState ==
  [pc : {"idle", "dedup", "find", "findById", "create", "adopt", "adopting", "load", "save",
         "saving", "trigger", "deploy", "url"},
   event : Event \cup {None}, exec : Ids \cup {None}, entity : Row \cup {None},
   copy : Row \cup {None}, to : Status \cup {None}, columns : Columns,
   pipeline : Pipelines \cup {None}]

CheckerState ==
  [pc : {"idle", "ask", "skip", "load", "save", "saving"}, mode : {"cron", "manual"},
   todo : [Ids -> Row \cup {None}], exec : Ids \cup {None}, copy : Row \cup {None},
   to : Status \cup {None}, columns : Columns]

TypeOK ==
  /\ aws \in [Builds -> {"NOT_STARTED", "IN_PROGRESS"} \cup Outcomes]
  /\ builtFor \in [Builds -> Pipelines \cup {None}]
  /\ starter \in [Builds -> {"idle", "record", "image", "done", "failed"}]
  /\ image \in [Pipelines -> Builds \cup {None}]
  /\ latest \in Pipelines \cup {None}
  /\ editor \in Edit \cup {None}
  /\ executions \in [Ids -> Row \cup {None}]
  /\ marked \subseteq Event
  /\ deliveries \in [Event -> Nat]
  /\ handler \in [Handlers -> HandlerState]
  /\ checker \in [Checkers -> CheckerState]
  /\ triggers \in [Builds -> Nat]
  /\ shipped \subseteq [build : Builds, pipeline : Pipelines, image : Builds, undisturbed : BOOLEAN]
  /\ beside \in [Builds -> SUBSET Pipelines]
  /\ faults \in Nat /\ restarts \in Nat

(* A final status in the table is the outcome CodeBuild reported, whatever *)
(* order events, heartbeats and stale copies arrive in: no row says        *)
(* success of a build that failed, or failed of one that did not.          *)
StatusIsReported ==
  \A r \in Ids : executions[r] # None =>
    LET outcome == aws[executions[r].build] IN
    /\ executions[r].status = "success" => outcome = "SUCCEEDED"
    /\ executions[r].status = "failed"  => outcome \in Outcomes \ {"SUCCEEDED"}

(* However often EventBridge delivers the SUCCEEDED event and however the  *)
(* handlers interleave, a build starts at most one deployment.             *)
AtMostOneDeployment == \A b \in Builds : triggers[b] <= 1

(* Only a build that succeeded is deployed.                                *)
OnlySuccessIsDeployed == \A b \in Builds : triggers[b] > 0 => aws[b] = "SUCCEEDED"

(* Of each build, the tracking keeps the promise of Release, whoever handles *)
(* its events, however often and in which order: its deployments are the     *)
(* triggers, of a build that SUCCEEDED only, once at most while Redis works. *)
OfBuild(b) == INSTANCE Release
                WITH Endings <- Outcomes, Once <- RedisReliable,
                     reported <- aws[b], deployments <- triggers[b]

ReleasesBuilds ==
  /\ \A b \in Builds : OfBuild(b)!ReleaseInit
  /\ [][\A b \in Builds : OfBuild(b)!ReleaseNext \/ UNCHANGED OfBuild(b)!releaseState]_
       <<aws, triggers>>

(* A build that nothing disturbed deploys its own image to its own         *)
(* pipeline, although whoever deploys looks both up again: with the OTTO_* *)
(* variables in its row other pipelines may be built, edited and deployed  *)
(* meanwhile, without them, by the fallback, if no other is.               *)
UndisturbedDeploysItself ==
  \A d \in shipped : d.undisturbed => d.pipeline = builtFor[d.build] /\ d.image = d.build

(* The row status that stands for an outcome. *)
StatusOf(outcome) == IF outcome = "SUCCEEDED" THEN "success" ELSE "failed"

(* Every row of a finished build shows its outcome. *)
RowsAgree ==
  \A r \in Ids : executions[r] # None /\ aws[executions[r].build] \in Outcomes =>
                  executions[r].status = StatusOf(aws[executions[r].build])

(* However rows regress on the way, in the end the heartbeat brings every  *)
(* row of a finished build to the outcome CodeBuild reported, for good.    *)
RowsEventuallyAgree == <>[]RowsAgree

(* Two statements of the source that the code does not keep, which no run  *)
(* checks: see the README, "Known gaps".                                   *)

(* "the pipeline is found by execution.awsBuildId and deployed"            *)
(* (eventbridge.service.ts:1045)                                           *)
BuiltPipelineIsDeployed == \A d \in shipped : d.pipeline = builtFor[d.build]

(* "pipeline.ecrImageUri is set: the build succeeded"                      *)
(* (pipeline.service.ts:325)                                               *)
DeployedImageIsBuilt == \A d \in shipped : aws[d.image] = "SUCCEEDED"
=============================================================================
