------------------------------ MODULE Deployment ------------------------------
(***************************************************************************)
(* The deployments of one pipeline: deployAfterBuild creates the pipeline's*)
(* AWS resources one by one and mirrors its progress in a deployment row,  *)
(* events of running ECS tasks set rows to SUCCESS, and deletePipeline     *)
(* removes what the rows name.  They interleave at their awaits; a save of *)
(* TypeORM is two of them, a SELECT and the write of what differs from it. *)
(*                                                                         *)
(* Target group, log group and ECS service are named after the pipeline,   *)
(* the URL after the call that generated it, EventBridge rules after the   *)
(* deployment.  The load balancer is shared and stays.  A call that throws *)
(* has had no effect, unless said otherwise.                               *)
(***************************************************************************)
EXTENDS Naturals

CONSTANTS
  MaxDeployments,  \* bound: calls of deployAfterBuild
  Tasks,           \* handlers of events about running tasks
  MaxFaults,       \* bound: calls to AWS or Postgres that throw, and restarts
  Overlapping,     \* calls that may be under way while the pipeline is deleted
  None

Deployments == 1..MaxDeployments      \* in the order of createdAt
Status  == {"PENDING", "DEPLOYING_ECS", "WAITING_HEALTH_CHECK", "SUCCESS", "FAILED"}

(* What a row names: its URL and, as the final update writes them together,*)
(* the target group.                                                       *)
Row == [status : Status, url : Deployments \cup {None}, group : BOOLEAN]

(* What a save writes: the columns that differ from the row it selected, or*)
(* the whole entity if it found none.                                      *)
Columns == [status : BOOLEAN, url : BOOLEAN, group : BOOLEAN, insert : BOOLEAN]
Nothing == [status |-> FALSE, url |-> FALSE, group |-> FALSE, insert |-> FALSE]

ASSUME BoundsAreNat  == MaxDeployments \in Nat /\ MaxFaults \in Nat
ASSUME OverlappingCalls == Overlapping \subseteq Deployments
ASSUME NoneIsNothing == None \notin Deployments \cup Row

VARIABLES
  pipeline,  \* the row of the pipeline: whether it exists, and its deployUrl
  rows,      \* the deployment table
  deploy,    \* calls of deployAfterBuild
  task,      \* handlers of RUNNING tasks (updateDeploymentToSuccess)
  deletion,  \* deletePipeline, with the rows the cleanup has read
  group,     \* whether the target group exists
  routes,    \* URLs with a listener rule
  service,   \* whether the ECS service is active
  dns,       \* URLs with a record in Route53
  rules,     \* EventBridge rules
  served,    \* deployments whose task definition ECS has accepted
  overlap,   \* whether a deletion and a deployment were ever under way at once
  faults

vars == <<pipeline, rows, deploy, task, deletion, group, routes, service, dns, rules,
          served, overlap, faults>>

IdleDeploy   == [pc |-> "idle", url |-> None, found |-> FALSE, step |-> "ecs", copy |-> None,
                 columns |-> Nothing]
Finished(pc) == [IdleDeploy EXCEPT !.pc = pc]
IdleTask     == [pc |-> "idle", deployment |-> None, copy |-> None, columns |-> Nothing]
NoRows       == [d \in Deployments |-> None]
IdleDeletion == [pc |-> "idle", rows |-> NoRows, todo |-> {}]

Init ==
  /\ pipeline = [exists |-> TRUE, url |-> None]
  /\ rows     = NoRows
  /\ deploy   = [d \in Deployments |-> IdleDeploy]
  /\ task     = [t \in Tasks |-> IdleTask]
  /\ deletion = IdleDeletion
  /\ group = FALSE /\ service = FALSE
  /\ routes = {} /\ dns = {} /\ rules = {}
  /\ served = {}
  /\ overlap = FALSE
  /\ faults = 0

Fault == faults < MaxFaults /\ faults' = faults + 1

Ended     == {"idle", "done", "failed"}
Deleting  == deletion.pc \notin Ended
UnderWay  == {d \in Deployments : deploy[d].pc \notin Ended}

-----------------------------------------------------------------------------
(* deployAfterBuild, one action per call it awaits.                        *)

Goto(d, rec) == deploy' = [deploy EXCEPT ![d] = rec]
MoveTo(d, pc) == Goto(d, [deploy[d] EXCEPT !.pc = pc])

othersVars == <<task, deletion, overlap, faults>>
awsVars    == <<group, routes, service, dns, rules, served>>

(* The pipeline is read, its deployUrl with it.                            *)
Start(d) ==
  /\ deploy[d].pc = "idle" /\ pipeline.exists
  /\ Deleting => d \in Overlapping
  /\ Goto(d, [deploy[d] EXCEPT !.pc = "track", !.url = pipeline.url])
  /\ overlap' = (overlap \/ Deleting)
  /\ UNCHANGED <<pipeline, rows, task, deletion, awsVars, faults>>

(* The row of an update that names the pipeline's URL from the start.      *)
TrackWithUrl(d) ==
  /\ deploy[d].pc = "track" /\ pipeline.exists
  /\ \A k \in 1..(d - 1) : deploy[k].pc \notin {"idle", "track"}
  /\ rows' = [rows EXCEPT ![d] = [status |-> "PENDING", url |-> deploy[d].url, group |-> FALSE]]
  /\ MoveTo(d, "url")
  /\ UNCHANGED <<pipeline, awsVars, othersVars>>

(* startDeploymentTracking; the calls are numbered in the order in which   *)
(* they insert their rows.                                                 *)
Track(d) ==
  /\ deploy[d].pc = "track" /\ pipeline.exists
  /\ \A k \in 1..(d - 1) : deploy[k].pc \notin {"idle", "track"}
  /\ rows' = [rows EXCEPT ![d] = [status |-> "PENDING", url |-> None, group |-> FALSE]]
  /\ MoveTo(d, "url")
  /\ UNCHANGED <<pipeline, awsVars, othersVars>>

(* A new URL is stored in the pipeline, if it is still there.              *)
SetUrl(d) ==
  /\ deploy[d].pc = "url"
  /\ IF deploy[d].url = None
     THEN /\ Goto(d, [deploy[d] EXCEPT !.pc = "group", !.url = d])
          /\ pipeline' = IF pipeline.exists THEN [pipeline EXCEPT !.url = d] ELSE pipeline
     ELSE MoveTo(d, "group") /\ UNCHANGED pipeline
  /\ UNCHANGED <<rows, awsVars, othersVars>>

SetGroup(d) ==
  /\ deploy[d].pc = "group"
  /\ group' = TRUE
  /\ MoveTo(d, "findRoute")
  /\ UNCHANGED <<pipeline, rows, routes, service, dns, rules, served, othersVars>>

(* setupAlbRouting modifies the rule of the URL or creates one.            *)
FindRoute(d) ==
  /\ deploy[d].pc = "findRoute"
  /\ Goto(d, [deploy[d] EXCEPT !.pc = "route", !.found = deploy[d].url \in routes])
  /\ UNCHANGED <<pipeline, rows, awsVars, othersVars>>

(* A found rule is modified, one not found created.                        *)
RouteAccepted(d) == group /\ (deploy[d].found => deploy[d].url \in routes)

SetRoute(d) ==
  /\ deploy[d].pc = "route" /\ RouteAccepted(d)
  /\ routes' = routes \cup {deploy[d].url}
  /\ Goto(d, [deploy[d] EXCEPT !.pc = "findService", !.found = FALSE])
  /\ UNCHANGED <<pipeline, rows, group, service, dns, rules, served, othersVars>>

(* setupEcsService takes an error of describeServices for "none".          *)
FindService(d) ==
  /\ deploy[d].pc = "findService"
  /\ \/ Goto(d, [deploy[d] EXCEPT !.pc = "service", !.found = service]) /\ UNCHANGED faults
     \/ Goto(d, [deploy[d] EXCEPT !.pc = "service", !.found = FALSE]) /\ Fault
  /\ UNCHANGED <<pipeline, rows, awsVars, task, deletion, overlap>>

(* An inactive service cannot be updated nor an active one created, and a  *)
(* new one needs a target group that a listener rule uses.                 *)
ServiceAccepted(d) == deploy[d].found = service /\ (service \/ (group /\ routes # {}))

SetService(d) ==
  /\ deploy[d].pc = "service" /\ ServiceAccepted(d)
  /\ service' = TRUE /\ served' = served \cup {d}
  /\ Goto(d, [deploy[d] EXCEPT !.pc = "dns", !.found = FALSE])
  /\ UNCHANGED <<pipeline, rows, group, routes, dns, rules, othersVars>>

(* A record that exists already is taken as it is.                         *)
SetDns(d) ==
  /\ deploy[d].pc = "dns"
  /\ dns' = dns \cup {deploy[d].url}
  /\ MoveTo(d, "ecsRule")
  /\ UNCHANGED <<pipeline, rows, group, routes, service, rules, served, othersVars>>

StepOfPc(d) == deploy[d].pc

(* setupEcsEventTracking, then setupTargetHealthTracking.                  *)
StepOf(d) == IF deploy[d].pc = "ecsRule" THEN "ecs" ELSE "health"

SetRule(d) ==
  /\ deploy[d].pc \in {"ecsRule", "healthRule"}
  /\ rules' = rules \cup {<<d, StepOf(d)>>}
  /\ Goto(d, [deploy[d] EXCEPT !.pc = "load", !.step = StepOf(d)])
  /\ UNCHANGED <<pipeline, rows, group, routes, service, dns, served, othersVars>>

-----------------------------------------------------------------------------
(* updateDeploymentStatus loads the row, changes the entity and saves it.  *)

Progress(d, row) ==
  CASE deploy[d].step = "ecs"    -> [row EXCEPT !.status = "DEPLOYING_ECS"]
    [] deploy[d].step = "health" -> [row EXCEPT !.status = "WAITING_HEALTH_CHECK"]
    [] deploy[d].step = "final"  ->
         [status |-> "WAITING_HEALTH_CHECK", url |-> deploy[d].url, group |-> TRUE]
    [] deploy[d].step = "fail"   -> [row EXCEPT !.status = "FAILED"]

Load(d) ==
  /\ deploy[d].pc = "load" /\ rows[d] # None
  /\ Goto(d, [deploy[d] EXCEPT !.pc = "compare", !.copy = Progress(d, rows[d])])
  /\ UNCHANGED <<pipeline, rows, awsVars, othersVars>>

Differing(entity, row) ==
  IF row = None THEN [Nothing EXCEPT !.insert = TRUE]
  ELSE [status |-> entity.status # row.status, url |-> entity.url # row.url,
        group |-> entity.group # row.group, insert |-> FALSE]

(* The row after the write; an UPDATE of a row that is gone does nothing.  *)
Merged(row, entity, columns) ==
  IF columns.insert THEN entity
  ELSE IF row = None THEN None
  ELSE [status |-> IF columns.status THEN entity.status ELSE row.status,
        url    |-> IF columns.url THEN entity.url ELSE row.url,
        group  |-> IF columns.group THEN entity.group ELSE row.group]

(* An INSERT needs the pipeline, and no row of that id.                    *)
Writable(d, columns) == columns.insert => pipeline.exists /\ rows[d] = None

Compare(d) ==
  /\ deploy[d].pc = "compare"
  /\ Goto(d, [deploy[d] EXCEPT !.pc = "save", !.columns = Differing(deploy[d].copy, rows[d])])
  /\ UNCHANGED <<pipeline, rows, awsVars, othersVars>>

Save(d) ==
  /\ deploy[d].pc = "save" /\ Writable(d, deploy[d].columns)
  /\ rows' = [rows EXCEPT ![d] = Merged(@, deploy[d].copy, deploy[d].columns)]
  /\ LET next(pc, step) ==
           Goto(d, [deploy[d] EXCEPT !.pc = pc, !.step = step, !.copy = None, !.columns = Nothing])
     IN CASE deploy[d].step = "ecs"    -> next("healthRule", "ecs")
          [] deploy[d].step = "health" -> next("load", "final")
          [] deploy[d].step = "final"  -> Goto(d, Finished("done"))
          [] deploy[d].step = "fail"   -> Goto(d, Finished("failed"))
  /\ UNCHANGED <<pipeline, awsVars, othersVars>>

(* A call is rejected for what others did to what it relies on.            *)
Rejected(d) ==
  \/ deploy[d].pc = "track"   /\ ~pipeline.exists
  \/ deploy[d].pc = "route"   /\ ~RouteAccepted(d)
  \/ deploy[d].pc = "service" /\ ~ServiceAccepted(d)
  \/ deploy[d].pc = "load"    /\ rows[d] = None
  \/ deploy[d].pc = "save"    /\ ~Writable(d, deploy[d].columns)

(* The two tracking steps set the row to FAILED before they rethrow.       *)
Tracking(d) == \/ deploy[d].pc \in {"ecsRule", "healthRule"}
               \/ deploy[d].pc \in {"load", "compare", "save"} /\ deploy[d].step \in {"ecs", "health"}

Fails(d) ==
  IF Tracking(d) THEN Goto(d, [deploy[d] EXCEPT !.pc = "load", !.step = "fail", !.copy = None,
                                                !.columns = Nothing])
                 ELSE Goto(d, Finished("failed"))

Throws(d) ==
  /\ deploy[d].pc \notin Ended
  /\ Fault \/ (Rejected(d) /\ UNCHANGED faults)
  /\ Fails(d)
  /\ UNCHANGED <<pipeline, rows, awsVars, task, deletion, overlap>>

(* The rule is made, its target or the permission of the Lambda is not.    *)
RuleHalfMade(d) ==
  /\ deploy[d].pc \in {"ecsRule", "healthRule"} /\ Fault
  /\ rules' = rules \cup {<<d, StepOf(d)>>}
  /\ Fails(d)
  /\ UNCHANGED <<pipeline, rows, group, routes, service, dns, served, task, deletion, overlap>>

DeployStep(d) ==
  \/ Start(d) \/ Track(d) \/ SetUrl(d) \/ SetGroup(d) \/ FindRoute(d) \/ SetRoute(d)
  \/ FindService(d) \/ SetService(d) \/ SetDns(d) \/ SetRule(d) \/ Load(d)
  \/ Compare(d) \/ Save(d) \/ Throws(d) \/ RuleHalfMade(d)

-----------------------------------------------------------------------------
(* updateDeploymentToSuccess.  Events about running tasks come any time    *)
(* after ECS accepted a task definition: late, repeated, for any task.     *)

Handle(t, rec) ==
  /\ task' = [task EXCEPT ![t] = rec]
  /\ UNCHANGED <<pipeline, deploy, deletion, awsVars, overlap>>

TaskRuns(t) ==
  /\ task[t].pc = "idle" /\ served # {}
  /\ Handle(t, [task[t] EXCEPT !.pc = "findWaiting"])
  /\ UNCHANGED <<rows, faults>>

WithStatus(s) == {d \in Deployments : rows[d] # None /\ rows[d].status = s}
Latest(ds)    == {d \in ds : \A e \in ds : e <= d}

(* Takes the latest row with status s.                                     *)
Take(t, s) ==
  \E d \in Latest(WithStatus(s)) :
    Handle(t, [task[t] EXCEPT !.pc = "load", !.deployment = d])

FindWaiting(t) ==
  /\ task[t].pc = "findWaiting"
  /\ \/ Take(t, "WAITING_HEALTH_CHECK")
     \/ /\ WithStatus("WAITING_HEALTH_CHECK") = {}
        /\ Handle(t, [task[t] EXCEPT !.pc = "findDeploying"])
  /\ UNCHANGED <<rows, faults>>

FindPending(t) ==
  /\ task[t].pc = "findDeploying"
  /\ \/ Take(t, "PENDING")
     \/ WithStatus("PENDING") = {} /\ Handle(t, IdleTask)
  /\ UNCHANGED <<rows, faults>>

FindDeploying(t) ==
  /\ task[t].pc = "findDeploying"
  /\ \/ Take(t, "DEPLOYING_ECS")
     \/ WithStatus("DEPLOYING_ECS") = {} /\ Handle(t, IdleTask)
  /\ UNCHANGED <<rows, faults>>

TaskLoad(t) ==
  /\ task[t].pc = "load" /\ rows[task[t].deployment] # None
  /\ Handle(t, [task[t] EXCEPT !.pc = "compare",
                              !.copy = [rows[task[t].deployment] EXCEPT !.status = "SUCCESS"]])
  /\ UNCHANGED <<rows, faults>>

TaskCompare(t) ==
  /\ task[t].pc = "compare"
  /\ Handle(t, [task[t] EXCEPT !.pc = "save",
                              !.columns = Differing(task[t].copy, rows[task[t].deployment])])
  /\ UNCHANGED <<rows, faults>>

TaskSave(t) ==
  /\ task[t].pc = "save" /\ Writable(task[t].deployment, task[t].columns)
  /\ rows' = [rows EXCEPT ![task[t].deployment] = Merged(@, task[t].copy, task[t].columns)]
  /\ Handle(t, IdleTask)
  /\ UNCHANGED faults

(* Errors are logged; the row may have gone, or the pipeline.              *)
TaskRejected(t) ==
  \/ task[t].pc = "load" /\ rows[task[t].deployment] = None
  \/ task[t].pc = "save" /\ ~Writable(task[t].deployment, task[t].columns)

TaskFails(t) ==
  /\ task[t].pc # "idle"
  /\ Fault \/ (TaskRejected(t) /\ UNCHANGED faults)
  /\ Handle(t, IdleTask)
  /\ UNCHANGED rows

TaskStep(t) ==
  \/ TaskRuns(t) \/ FindWaiting(t) \/ FindDeploying(t) \/ TaskLoad(t) \/ TaskCompare(t)
  \/ TaskSave(t) \/ TaskFails(t)

-----------------------------------------------------------------------------
(* deletePipeline and the phases of cleanupPipelineResources; each catches *)
(* its errors.  A phase whose calls do not affect each other is one action.*)

deployVars == <<deploy, task>>

Phase(pc)  == deletion' = [deletion EXCEPT !.pc = pc]
Read       == {d \in Deployments : deletion.rows[d] # None}
WithUrl    == {d \in Read : deletion.rows[d].url # None}
Urls       == {deletion.rows[d].url : d \in WithUrl}

DeleteStartSkipsSuccess ==
  /\ deletion.pc \in {"idle", "failed"} /\ pipeline.exists
  /\ UnderWay \subseteq Overlapping
  /\ deletion' = [pc |-> "service", todo |-> {},
                  rows |-> [d \in Deployments |->
                              IF d \in WithStatus("SUCCESS") THEN None ELSE rows[d]]]
  /\ overlap' = (overlap \/ UnderWay # {})
  /\ UNCHANGED <<pipeline, rows, deployVars, awsVars, faults>>

(* Reads the pipeline and its deployments.                                 *)
DeleteStart ==
  /\ deletion.pc \in {"idle", "failed"} /\ pipeline.exists
  /\ UnderWay \subseteq Overlapping
  /\ deletion' = [pc |-> "service", todo |-> {}, rows |-> rows]
  /\ overlap' = (overlap \/ UnderWay # {})
  /\ UNCHANGED <<pipeline, rows, deployVars, awsVars, faults>>

(* The service is looked for in one page of ListServices, ten services of  *)
(* the cluster that all pipelines share: one that is not on it stays.      *)
CleanupEcsService ==
  /\ deletion.pc = "service" /\ Phase("list")
  /\ \/ service' \in {FALSE, service} /\ UNCHANGED faults
     \/ Fault /\ UNCHANGED service
  /\ UNCHANGED <<pipeline, rows, deployVars, group, routes, dns, rules, served, overlap>>

(* The deployments whose URL has a rule in the list read from the listener.*)
ListRules ==
  /\ deletion.pc = "list"
  /\ deletion' = [deletion EXCEPT !.pc = "routes",
                                  !.todo = {d \in WithUrl : deletion.rows[d].url \in routes}]
  /\ UNCHANGED <<pipeline, rows, deployVars, awsVars, overlap, faults>>

(* Latest deployment first.  Deleting a rule once more is an error, as any *)
(* error it ends the loop.                                                 *)
CleanupAlbRule ==
  /\ deletion.pc = "routes"
  /\ \E d \in Latest(deletion.todo) :
       /\ deletion.rows[d].url \in routes
       /\ routes' = routes \ {deletion.rows[d].url}
       /\ deletion' = [deletion EXCEPT !.todo = @ \ {d}]
  /\ UNCHANGED <<pipeline, rows, deployVars, group, service, dns, rules, served, overlap, faults>>

AlbRulesEnd ==
  /\ \/ /\ deletion.pc = "routes"
        /\ \A d \in Latest(deletion.todo) : deletion.rows[d].url \notin routes
        /\ UNCHANGED faults
     \/ deletion.pc \in {"list", "routes"} /\ Fault
  /\ deletion' = [deletion EXCEPT !.pc = "groups", !.todo = {}]
  /\ UNCHANGED <<pipeline, rows, deployVars, awsVars, overlap>>

(* A target group that a rule forwards to is in use.                       *)
CleanupTargetGroups ==
  /\ deletion.pc = "groups" /\ Phase("dns")
  /\ \/ /\ group' = (group /\ ~(routes = {} /\ \E d \in Read : deletion.rows[d].group))
        /\ UNCHANGED faults
     \/ Fault /\ UNCHANGED group
  /\ UNCHANGED <<pipeline, rows, deployVars, routes, service, dns, rules, served, overlap>>

CleanupRoute53Records ==
  /\ deletion.pc = "dns" /\ Phase("rules")
  /\ \/ dns' = dns \ Urls /\ UNCHANGED faults
     \/ Fault /\ \E kept \in SUBSET Urls : dns' = dns \ (Urls \ kept)
  /\ UNCHANGED <<pipeline, rows, deployVars, group, routes, service, rules, served, overlap>>

(* The ECS rule goes first; if that throws, the health rule stays too.     *)
CleanupEventBridgeRules ==
  /\ deletion.pc = "rules" /\ Phase("records")
  /\ LET made(steps) == {r \in rules : r[1] \in Read /\ r[2] \in steps} IN
       \/ rules' = rules \ made({"ecs", "health"}) /\ UNCHANGED faults
       \/ /\ Fault
          /\ \E d \in Read, kept \in {{"health"}, {"ecs", "health"}} :
               rules' = (rules \ made({"ecs", "health"})) \cup {r \in made(kept) : r[1] = d}
  /\ UNCHANGED <<pipeline, rows, deployVars, group, routes, service, dns, served, overlap>>

CleanupDeploymentRecords ==
  /\ deletion.pc = "records" /\ Phase("remove")
  /\ \/ rows' = NoRows /\ UNCHANGED faults
     \/ Fault /\ UNCHANGED rows
  /\ UNCHANGED <<pipeline, deployVars, awsVars, overlap>>

(* Rows written meanwhile go with the pipeline (ON DELETE CASCADE).        *)
RemovePipeline ==
  /\ deletion.pc = "remove"
  /\ pipeline' = [pipeline EXCEPT !.exists = FALSE]
  /\ rows' = NoRows
  /\ deletion' = [IdleDeletion EXCEPT !.pc = "done"]
  /\ UNCHANGED <<deployVars, awsVars, overlap, faults>>

(* Only the calls outside the phases fail the deletion.                    *)
RemoveFails ==
  /\ deletion.pc = "remove" /\ Fault
  /\ deletion' = [IdleDeletion EXCEPT !.pc = "failed"]
  /\ UNCHANGED <<pipeline, rows, deployVars, awsVars, overlap>>

DeletionStep ==
  \/ DeleteStart \/ CleanupEcsService \/ ListRules \/ CleanupAlbRule \/ AlbRulesEnd
  \/ CleanupTargetGroups \/ CleanupRoute53Records \/ CleanupEventBridgeRules
  \/ CleanupDeploymentRecords \/ RemovePipeline \/ RemoveFails

(* The process dies with every activity.                                   *)
Restart ==
  /\ Fault
  /\ deploy'   = [d \in Deployments |->
                   IF deploy[d].pc \in Ended THEN deploy[d]
                   ELSE Finished("failed")]
  /\ task'     = [t \in Tasks |-> IdleTask]
  /\ deletion' = IF Deleting THEN [IdleDeletion EXCEPT !.pc = "failed"] ELSE deletion
  /\ UNCHANGED <<pipeline, rows, awsVars, overlap>>

Next ==
  \/ \E d \in Deployments : DeployStep(d)
  \/ \E t \in Tasks : TaskStep(t)
  \/ DeletionStep
  \/ Restart

Spec == Init /\ [][Next]_vars

-----------------------------------------------------------------------------
DeployState ==
  [pc : Ended \cup {"track", "url", "group", "findRoute", "route", "findService", "service",
                    "dns", "ecsRule", "healthRule", "load", "compare", "save"},
   url : Deployments \cup {None}, found : BOOLEAN,
   step : {"ecs", "health", "final", "fail"}, copy : Row \cup {None}, columns : Columns]

TaskState ==
  [pc : {"idle", "findWaiting", "findDeploying", "load", "compare", "save"},
   deployment : Deployments \cup {None}, copy : Row \cup {None}, columns : Columns]

DeletionState ==
  [pc : Ended \cup {"service", "list", "routes", "groups", "dns", "rules", "records", "remove"},
   rows : [Deployments -> Row \cup {None}], todo : SUBSET Deployments]

TypeOK ==
  /\ pipeline \in [exists : BOOLEAN, url : Deployments \cup {None}]
  /\ rows \in [Deployments -> Row \cup {None}]
  /\ deploy \in [Deployments -> DeployState]
  /\ task \in [Tasks -> TaskState]
  /\ deletion \in DeletionState
  /\ group \in BOOLEAN /\ service \in BOOLEAN
  /\ routes \subseteq Deployments /\ dns \subseteq Deployments
  /\ rules \subseteq Deployments \X {"ecs", "health"}
  /\ served \subseteq Deployments
  /\ overlap \in BOOLEAN
  /\ faults \in Nat

(* Until a deletion starts, a URL that a row shows to the user resolves and*)
(* is routed, and a target group it names exists and has a service behind, *)
(* whichever of the deployments made them and whatever failed.             *)
ShownIsReachable ==
  deletion.pc = "idle" =>
    \A d \in Deployments :
      rows[d] # None =>
        /\ rows[d].url # None => rows[d].url \in routes \cap dns
        /\ rows[d].group => group /\ service

(* A deployment is SUCCESS only if ECS accepted its own task definition,   *)
(* although the events name a service that other deployments share.        *)
SuccessIsServed ==
  \A d \in Deployments : rows[d] # None /\ rows[d].status = "SUCCESS" => d \in served

(* A deletion that met no error and no deployment under way leaves no rule *)
(* delivering events of the pipeline, though failed and finished           *)
(* deployments both leave theirs to it and event handlers save rows beside *)
(* it.                                                                     *)
CleanDeletion == deletion.pc = "done" /\ faults = 0 /\ ~overlap

RulesEndWithPipeline == CleanDeletion => rules = {}

(* "Cleans up all related AWS resources when a pipeline is deleted"        *)
(* (pipeline-cleanup.service.ts:29).  The code does not keep this and no   *)
(* run checks it: see the README, "Known gaps".                            *)
CleanedUp == CleanDeletion => routes = {} /\ dns = {} /\ ~group /\ ~service
=============================================================================
