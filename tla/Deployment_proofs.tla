--------------------------- MODULE Deployment_proofs ---------------------------
(***************************************************************************)
(* Rows of deployments and what they promise, for any number of            *)
(* deployments, handlers, faults and deletions.                            *)
(***************************************************************************)
EXTENDS Deployment, TLAPS

-----------------------------------------------------------------------------
(* Types.                                                                  *)

(* Whoever is saving holds an entity, and a call that creates resources has*)
(* a URL.                                                                  *)
CallOK(rec) ==
  /\ rec.pc \in {"compare", "save"} => rec.copy \in Row
  /\ rec.pc \notin Ended \cup {"track", "url"} => rec.url \in Deployments

Loaded ==
  /\ \A d \in Deployments : CallOK(deploy[d])
  /\ \A t \in Tasks : /\ task[t].pc \in {"load", "compare", "save"} => task[t].deployment \in Deployments
                      /\ task[t].pc \in {"compare", "save"} => task[t].copy \in Row

LEMMA Records ==
  /\ None \notin Deployments /\ None \notin Row
  /\ IdleDeploy \in DeployState
  /\ IdleTask \in TaskState /\ Nothing \in Columns
  /\ NoRows \in [Deployments -> Row \cup {None}]
  /\ IdleDeletion \in DeletionState
<1>1. None \notin Deployments /\ None \notin Row
  BY NoneIsNothing
<1>2. IdleDeploy \in DeployState
  BY DEF IdleDeploy, DeployState, Ended, Nothing, Columns
<1>3. IdleTask \in TaskState /\ Nothing \in Columns
  BY DEF IdleTask, TaskState, Nothing, Columns
<1>4. NoRows \in [Deployments -> Row \cup {None}]
  BY DEF NoRows
<1>5. IdleDeletion \in DeletionState
  BY <1>4 DEF IdleDeletion, DeletionState, Ended
<1>. QED BY <1>1, <1>2, <1>3, <1>4, <1>5

LEMMA InitTyped == Init => TypeOK /\ Loaded
<1> SUFFICES ASSUME Init PROVE TypeOK /\ Loaded
  OBVIOUS
<1>1. TypeOK
  BY Records DEF Init, TypeOK
<1>2. Loaded
  BY DEF Init, Loaded, CallOK, Ended, IdleDeploy, IdleTask
<1>. QED BY <1>1, <1>2

(* A step of one call, handler or deletion that leaves it well typed.       *)
LEMMA DeployMoves ==
  ASSUME TypeOK, Loaded, NEW d \in Deployments, NEW rec \in DeployState, CallOK(rec), Goto(d, rec)
  PROVE  /\ deploy' \in [Deployments -> DeployState]
         /\ \A e \in Deployments : CallOK(deploy'[e])
BY DEF TypeOK, Loaded, Goto

LEMMA TaskMoves ==
  ASSUME TypeOK, Loaded, NEW t \in Tasks, NEW rec \in TaskState,
         rec.pc \in {"load", "compare", "save"} => rec.deployment \in Deployments,
         rec.pc \in {"compare", "save"} => rec.copy \in Row, Handle(t, rec)
  PROVE  /\ task' \in [Tasks -> TaskState]
         /\ \A u \in Tasks : /\ task'[u].pc \in {"load", "compare", "save"} => task'[u].deployment \in Deployments
                             /\ task'[u].pc \in {"compare", "save"} => task'[u].copy \in Row
BY DEF TypeOK, Loaded, Handle

LEMMA FinishedTyped ==
  ASSUME NEW pc \in {"done", "failed"}
  PROVE  /\ Finished(pc) \in DeployState /\ CallOK(Finished(pc))
         /\ Finished(pc).pc = pc /\ Finished(pc).copy = None
<1>1. /\ Finished(pc) \in DeployState
      /\ Finished(pc).pc = pc /\ Finished(pc).copy = None
  BY DEF Finished, IdleDeploy, DeployState, Ended, Nothing, Columns
<1>. QED BY <1>1 DEF CallOK, Ended

(* The entity that a call of updateDeploymentStatus saves.                 *)
LEMMA ProgressTyped ==
  ASSUME TypeOK, NEW d \in Deployments, NEW row \in Row
  PROVE  Progress(d, row) \in Row
<1>1. deploy[d].url \in Deployments \cup {None} /\ deploy[d].step \in {"ecs", "health", "final", "fail"}
  BY DEF TypeOK, DeployState
<1>2. \A s \in Status : [row EXCEPT !.status = s] \in Row
  BY DEF Row
<1>3. [status |-> "WAITING_HEALTH_CHECK", url |-> deploy[d].url, group |-> TRUE] \in Row
  BY <1>1 DEF Row, Status
<1>. QED BY <1>1, <1>2, <1>3 DEF Progress, Status

(* What a save finds to differ, and the row it leaves: one, if there was   *)
(* one.                                                                    *)
LEMMA DifferingTyped ==
  ASSUME NEW entity \in Row, NEW row \in Row \cup {None}
  PROVE  Differing(entity, row) \in Columns
BY DEF Differing, Columns, Nothing

LEMMA MergedTyped ==
  ASSUME NEW entity \in Row, NEW row \in Row \cup {None}, NEW columns \in Columns
  PROVE  /\ Merged(row, entity, columns) \in Row \cup {None}
         /\ row # None => Merged(row, entity, columns) \in Row
<1>1. row # None => row \in Row
  OBVIOUS
<1>. QED BY <1>1 DEF Merged, Row, Columns

LEMMA DeployTyped ==
  ASSUME TypeOK, Loaded, NEW d \in Deployments, DeployStep(d)
  PROVE  TypeOK' /\ Loaded'
<1> USE Records
<1>0. deploy[d] \in DeployState
  BY DEF TypeOK
<1>00. CallOK(deploy[d])
  BY DEF Loaded
<1>1. CASE Start(d)
  <2>1. /\ [deploy[d] EXCEPT !.pc = "track", !.url = pipeline.url] \in DeployState
       /\ CallOK([deploy[d] EXCEPT !.pc = "track", !.url = pipeline.url])
    BY <1>0, <1>00, <1>1 DEF Start, TypeOK, DeployState, CallOK, Ended
  <2>2. /\ deploy' \in [Deployments -> DeployState]
         /\ \A e \in Deployments : CallOK(deploy'[e])
    BY <1>1, <2>1, DeployMoves DEF Start
  <2>3. overlap' \in BOOLEAN
    BY <1>1 DEF Start, TypeOK
  <2>. QED BY <1>1, <2>2, <2>3 DEF Start, TypeOK, Loaded, awsVars, othersVars
<1>2. CASE Track(d)
  <2>1. /\ [deploy[d] EXCEPT !.pc = "url"] \in DeployState
       /\ CallOK([deploy[d] EXCEPT !.pc = "url"])
    BY <1>0, <1>00, <1>2 DEF Track, TypeOK, DeployState, CallOK, Ended
  <2>2. /\ deploy' \in [Deployments -> DeployState]
         /\ \A e \in Deployments : CallOK(deploy'[e])
    BY <1>2, <2>1, DeployMoves DEF Track, MoveTo
  <2>. QED BY <1>2, <2>2 DEF Track, TypeOK, Loaded, awsVars, othersVars, Row, Status
<1>3. CASE SetUrl(d)
  <2>1. /\ [deploy[d] EXCEPT !.pc = "group", !.url = d] \in DeployState
       /\ CallOK([deploy[d] EXCEPT !.pc = "group", !.url = d])
    BY <1>0, <1>00, <1>3 DEF SetUrl, TypeOK, DeployState, CallOK, Ended
  <2>2. deploy[d].url # None =>
          /\ [deploy[d] EXCEPT !.pc = "group"] \in DeployState
          /\ CallOK([deploy[d] EXCEPT !.pc = "group"])
    BY <1>0, <1>00, <1>3 DEF SetUrl, TypeOK, DeployState, CallOK, Ended
  <2>3. /\ deploy' \in [Deployments -> DeployState]
         /\ \A e \in Deployments : CallOK(deploy'[e])
    BY <1>3, <2>1, <2>2, DeployMoves DEF SetUrl, MoveTo
  <2>4. pipeline' \in [exists : BOOLEAN, url : Deployments \cup {None}]
    BY <1>3 DEF SetUrl, TypeOK
  <2>. QED BY <1>3, <2>3, <2>4 DEF SetUrl, TypeOK, Loaded, awsVars, othersVars
<1>4. CASE SetGroup(d)
  <2>1. /\ [deploy[d] EXCEPT !.pc = "findRoute"] \in DeployState
       /\ CallOK([deploy[d] EXCEPT !.pc = "findRoute"])
    BY <1>0, <1>00, <1>4 DEF SetGroup, TypeOK, DeployState, CallOK, Ended
  <2>2. /\ deploy' \in [Deployments -> DeployState]
         /\ \A e \in Deployments : CallOK(deploy'[e])
    BY <1>4, <2>1, DeployMoves DEF SetGroup, MoveTo
  <2>3. group' \in BOOLEAN
    BY <1>4 DEF SetGroup
  <2>. QED BY <1>4, <2>2, <2>3 DEF SetGroup, TypeOK, Loaded, awsVars, othersVars
<1>5. CASE FindRoute(d)
  <2>1. \A b \in BOOLEAN :
          /\ [deploy[d] EXCEPT !.pc = "route", !.found = b] \in DeployState
          /\ CallOK([deploy[d] EXCEPT !.pc = "route", !.found = b])
    BY <1>0, <1>00, <1>5 DEF FindRoute, TypeOK, DeployState, CallOK, Ended
  <2>2. Goto(d, [deploy[d] EXCEPT !.pc = "route", !.found = (deploy[d].url \in routes)])
    BY <1>5 DEF FindRoute
  <2>3. (deploy[d].url \in routes) \in BOOLEAN
    OBVIOUS
  <2>4. PICK b \in BOOLEAN : Goto(d, [deploy[d] EXCEPT !.pc = "route", !.found = b])
    BY <2>2, <2>3, Zenon
  <2>5. /\ deploy' \in [Deployments -> DeployState]
         /\ \A e \in Deployments : CallOK(deploy'[e])
    BY <1>5, <2>1, <2>2, <2>3, <2>4, DeployMoves DEF FindRoute
  <2>. QED BY <1>5, <2>5 DEF FindRoute, TypeOK, Loaded, awsVars, othersVars
<1>6. CASE SetRoute(d)
  <2>1. /\ [deploy[d] EXCEPT !.pc = "findService", !.found = FALSE] \in DeployState
       /\ CallOK([deploy[d] EXCEPT !.pc = "findService", !.found = FALSE])
    BY <1>0, <1>00, <1>6 DEF SetRoute, TypeOK, DeployState, CallOK, Ended
  <2>2. /\ deploy' \in [Deployments -> DeployState]
         /\ \A e \in Deployments : CallOK(deploy'[e])
    BY <1>6, <2>1, DeployMoves DEF SetRoute
  <2>3. deploy[d].url \in Deployments
    BY <1>00, <1>6 DEF SetRoute, CallOK, Ended
  <2>. QED BY <1>6, <2>2, <2>3 DEF SetRoute, TypeOK, Loaded, awsVars, othersVars
<1>7. CASE FindService(d)
  <2>1. \A b \in BOOLEAN :
          /\ [deploy[d] EXCEPT !.pc = "service", !.found = b] \in DeployState
          /\ CallOK([deploy[d] EXCEPT !.pc = "service", !.found = b])
    BY <1>0, <1>00, <1>7 DEF FindService, TypeOK, DeployState, CallOK, Ended
  <2>2. service \in BOOLEAN
    BY DEF TypeOK
  <2>3. /\ deploy' \in [Deployments -> DeployState]
         /\ \A e \in Deployments : CallOK(deploy'[e])
    BY <1>7, <2>1, <2>2, DeployMoves DEF FindService
  <2>. QED BY <1>7, <2>3 DEF FindService, TypeOK, Loaded, awsVars, othersVars, Fault
<1>8. CASE SetService(d)
  <2>1. /\ [deploy[d] EXCEPT !.pc = "dns", !.found = FALSE] \in DeployState
       /\ CallOK([deploy[d] EXCEPT !.pc = "dns", !.found = FALSE])
    BY <1>0, <1>00, <1>8 DEF SetService, TypeOK, DeployState, CallOK, Ended
  <2>2. /\ deploy' \in [Deployments -> DeployState]
         /\ \A e \in Deployments : CallOK(deploy'[e])
    BY <1>8, <2>1, DeployMoves DEF SetService
  <2>3. service' \in BOOLEAN
    BY <1>8 DEF SetService
  <2>. QED BY <1>8, <2>2, <2>3 DEF SetService, TypeOK, Loaded, awsVars, othersVars
<1>9. CASE SetDns(d)
  <2>1. /\ [deploy[d] EXCEPT !.pc = "ecsRule"] \in DeployState
       /\ CallOK([deploy[d] EXCEPT !.pc = "ecsRule"])
    BY <1>0, <1>00, <1>9 DEF SetDns, TypeOK, DeployState, CallOK, Ended
  <2>2. /\ deploy' \in [Deployments -> DeployState]
         /\ \A e \in Deployments : CallOK(deploy'[e])
    BY <1>9, <2>1, DeployMoves DEF SetDns, MoveTo
  <2>3. deploy[d].url \in Deployments
    BY <1>00, <1>9 DEF SetDns, CallOK, Ended
  <2>. QED BY <1>9, <2>2, <2>3 DEF SetDns, TypeOK, Loaded, awsVars, othersVars
<1>10. CASE SetRule(d)
  <2>1. /\ [deploy[d] EXCEPT !.pc = "load", !.step = StepOf(d)] \in DeployState
       /\ CallOK([deploy[d] EXCEPT !.pc = "load", !.step = StepOf(d)])
    BY <1>0, <1>00, <1>10 DEF SetRule, TypeOK, DeployState, CallOK, Ended, StepOf
  <2>2. /\ deploy' \in [Deployments -> DeployState]
         /\ \A e \in Deployments : CallOK(deploy'[e])
    BY <1>10, <2>1, DeployMoves DEF SetRule
  <2>3. rules' \subseteq Deployments \X {"ecs", "health"}
    BY <1>10 DEF SetRule, TypeOK, StepOf
  <2>. QED BY <1>10, <2>2, <2>3 DEF SetRule, TypeOK, Loaded, awsVars, othersVars
<1>11. CASE Load(d)
  <2>1. Progress(d, rows[d]) \in Row
    BY <1>11, ProgressTyped DEF Load, TypeOK
  <2>2. /\ [deploy[d] EXCEPT !.pc = "compare", !.copy = Progress(d, rows[d])] \in DeployState
        /\ CallOK([deploy[d] EXCEPT !.pc = "compare", !.copy = Progress(d, rows[d])])
    BY <1>0, <1>00, <1>11, <2>1 DEF Load, DeployState, CallOK, Ended
  <2>3. /\ deploy' \in [Deployments -> DeployState]
         /\ \A e \in Deployments : CallOK(deploy'[e])
    BY <1>11, <2>2, DeployMoves DEF Load
  <2>. QED BY <1>11, <2>3 DEF Load, TypeOK, Loaded, awsVars, othersVars
<1>15. CASE Compare(d)
  <2> DEFINE columns == Differing(deploy[d].copy, rows[d])
  <2>1. columns \in Columns
    BY <1>00, <1>15, DifferingTyped DEF Compare, CallOK, TypeOK
  <2>2. /\ [deploy[d] EXCEPT !.pc = "save", !.columns = columns] \in DeployState
        /\ CallOK([deploy[d] EXCEPT !.pc = "save", !.columns = columns])
    <3> HIDE DEF columns
    <3>. QED BY <1>0, <1>00, <1>15, <2>1 DEF Compare, DeployState, CallOK, Ended
  <2>3. /\ deploy' \in [Deployments -> DeployState]
         /\ \A e \in Deployments : CallOK(deploy'[e])
    BY <1>15, <2>2, DeployMoves DEF Compare
  <2>. QED BY <1>15, <2>3 DEF Compare, TypeOK, Loaded, awsVars, othersVars
<1>12. CASE Save(d)
  <2>1. \A pc \in {"healthRule", "load"}, step \in {"ecs", "final"} :
          /\ [deploy[d] EXCEPT !.pc = pc, !.step = step, !.copy = None, !.columns = Nothing] \in DeployState
          /\ CallOK([deploy[d] EXCEPT !.pc = pc, !.step = step, !.copy = None, !.columns = Nothing])
    <3> SUFFICES ASSUME NEW pc \in {"healthRule", "load"}, NEW step \in {"ecs", "final"}
                 PROVE  /\ [deploy[d] EXCEPT !.pc = pc, !.step = step, !.copy = None, !.columns = Nothing] \in DeployState
                        /\ CallOK([deploy[d] EXCEPT !.pc = pc, !.step = step, !.copy = None, !.columns = Nothing])
      OBVIOUS
    <3>1. deploy[d].pc = "save"
      BY <1>12 DEF Save
    <3>2. deploy[d].url \in Deployments
      BY <1>00, <3>1 DEF CallOK, Ended
    <3>. QED BY <1>0, <3>2 DEF DeployState, CallOK
  <2>2. deploy[d].step \in {"ecs", "health", "final", "fail"}
    BY <1>0 DEF DeployState
  <2>3. /\ deploy' \in [Deployments -> DeployState]
         /\ \A e \in Deployments : CallOK(deploy'[e])
    BY <1>12, <2>1, <2>2, FinishedTyped, DeployMoves DEF Save
  <2>4. rows' \in [Deployments -> Row \cup {None}]
    <3>1. deploy[d].columns \in Columns /\ deploy[d].copy \in Row /\ rows[d] \in Row \cup {None}
      BY <1>0, <1>00, <1>12 DEF Save, DeployState, CallOK, TypeOK
    <3>2. Merged(rows[d], deploy[d].copy, deploy[d].columns) \in Row \cup {None}
      BY <3>1, MergedTyped
    <3>. QED BY <1>12, <3>2 DEF Save, TypeOK
  <2>. QED BY <1>12, <2>3, <2>4 DEF Save, TypeOK, Loaded, awsVars, othersVars
<1>13. CASE Throws(d)
  <2>1. Tracking(d) =>
          /\ [deploy[d] EXCEPT !.pc = "load", !.step = "fail", !.copy = None, !.columns = Nothing] \in DeployState
          /\ CallOK([deploy[d] EXCEPT !.pc = "load", !.step = "fail", !.copy = None, !.columns = Nothing])
    BY <1>0, <1>00, <1>13 DEF Throws, TypeOK, DeployState, CallOK, Ended, Tracking
  <2>2. /\ deploy' \in [Deployments -> DeployState]
         /\ \A e \in Deployments : CallOK(deploy'[e])
    BY <1>13, <2>1, FinishedTyped, DeployMoves DEF Throws, Fails
  <2>. QED BY <1>13, <2>2 DEF Throws, TypeOK, Loaded, awsVars, othersVars, Fault
<1>14. CASE RuleHalfMade(d)
  <2>1. Tracking(d) =>
          /\ [deploy[d] EXCEPT !.pc = "load", !.step = "fail", !.copy = None, !.columns = Nothing] \in DeployState
          /\ CallOK([deploy[d] EXCEPT !.pc = "load", !.step = "fail", !.copy = None, !.columns = Nothing])
    BY <1>0, <1>00, <1>14 DEF RuleHalfMade, TypeOK, DeployState, CallOK, Ended, Tracking
  <2>2. /\ deploy' \in [Deployments -> DeployState]
         /\ \A e \in Deployments : CallOK(deploy'[e])
    BY <1>14, <2>1, FinishedTyped, DeployMoves DEF RuleHalfMade, Fails
  <2>3. rules' \subseteq Deployments \X {"ecs", "health"}
    BY <1>14 DEF RuleHalfMade, TypeOK, StepOf
  <2>. QED BY <1>14, <2>2, <2>3 DEF RuleHalfMade, TypeOK, Loaded, awsVars, othersVars, Fault
<1>. QED BY <1>1, <1>2, <1>3, <1>4, <1>5, <1>6, <1>7, <1>8, <1>9, <1>10, <1>11, <1>12, <1>13,
            <1>14, <1>15 DEF DeployStep

LEMMA TaskTyped ==
  ASSUME TypeOK, Loaded, NEW t \in Tasks, TaskStep(t)
  PROVE  TypeOK' /\ Loaded'
<1> USE Records
<1>0. task[t] \in TaskState
  BY DEF TypeOK
<1>1. CASE TaskRuns(t)
  <2>1. [task[t] EXCEPT !.pc = "findWaiting"] \in TaskState
    BY <1>0, <1>1 DEF TaskRuns, TaskState, TypeOK, Loaded
  <2>2. /\ task' \in [Tasks -> TaskState]
         /\ \A u \in Tasks : /\ task'[u].pc \in {"load", "compare", "save"} => task'[u].deployment \in Deployments
                             /\ task'[u].pc \in {"compare", "save"} => task'[u].copy \in Row
    BY <1>0, <1>1, <2>1, TaskMoves DEF TaskRuns, TaskState, Loaded, TypeOK
  <2>. QED BY <1>1, <2>1, <2>2 DEF TaskRuns, TypeOK, Loaded, Handle, awsVars
<1>2. CASE FindWaiting(t)
  <2>1. \A e \in Deployments : [task[t] EXCEPT !.pc = "load", !.deployment = e] \in TaskState
    BY <1>0, <1>2 DEF FindWaiting, TaskState, TypeOK, Loaded
  <2>2. [task[t] EXCEPT !.pc = "findDeploying"] \in TaskState
    BY <1>0, <1>2 DEF FindWaiting, TaskState, TypeOK, Loaded
  <2>3. /\ task' \in [Tasks -> TaskState]
         /\ \A u \in Tasks : /\ task'[u].pc \in {"load", "compare", "save"} => task'[u].deployment \in Deployments
                             /\ task'[u].pc \in {"compare", "save"} => task'[u].copy \in Row
    BY <1>0, <1>2, <2>1, <2>2, TaskMoves DEF FindWaiting, TaskState, Loaded, TypeOK, Take, Latest,
       WithStatus
  <2>. QED BY <1>2, <2>1, <2>2, <2>3 DEF FindWaiting, TypeOK, Loaded, Handle, awsVars, Take
<1>3. CASE FindDeploying(t)
  <2>1. \A e \in Deployments : [task[t] EXCEPT !.pc = "load", !.deployment = e] \in TaskState
    BY <1>0, <1>3 DEF FindDeploying, TaskState, TypeOK, Loaded
  <2>2. /\ task' \in [Tasks -> TaskState]
         /\ \A u \in Tasks : /\ task'[u].pc \in {"load", "compare", "save"} => task'[u].deployment \in Deployments
                             /\ task'[u].pc \in {"compare", "save"} => task'[u].copy \in Row
    BY <1>0, <1>3, <2>1, TaskMoves DEF FindDeploying, TaskState, Loaded, TypeOK, Take, Latest,
       WithStatus, IdleTask
  <2>. QED BY <1>3, <2>1, <2>2 DEF FindDeploying, TypeOK, Loaded, Handle, awsVars, Take
<1>4. CASE TaskLoad(t)
  <2> DEFINE entity == [rows[task[t].deployment] EXCEPT !.status = "SUCCESS"]
  <2>1. entity \in Row /\ task[t].deployment \in Deployments
    BY <1>0, <1>4 DEF TaskLoad, TypeOK, Loaded, Row, Status
  <2>2. [task[t] EXCEPT !.pc = "compare", !.copy = entity] \in TaskState
    <3> HIDE DEF entity
    <3>. QED BY <1>0, <2>1 DEF TaskState
  <2>3. /\ task' \in [Tasks -> TaskState]
         /\ \A u \in Tasks : /\ task'[u].pc \in {"load", "compare", "save"} => task'[u].deployment \in Deployments
                             /\ task'[u].pc \in {"compare", "save"} => task'[u].copy \in Row
    <3>1. Handle(t, [task[t] EXCEPT !.pc = "compare", !.copy = entity])
      BY <1>4 DEF TaskLoad
    <3> HIDE DEF entity
    <3>. QED BY <1>0, <2>1, <2>2, <3>1, TaskMoves DEF TaskState
  <2>. QED BY <1>4, <2>3 DEF TaskLoad, TypeOK, Loaded, Handle, awsVars
<1>7. CASE TaskCompare(t)
  <2> DEFINE columns == Differing(task[t].copy, rows[task[t].deployment])
  <2>1. /\ task[t].copy \in Row /\ task[t].deployment \in Deployments
        /\ rows[task[t].deployment] \in Row \cup {None}
    BY <1>7 DEF TaskCompare, TypeOK, Loaded
  <2>2. columns \in Columns
    BY <2>1, DifferingTyped
  <2>3. [task[t] EXCEPT !.pc = "save", !.columns = columns] \in TaskState
    <3> HIDE DEF columns
    <3>. QED BY <1>0, <2>2 DEF TaskState
  <2>4. /\ task' \in [Tasks -> TaskState]
         /\ \A u \in Tasks : /\ task'[u].pc \in {"load", "compare", "save"} => task'[u].deployment \in Deployments
                             /\ task'[u].pc \in {"compare", "save"} => task'[u].copy \in Row
    <3>1. Handle(t, [task[t] EXCEPT !.pc = "save", !.columns = columns])
      BY <1>7 DEF TaskCompare
    <3> HIDE DEF columns
    <3>. QED BY <1>0, <2>1, <2>3, <3>1, TaskMoves DEF TaskState
  <2>. QED BY <1>7, <2>4 DEF TaskCompare, TypeOK, Loaded, Handle, awsVars
<1>5. CASE TaskSave(t)
  <2>1. rows' \in [Deployments -> Row \cup {None}]
    <3>1. /\ task[t].copy \in Row /\ task[t].deployment \in Deployments
          /\ rows[task[t].deployment] \in Row \cup {None} /\ task[t].columns \in Columns
      BY <1>0, <1>5 DEF TaskSave, TypeOK, Loaded, TaskState
    <3>2. Merged(rows[task[t].deployment], task[t].copy, task[t].columns) \in Row \cup {None}
      BY <3>1, MergedTyped
    <3>. QED BY <1>5, <3>2 DEF TaskSave, TypeOK
  <2>2. /\ task' \in [Tasks -> TaskState]
         /\ \A u \in Tasks : /\ task'[u].pc \in {"load", "compare", "save"} => task'[u].deployment \in Deployments
                             /\ task'[u].pc \in {"compare", "save"} => task'[u].copy \in Row
    BY <1>0, <1>5, TaskMoves DEF TaskSave, TaskState, Loaded, TypeOK, IdleTask
  <2>. QED BY <1>5, <2>1, <2>2 DEF TaskSave, TypeOK, Loaded, Handle, awsVars
<1>6. CASE TaskFails(t)
  <2>1. /\ task' \in [Tasks -> TaskState]
         /\ \A u \in Tasks : /\ task'[u].pc \in {"load", "compare", "save"} => task'[u].deployment \in Deployments
                             /\ task'[u].pc \in {"compare", "save"} => task'[u].copy \in Row
    BY <1>0, <1>6, TaskMoves DEF TaskFails, TaskState, Loaded, TypeOK, IdleTask
  <2>. QED BY <1>6, <2>1 DEF TaskFails, TypeOK, Loaded, Handle, awsVars, Fault
<1>. QED BY <1>1, <1>2, <1>3, <1>4, <1>5, <1>6, <1>7 DEF TaskStep

LEMMA DeletionTyped ==
  ASSUME TypeOK, Loaded, DeletionStep
  PROVE  TypeOK' /\ Loaded'
<1> USE Records
<1>0. deletion \in DeletionState
  BY DEF TypeOK
<1>1. CASE DeleteStart
  <2>1. deletion' \in DeletionState
    BY <1>0, <1>1 DEF DeleteStart, DeletionState, Phase, TypeOK, Ended
  <2>2. overlap' \in BOOLEAN
    BY <1>1 DEF DeleteStart, TypeOK
  <2>. QED BY <1>1, <2>1, <2>2 DEF DeleteStart, TypeOK, Loaded, Phase, awsVars, deployVars
<1>2. CASE CleanupEcsService
  <2>1. deletion' \in DeletionState
    BY <1>0, <1>2 DEF CleanupEcsService, DeletionState, Phase, TypeOK, Ended
  <2>2. service' \in BOOLEAN
    BY <1>2 DEF CleanupEcsService, TypeOK
  <2>3. faults' \in Nat
    <3>1. UNCHANGED faults \/ Fault
      BY <1>2, Zenon DEF CleanupEcsService
    <3>. QED BY <3>1 DEF TypeOK, Fault
  <2>4. UNCHANGED <<pipeline, rows, deploy, task, group, routes, dns, rules, served, overlap>>
    BY <1>2 DEF CleanupEcsService, deployVars
  <2>. QED BY <2>1, <2>2, <2>3, <2>4 DEF TypeOK, Loaded
<1>3. CASE ListRules
  <2>1. deletion' \in DeletionState
    BY <1>0, <1>3 DEF ListRules, DeletionState, Phase, TypeOK, Ended, WithUrl, Read
  <2>. QED BY <1>3, <2>1 DEF ListRules, TypeOK, Loaded, Phase, awsVars, deployVars
<1>4. CASE CleanupAlbRule
  <2>1. deletion' \in DeletionState
    BY <1>0, <1>4 DEF CleanupAlbRule, DeletionState, Phase, TypeOK, Ended
  <2>. QED BY <1>4, <2>1 DEF CleanupAlbRule, TypeOK, Loaded, Phase, awsVars, deployVars
<1>5. CASE AlbRulesEnd
  <2>1. deletion' \in DeletionState
    BY <1>0, <1>5 DEF AlbRulesEnd, DeletionState, Phase, TypeOK, Ended
  <2>. QED BY <1>5, <2>1 DEF AlbRulesEnd, TypeOK, Loaded, Phase, awsVars, deployVars, Fault
<1>6. CASE CleanupTargetGroups
  <2>1. deletion' \in DeletionState
    BY <1>0, <1>6 DEF CleanupTargetGroups, DeletionState, Phase, TypeOK, Ended
  <2>2. group' \in BOOLEAN
    BY <1>6 DEF CleanupTargetGroups, TypeOK
  <2>. QED BY <1>6, <2>1, <2>2 DEF CleanupTargetGroups, TypeOK, Loaded, Phase, awsVars,
              deployVars, Fault
<1>7. CASE CleanupRoute53Records
  <2>1. deletion' \in DeletionState
    BY <1>0, <1>7 DEF CleanupRoute53Records, DeletionState, Phase, TypeOK, Ended
  <2>. QED BY <1>7, <2>1 DEF CleanupRoute53Records, TypeOK, Loaded, Phase, awsVars, deployVars,
              Fault
<1>8. CASE CleanupEventBridgeRules
  <2>1. deletion' \in DeletionState
    BY <1>0, <1>8 DEF CleanupEventBridgeRules, DeletionState, Phase, TypeOK, Ended
  <2>. QED BY <1>8, <2>1 DEF CleanupEventBridgeRules, TypeOK, Loaded, Phase, awsVars, deployVars,
              Fault
<1>9. CASE CleanupDeploymentRecords
  <2>1. deletion' \in DeletionState
    BY <1>0, <1>9 DEF CleanupDeploymentRecords, DeletionState, Phase, TypeOK, Ended
  <2>. QED BY <1>9, <2>1 DEF CleanupDeploymentRecords, TypeOK, Loaded, Phase, awsVars, deployVars,
              Fault
<1>10. CASE RemovePipeline
  <2>1. deletion' \in DeletionState
    BY <1>0, <1>10 DEF RemovePipeline, DeletionState, Phase, TypeOK, Ended, IdleDeletion
  <2>2. pipeline' \in [exists : BOOLEAN, url : Deployments \cup {None}]
    BY <1>10 DEF RemovePipeline, TypeOK
  <2>. QED BY <1>10, <2>1, <2>2 DEF RemovePipeline, TypeOK, Loaded, Phase, awsVars, deployVars
<1>11. CASE RemoveFails
  <2>1. deletion' \in DeletionState
    BY <1>0, <1>11 DEF RemoveFails, DeletionState, Phase, TypeOK, Ended, IdleDeletion
  <2>. QED BY <1>11, <2>1 DEF RemoveFails, TypeOK, Loaded, Phase, awsVars, deployVars, Fault
<1>. QED BY <1>1, <1>2, <1>3, <1>4, <1>5, <1>6, <1>7, <1>8, <1>9, <1>10, <1>11 DEF DeletionStep

LEMMA RestartTyped ==
  ASSUME TypeOK, Loaded, Restart
  PROVE  TypeOK' /\ Loaded'
<1> USE Records
<1>1. deploy' \in [Deployments -> DeployState] /\ \A d \in Deployments : CallOK(deploy'[d])
  BY FinishedTyped DEF Restart, TypeOK, Loaded
<1>2. /\ task' \in [Tasks -> TaskState]
      /\ \A t \in Tasks : task'[t].pc = "idle"
  BY DEF Restart, IdleTask
<1>3. deletion' \in DeletionState
  BY DEF Restart, TypeOK, DeletionState, IdleDeletion, Ended
<1>. QED BY <1>1, <1>2, <1>3 DEF Restart, TypeOK, Loaded, Fault, awsVars

LEMMA NextTyped == TypeOK /\ Loaded /\ [Next]_vars => (TypeOK /\ Loaded)'
<1> SUFFICES ASSUME TypeOK, Loaded, [Next]_vars PROVE (TypeOK /\ Loaded)'
  OBVIOUS
<1>1. CASE UNCHANGED vars
  BY <1>1 DEF vars, TypeOK, Loaded
<1>. QED BY <1>1, DeployTyped, TaskTyped, DeletionTyped, RestartTyped DEF Next

(* Every variable of Deployment keeps its type.                            *)
THEOREM TypeCorrect == Spec => []TypeOK
<1>1. Spec => [](TypeOK /\ Loaded)
  BY InitTyped, NextTyped, PTL DEF Spec
<1>. QED BY <1>1, PTL

-----------------------------------------------------------------------------
(* A deployment with a status beyond PENDING, or a handler about to give it*)
(* one, is one whose task definition ECS has accepted.                     *)
ServedOK ==
  /\ \A d \in Deployments : /\ rows[d] # None /\ rows[d].status # "PENDING" => d \in served
                            /\ deploy[d].pc \in {"dns", "ecsRule", "healthRule", "load", "compare", "save"}
                                 => d \in served
  /\ \A t \in Tasks : task[t].pc \in {"load", "compare", "save"} => task[t].deployment \in served

LEMMA ServedMoves ==
  ASSUME TypeOK, ServedOK, NEW d \in Deployments, NEW rec, Goto(d, rec),
         rec.pc \in {"dns", "ecsRule", "healthRule", "load", "compare", "save"} => d \in served,
         rows' = rows \/ (d \in served /\ \E row : rows' = [rows EXCEPT ![d] = row]),
         task' = task, served' = served
  PROVE  ServedOK'
BY DEF TypeOK, ServedOK, Goto

LEMMA ServedHandles ==
  ASSUME TypeOK, ServedOK, NEW t \in Tasks, NEW rec, Handle(t, rec), rows' = rows,
         rec.pc \in {"load", "compare", "save"} => rec.deployment \in served
  PROVE  ServedOK'
BY DEF TypeOK, ServedOK, Handle, awsVars

LEMMA ServedNext ==
  ASSUME TypeOK, Loaded, ServedOK, [Next]_vars PROVE ServedOK'
<1>1. ASSUME NEW d \in Deployments, DeployStep(d) PROVE ServedOK'
  <2>1. CASE Start(d)
    BY <2>1 DEF Start, TypeOK, ServedOK, Goto, awsVars, othersVars
  <2>2. CASE Track(d)
    BY <2>2 DEF Track, TypeOK, ServedOK, Goto, awsVars, othersVars, MoveTo
  <2>3. CASE SetUrl(d)
    <3>1. [deploy[d] EXCEPT !.pc = "group", !.url = d].pc = "group" /\ [deploy[d] EXCEPT !.pc = "group"].pc = "group"
      BY DEF TypeOK, DeployState
    <3>. QED BY <2>3, <3>1, ServedMoves DEF SetUrl, MoveTo, awsVars, othersVars
  <2>4. CASE SetGroup(d)
    BY <2>4 DEF SetGroup, TypeOK, ServedOK, Goto, awsVars, othersVars, MoveTo
  <2>5. CASE FindRoute(d)
    BY <2>5 DEF FindRoute, TypeOK, ServedOK, Goto, awsVars, othersVars
  <2>6. CASE SetRoute(d)
    BY <2>6 DEF SetRoute, TypeOK, ServedOK, Goto, awsVars, othersVars
  <2>7. CASE FindService(d)
    <3>1. \A b : [deploy[d] EXCEPT !.pc = "service", !.found = b].pc = "service"
      BY DEF TypeOK, DeployState
    <3>. QED BY <2>7, <3>1, ServedMoves DEF FindService, awsVars
  <2>8. CASE SetService(d)
    BY <2>8 DEF SetService, TypeOK, ServedOK, Goto, awsVars, othersVars
  <2>9. CASE SetDns(d)
    BY <2>9 DEF SetDns, TypeOK, ServedOK, Goto, awsVars, othersVars, MoveTo
  <2>10. CASE SetRule(d)
    BY <2>10 DEF SetRule, TypeOK, ServedOK, Goto, awsVars, othersVars
  <2>11. CASE Load(d)
    BY <2>11 DEF Load, TypeOK, ServedOK, Goto, awsVars, othersVars
  <2>15. CASE Compare(d)
    BY <2>15 DEF Compare, TypeOK, ServedOK, Goto, awsVars, othersVars
  <2>12. CASE Save(d)
    <3>1. d \in served /\ deploy[d].step \in {"ecs", "health", "final", "fail"}
      BY <2>12 DEF Save, ServedOK, TypeOK, DeployState
    <3>2. PICK rec : Goto(d, rec)
      BY <2>12, <3>1 DEF Save
    <3>3. task' = task /\ served' = served /\ \E row : rows' = [rows EXCEPT ![d] = row]
      BY <2>12 DEF Save, awsVars, othersVars
    <3>. QED BY <3>1, <3>2, <3>3, ServedMoves
  <2>13. CASE Throws(d)
    <3>1. Finished("failed").pc = "failed"
      BY FinishedTyped
    <3>2. Tracking(d) => d \in served
      BY DEF Tracking, ServedOK
    <3>. QED BY <2>13, <3>1, <3>2, ServedMoves DEF Throws, Fails, awsVars
  <2>14. CASE RuleHalfMade(d)
    <3>1. Finished("failed").pc = "failed"
      BY FinishedTyped
    <3>2. d \in served
      BY <2>14 DEF RuleHalfMade, ServedOK
    <3>. QED BY <2>14, <3>1, <3>2, ServedMoves DEF RuleHalfMade, Fails
  <2>. QED BY <1>1, <2>1, <2>2, <2>3, <2>4, <2>5, <2>6, <2>7, <2>8, <2>9, <2>10, <2>11, <2>12,
              <2>13, <2>14, <2>15 DEF DeployStep
<1>2. ASSUME NEW t \in Tasks, TaskStep(t) PROVE ServedOK'
  <2>1. CASE TaskRuns(t)
    BY <2>1 DEF TaskRuns, TypeOK, Loaded, ServedOK, Handle, awsVars
  <2>2. CASE FindWaiting(t)
    <3>1. Latest(WithStatus("WAITING_HEALTH_CHECK")) \subseteq Deployments \cap served
      BY DEF Latest, WithStatus, ServedOK
    <3>2. \A e : [task[t] EXCEPT !.pc = "load", !.deployment = e].deployment = e
      BY DEF TypeOK, TaskState
    <3>3. [task[t] EXCEPT !.pc = "findDeploying"].pc = "findDeploying" /\ IdleTask.pc = "idle"
      BY DEF TypeOK, TaskState, IdleTask
    <3>. QED BY <2>2, <3>1, <3>2, <3>3, ServedHandles DEF FindWaiting, Take
  <2>3. CASE FindDeploying(t)
    <3>1. Latest(WithStatus("DEPLOYING_ECS")) \subseteq Deployments \cap served
      BY DEF Latest, WithStatus, ServedOK
    <3>2. \A e : [task[t] EXCEPT !.pc = "load", !.deployment = e].deployment = e
      BY DEF TypeOK, TaskState
    <3>3. [task[t] EXCEPT !.pc = "findDeploying"].pc = "findDeploying" /\ IdleTask.pc = "idle"
      BY DEF TypeOK, TaskState, IdleTask
    <3>. QED BY <2>3, <3>1, <3>2, <3>3, ServedHandles DEF FindDeploying, Take
  <2>4. CASE TaskLoad(t)
    BY <2>4 DEF TaskLoad, TypeOK, Loaded, ServedOK, Handle, awsVars
  <2>7. CASE TaskCompare(t)
    BY <2>7 DEF TaskCompare, TypeOK, Loaded, ServedOK, Handle, awsVars
  <2>5. CASE TaskSave(t)
    <3>1. task[t].deployment \in served /\ task[t].deployment \in Deployments
      BY <2>5 DEF TaskSave, ServedOK, Loaded
    <3>2. \E row : rows' = [rows EXCEPT ![task[t].deployment] = row]
      BY <2>5 DEF TaskSave
    <3>. QED BY <2>5, <3>1, <3>2 DEF TaskSave, TypeOK, ServedOK, Handle, awsVars, IdleTask
  <2>6. CASE TaskFails(t)
    BY <2>6 DEF TaskFails, TypeOK, Loaded, ServedOK, Handle, awsVars, IdleTask
  <2>. QED BY <1>2, <2>1, <2>2, <2>3, <2>4, <2>5, <2>6, <2>7 DEF TaskStep
<1>3. CASE DeletionStep
  <2>1. CASE DeleteStart
    BY <2>1 DEF DeleteStart, ServedOK, awsVars, deployVars
  <2>2. CASE CleanupEcsService
    BY <2>2 DEF CleanupEcsService, ServedOK, awsVars, deployVars
  <2>3. CASE ListRules
    BY <2>3 DEF ListRules, ServedOK, awsVars, deployVars
  <2>4. CASE CleanupAlbRule
    BY <2>4 DEF CleanupAlbRule, ServedOK, awsVars, deployVars
  <2>5. CASE AlbRulesEnd
    BY <2>5 DEF AlbRulesEnd, ServedOK, awsVars, deployVars
  <2>6. CASE CleanupTargetGroups
    BY <2>6 DEF CleanupTargetGroups, ServedOK, awsVars, deployVars
  <2>7. CASE CleanupRoute53Records
    BY <2>7 DEF CleanupRoute53Records, ServedOK, awsVars, deployVars
  <2>8. CASE CleanupEventBridgeRules
    BY <2>8 DEF CleanupEventBridgeRules, ServedOK, awsVars, deployVars
  <2>9. CASE CleanupDeploymentRecords
    BY <2>9 DEF CleanupDeploymentRecords, ServedOK, awsVars, deployVars, NoRows
  <2>10. CASE RemovePipeline
    BY <2>10 DEF RemovePipeline, ServedOK, awsVars, deployVars, NoRows
  <2>11. CASE RemoveFails
    BY <2>11 DEF RemoveFails, ServedOK, awsVars, deployVars
  <2>. QED BY <1>3, <2>1, <2>2, <2>3, <2>4, <2>5, <2>6, <2>7, <2>8, <2>9, <2>10, <2>11 DEF
              DeletionStep
<1>4. CASE Restart
  BY <1>4 DEF Restart, ServedOK, Finished, IdleDeploy, IdleTask, Ended, awsVars
<1>5. CASE UNCHANGED vars
  BY <1>5 DEF vars, ServedOK
<1>. QED BY <1>1, <1>2, <1>3, <1>4, <1>5 DEF Next

(* A deployment is SUCCESS only if ECS accepted its own task definition,   *)
(* whichever deployment the event of the shared service was about.         *)
THEOREM SuccessServed == Spec => []SuccessIsServed
<1>1. Init => ServedOK
  BY DEF Init, ServedOK, NoRows, IdleDeploy, IdleTask
<1>2. TypeOK /\ Loaded /\ ServedOK /\ [Next]_vars => (TypeOK /\ Loaded /\ ServedOK)'
  BY NextTyped, ServedNext
<1>3. ServedOK => SuccessIsServed
  BY DEF ServedOK, SuccessIsServed
<1>. QED BY InitTyped, <1>1, <1>2, <1>3, PTL DEF Spec

-----------------------------------------------------------------------------
(* What a row may name, and what a call has created, given target group g, *)
(* routes rts, service s and records n.                                    *)
Shown(row, g, rts, s, n) ==
  row # None => /\ row.url # None => row.url \in rts \cap n
                /\ row.group => g /\ s

Created(rec, g, rts, s, n) ==
  /\ rec.pc \in {"findRoute", "route"} => g
  /\ rec.pc \in {"findService", "service"} => g /\ rec.url \in rts
  /\ rec.pc = "dns" => g /\ s /\ rec.url \in rts
  /\ rec.pc \in {"ecsRule", "healthRule", "load", "compare", "save"} => g /\ s /\ rec.url \in rts \cap n

(* While nothing is being deleted, rows, the copies that will be saved over*)
(* them and the calls that will fill them name what exists.                *)
ReachOK ==
  deletion.pc = "idle" =>
    /\ \A d \in Deployments : /\ Shown(rows[d], group, routes, service, dns)
                              /\ Shown(deploy[d].copy, group, routes, service, dns)
                              /\ Created(deploy[d], group, routes, service, dns)
    /\ \A t \in Tasks : Shown(task[t].copy, group, routes, service, dns)

Grows == /\ group => group'
         /\ service => service'
         /\ routes \subseteq routes'
         /\ dns \subseteq dns'

LEMMA ShownStays ==
  ASSUME Grows, NEW r
  PROVE  /\ Shown(r, group, routes, service, dns) => Shown(r, group', routes', service', dns')
         /\ Created(r, group, routes, service, dns) => Created(r, group', routes', service', dns')
BY DEF Grows, Shown, Created

(* A row merged of two that name what exists names what exists.            *)
LEMMA MergedShown ==
  ASSUME NEW row \in Row \cup {None}, NEW entity \in Row, NEW columns \in Columns,
         NEW g, NEW rts, NEW s, NEW n, Shown(row, g, rts, s, n), Shown(entity, g, rts, s, n)
  PROVE  Shown(Merged(row, entity, columns), g, rts, s, n)
<1>1. entity # None
  BY NoneIsNothing
<1>2. CASE columns.insert
  BY <1>2 DEF Merged
<1>3. CASE ~columns.insert /\ row = None
  BY <1>3 DEF Merged, Shown
<1>4. CASE ~columns.insert /\ row # None
  <2>1. /\ Merged(row, entity, columns).url \in {row.url, entity.url}
        /\ Merged(row, entity, columns).group \in {row.group, entity.group}
    BY <1>4 DEF Merged, Row, Columns
  <2>. QED BY <1>1, <1>4, <2>1 DEF Shown
<1>. QED BY <1>2, <1>3, <1>4

LEMMA ReachMoves ==
  ASSUME TypeOK, ReachOK, NEW d \in Deployments, NEW rec, Goto(d, rec), Grows,
         deletion' = deletion, task' = task,
         deletion.pc = "idle" =>
           /\ Shown(rec.copy, group', routes', service', dns')
           /\ Created(rec, group', routes', service', dns'),
         rows' = rows \/ \E row : /\ rows' = [rows EXCEPT ![d] = row]
                                  /\ deletion.pc = "idle" => Shown(row, group', routes', service', dns')
  PROVE  ReachOK'
<1> SUFFICES ASSUME deletion.pc = "idle" PROVE ReachOK'
  BY DEF ReachOK
<1>1. ASSUME NEW e \in Deployments
      PROVE  /\ Shown(deploy'[e].copy, group', routes', service', dns')
             /\ Created(deploy'[e], group', routes', service', dns')
  <2>1. CASE e = d
    BY <2>1 DEF Goto, TypeOK
  <2>2. CASE e # d
    BY <2>2, ShownStays DEF Goto, TypeOK, ReachOK
  <2>. QED BY <2>1, <2>2
<1>2. \A e \in Deployments : Shown(rows'[e], group', routes', service', dns')
  BY ShownStays DEF ReachOK, TypeOK
<1>3. \A t \in Tasks : Shown(task'[t].copy, group', routes', service', dns')
  BY ShownStays DEF ReachOK
<1>. QED BY <1>1, <1>2, <1>3 DEF ReachOK

(* A handler touches no resource.                                          *)
LEMMA ReachHandles ==
  ASSUME TypeOK, ReachOK, NEW t \in Tasks, NEW rec, Handle(t, rec),
         deletion.pc = "idle" => Shown(rec.copy, group, routes, service, dns),
         rows' = rows \/ \E d \in Deployments : \E row :
                           /\ rows' = [rows EXCEPT ![d] = row]
                           /\ deletion.pc = "idle" => Shown(row, group, routes, service, dns)
  PROVE  ReachOK'
<1> SUFFICES ASSUME deletion.pc = "idle" PROVE ReachOK'
  BY DEF ReachOK, Handle
<1>1. UNCHANGED <<group, routes, service, dns, deploy>>
  BY DEF Handle, awsVars
<1>2. \A d \in Deployments : Shown(rows'[d], group, routes, service, dns)
  BY DEF ReachOK, TypeOK
<1>3. \A u \in Tasks : Shown(task'[u].copy, group, routes, service, dns)
  BY DEF ReachOK, Handle, TypeOK
<1>. QED BY <1>1, <1>2, <1>3 DEF ReachOK

LEMMA ReachDeploy ==
  ASSUME TypeOK, Loaded, ReachOK, NEW d \in Deployments, DeployStep(d)
  PROVE  ReachOK'
<1>0. deploy[d] \in DeployState /\ CallOK(deploy[d])
  BY DEF TypeOK, Loaded
<1>00. deletion.pc = "idle" => /\ Shown(rows[d], group, routes, service, dns)
                               /\ Shown(deploy[d].copy, group, routes, service, dns)
                               /\ Created(deploy[d], group, routes, service, dns)
  BY DEF ReachOK
<1>1. CASE Start(d)
  <2>1. Grows
    BY <1>1 DEF Start, Grows, awsVars, othersVars
  <2>2. deletion.pc = "idle" =>
          /\ Shown([deploy[d] EXCEPT !.pc = "track", !.url = pipeline.url].copy, group', routes', service', dns')
          /\ Created([deploy[d] EXCEPT !.pc = "track", !.url = pipeline.url], group', routes', service', dns')
    BY <1>0, <1>00, <1>1 DEF Start, DeployState, Shown, Created, Ended, awsVars
  <2>. QED BY <1>1, <2>1, <2>2, ReachMoves DEF Start, MoveTo, awsVars, othersVars
<1>2. CASE Track(d)
  <2>1. Grows
    BY <1>2 DEF Track, Grows, awsVars, othersVars
  <2>2. deletion.pc = "idle" =>
          /\ Shown([deploy[d] EXCEPT !.pc = "url"].copy, group', routes', service', dns')
          /\ Created([deploy[d] EXCEPT !.pc = "url"], group', routes', service', dns')
    BY <1>0, <1>00, <1>2 DEF Track, DeployState, Shown, Created, Ended, awsVars
  <2>3. Shown([status |-> "PENDING", url |-> None, group |-> FALSE], group', routes', service', dns')
    BY DEF Shown
  <2>. QED BY <1>2, <2>1, <2>2, <2>3, ReachMoves DEF Track, MoveTo, awsVars, othersVars
<1>3. CASE SetUrl(d)
  <2>1. Grows
    BY <1>3 DEF SetUrl, Grows, awsVars, othersVars
  <2>2. deletion.pc = "idle" =>
          /\ Shown([deploy[d] EXCEPT !.pc = "group", !.url = d].copy, group', routes', service', dns')
          /\ Created([deploy[d] EXCEPT !.pc = "group", !.url = d], group', routes', service', dns')
    BY <1>0, <1>00, <1>3 DEF SetUrl, DeployState, Shown, Created, awsVars
  <2>3. deletion.pc = "idle" =>
          /\ Shown([deploy[d] EXCEPT !.pc = "group"].copy, group', routes', service', dns')
          /\ Created([deploy[d] EXCEPT !.pc = "group"], group', routes', service', dns')
    BY <1>0, <1>00, <1>3 DEF SetUrl, DeployState, Shown, Created, awsVars
  <2>. QED BY <1>3, <2>1, <2>2, <2>3, ReachMoves DEF SetUrl, MoveTo, awsVars, othersVars
<1>4. CASE SetGroup(d)
  <2>1. Grows
    BY <1>4 DEF SetGroup, Grows, awsVars, othersVars
  <2>2. deletion.pc = "idle" =>
          /\ Shown([deploy[d] EXCEPT !.pc = "findRoute"].copy, group', routes', service', dns')
          /\ Created([deploy[d] EXCEPT !.pc = "findRoute"], group', routes', service', dns')
    BY <1>0, <1>00, <1>4 DEF SetGroup, DeployState, Shown, Created, Ended, awsVars
  <2>. QED BY <1>4, <2>1, <2>2, ReachMoves DEF SetGroup, MoveTo, awsVars, othersVars
<1>5. CASE FindRoute(d)
  <2>1. Grows
    BY <1>5 DEF FindRoute, Grows, awsVars, othersVars
  <2>2. deletion.pc = "idle" =>
          /\ Shown([deploy[d] EXCEPT !.pc = "route", !.found = deploy[d].url \in routes].copy, group', routes', service', dns')
          /\ Created([deploy[d] EXCEPT !.pc = "route", !.found = deploy[d].url \in routes], group', routes', service', dns')
    BY <1>0, <1>00, <1>5 DEF FindRoute, DeployState, Shown, Created, Ended, awsVars
  <2>. QED BY <1>5, <2>1, <2>2, ReachMoves DEF FindRoute, MoveTo, awsVars, othersVars
<1>6. CASE SetRoute(d)
  <2>1. Grows
    BY <1>6 DEF SetRoute, Grows, awsVars, othersVars
  <2>2. deletion.pc = "idle" =>
          /\ Shown([deploy[d] EXCEPT !.pc = "findService", !.found = FALSE].copy, group', routes', service', dns')
          /\ Created([deploy[d] EXCEPT !.pc = "findService", !.found = FALSE], group', routes', service', dns')
    BY <1>0, <1>00, <1>6 DEF SetRoute, DeployState, Shown, Created, Ended, awsVars, CallOK
  <2>. QED BY <1>6, <2>1, <2>2, ReachMoves DEF SetRoute, MoveTo, awsVars, othersVars
<1>7. CASE FindService(d)
  <2>1. Grows
    BY <1>7 DEF FindService, Grows, awsVars, othersVars
  <2>2. \A b : deletion.pc = "idle" =>
          /\ Shown([deploy[d] EXCEPT !.pc = "service", !.found = b].copy, group', routes', service', dns')
          /\ Created([deploy[d] EXCEPT !.pc = "service", !.found = b], group', routes', service', dns')
    BY <1>0, <1>00, <1>7 DEF FindService, DeployState, Shown, Created, awsVars
  <2>. QED BY <1>7, <2>1, <2>2, ReachMoves DEF FindService, awsVars
<1>8. CASE SetService(d)
  <2>1. Grows
    BY <1>8 DEF SetService, Grows, awsVars, othersVars
  <2>2. deletion.pc = "idle" =>
          /\ Shown([deploy[d] EXCEPT !.pc = "dns", !.found = FALSE].copy, group', routes', service', dns')
          /\ Created([deploy[d] EXCEPT !.pc = "dns", !.found = FALSE], group', routes', service', dns')
    BY <1>0, <1>00, <1>8 DEF SetService, DeployState, Shown, Created, Ended, awsVars
  <2>. QED BY <1>8, <2>1, <2>2, ReachMoves DEF SetService, MoveTo, awsVars, othersVars
<1>9. CASE SetDns(d)
  <2>1. Grows
    BY <1>9 DEF SetDns, Grows, awsVars, othersVars
  <2>2. deletion.pc = "idle" =>
          /\ Shown([deploy[d] EXCEPT !.pc = "ecsRule"].copy, group', routes', service', dns')
          /\ Created([deploy[d] EXCEPT !.pc = "ecsRule"], group', routes', service', dns')
    BY <1>0, <1>00, <1>9 DEF SetDns, DeployState, Shown, Created, Ended, awsVars, CallOK
  <2>. QED BY <1>9, <2>1, <2>2, ReachMoves DEF SetDns, MoveTo, awsVars, othersVars
<1>10. CASE SetRule(d)
  <2>1. Grows
    BY <1>10 DEF SetRule, Grows, awsVars, othersVars
  <2>2. deletion.pc = "idle" =>
          /\ Shown([deploy[d] EXCEPT !.pc = "load", !.step = StepOf(d)].copy, group', routes', service', dns')
          /\ Created([deploy[d] EXCEPT !.pc = "load", !.step = StepOf(d)], group', routes', service', dns')
    BY <1>0, <1>00, <1>10 DEF SetRule, DeployState, Shown, Created, Ended, awsVars, StepOf
  <2>. QED BY <1>10, <2>1, <2>2, ReachMoves DEF SetRule, MoveTo, awsVars, othersVars
<1>11. CASE Load(d)
  <2>1. Grows
    BY <1>11 DEF Load, Grows, awsVars, othersVars
  <2>2. rows[d] \in Row /\ deploy[d].pc = "load"
    BY <1>11 DEF Load, TypeOK
  <2>3. deletion.pc = "idle" => Shown(Progress(d, rows[d]), group, routes, service, dns)
    <3>1. \A st : deletion.pc = "idle" =>
             Shown([rows[d] EXCEPT !.status = st], group, routes, service, dns)
      BY <1>00, <2>2, NoneIsNothing DEF Shown, Row
    <3>2. deletion.pc = "idle" =>
             Shown([status |-> "WAITING_HEALTH_CHECK", url |-> deploy[d].url, group |-> TRUE],
                   group, routes, service, dns)
      BY <1>00, <2>2 DEF Shown, Created
    <3>3. deploy[d].step \in {"ecs", "health", "final", "fail"}
      BY <1>0 DEF DeployState
    <3>. QED BY <3>1, <3>2, <3>3 DEF Progress
  <2> DEFINE entity == Progress(d, rows[d])
             rec == [deploy[d] EXCEPT !.pc = "compare", !.copy = entity]
  <2>4. rec.copy = entity /\ rec.pc = "compare" /\ rec.url = deploy[d].url
    <3> HIDE DEF entity
    <3>. QED BY <1>0 DEF DeployState
  <2>5. Goto(d, rec) /\ UNCHANGED <<rows, deletion, task, group, routes, service, dns>>
    BY <1>11 DEF Load, awsVars, othersVars
  <2> HIDE DEF entity, rec
  <2>6. deletion.pc = "idle" => Created(rec, group', routes', service', dns')
    BY <1>00, <2>2, <2>4, <2>5 DEF Created
  <2>7. deletion.pc = "idle" => Shown(rec.copy, group', routes', service', dns')
    BY <2>3, <2>4, <2>5 DEF entity
  <2>. QED BY <2>1, <2>5, <2>6, <2>7, ReachMoves
<1>15. CASE Compare(d)
  <2>1. Grows
    BY <1>15 DEF Compare, Grows, awsVars, othersVars
  <2> DEFINE columns == Differing(deploy[d].copy, rows[d])
             rec == [deploy[d] EXCEPT !.pc = "save", !.columns = columns]
  <2>2. rec.copy = deploy[d].copy /\ rec.pc = "save" /\ rec.url = deploy[d].url /\ deploy[d].pc = "compare"
    <3> HIDE DEF columns
    <3>. QED BY <1>0, <1>15 DEF DeployState, Compare
  <2>3. Goto(d, rec) /\ UNCHANGED <<rows, deletion, task, group, routes, service, dns>>
    BY <1>15 DEF Compare, awsVars, othersVars
  <2> HIDE DEF columns, rec
  <2>4. deletion.pc = "idle" => /\ Shown(rec.copy, group', routes', service', dns')
                                /\ Created(rec, group', routes', service', dns')
    BY <1>00, <2>2, <2>3 DEF Created
  <2>. QED BY <2>1, <2>3, <2>4, ReachMoves
<1>12. CASE Save(d)
  <2>0. /\ deploy[d].pc = "save" /\ deploy[d].copy \in Row /\ deploy[d].columns \in Columns
        /\ rows[d] \in Row \cup {None}
    BY <1>0, <1>12 DEF Save, CallOK, DeployState, TypeOK
  <2>1. Grows /\ UNCHANGED <<group, routes, service, dns>>
    BY <1>12 DEF Save, Grows, awsVars, othersVars
  <2>2. \A pc, step : deletion.pc = "idle" =>
          LET rec == [deploy[d] EXCEPT !.pc = pc, !.step = step, !.copy = None, !.columns = Nothing] IN
          pc \in {"healthRule", "load"} =>
          /\ Shown(rec.copy, group', routes', service', dns')
          /\ Created(rec, group', routes', service', dns')
    BY <1>0, <1>00, <2>0, <2>1 DEF DeployState, Shown, Created
  <2>3. \A pc \in {"done", "failed"} :
          /\ Shown(Finished(pc).copy, group', routes', service', dns')
          /\ Created(Finished(pc), group', routes', service', dns')
    BY FinishedTyped DEF Shown, Created
  <2> DEFINE row == Merged(rows[d], deploy[d].copy, deploy[d].columns)
  <2>4. deletion.pc = "idle" => Shown(row, group', routes', service', dns')
    BY <1>00, <2>0, <2>1, MergedShown
  <2>5. /\ rows' = [rows EXCEPT ![d] = row]
        /\ UNCHANGED <<deletion, task>>
    BY <1>12 DEF Save, othersVars
  <2>6. \/ \E pc \in {"healthRule", "load"}, step \in {"ecs", "final"} :
             Goto(d, [deploy[d] EXCEPT !.pc = pc, !.step = step, !.copy = None, !.columns = Nothing])
        \/ \E pc \in {"done", "failed"} : Goto(d, Finished(pc))
    <3>1. deploy[d].step \in {"ecs", "health", "final", "fail"}
      BY <1>0 DEF DeployState
    <3>. QED BY <1>12, <3>1 DEF Save
  <2> HIDE DEF row
  <2>. QED BY <2>1, <2>2, <2>3, <2>4, <2>5, <2>6, ReachMoves
<1>13. CASE Throws(d)
  <2>1. Grows /\ UNCHANGED <<group, routes, service, dns, rows, deletion, task>>
    BY <1>13 DEF Throws, Grows, awsVars, othersVars
  <2>2. deletion.pc = "idle" /\ Tracking(d) =>
          LET rec == [deploy[d] EXCEPT !.pc = "load", !.step = "fail", !.copy = None, !.columns = Nothing] IN
          /\ Shown(rec.copy, group', routes', service', dns')
          /\ Created(rec, group', routes', service', dns')
    BY <1>0, <1>00, <2>1 DEF DeployState, Shown, Created, Tracking
  <2>3. /\ Shown(Finished("failed").copy, group', routes', service', dns')
        /\ Created(Finished("failed"), group', routes', service', dns')
    BY FinishedTyped DEF Shown, Created
  <2>. QED BY <1>13, <2>1, <2>2, <2>3, ReachMoves DEF Throws, Fails
<1>14. CASE RuleHalfMade(d)
  <2>1. Grows /\ UNCHANGED <<group, routes, service, dns, rows, deletion, task>>
    BY <1>14 DEF RuleHalfMade, Grows, awsVars, othersVars
  <2>2. deletion.pc = "idle" /\ Tracking(d) =>
          LET rec == [deploy[d] EXCEPT !.pc = "load", !.step = "fail", !.copy = None, !.columns = Nothing] IN
          /\ Shown(rec.copy, group', routes', service', dns')
          /\ Created(rec, group', routes', service', dns')
    BY <1>0, <1>00, <2>1 DEF DeployState, Shown, Created, Tracking
  <2>3. /\ Shown(Finished("failed").copy, group', routes', service', dns')
        /\ Created(Finished("failed"), group', routes', service', dns')
    BY FinishedTyped DEF Shown, Created
  <2>. QED BY <1>14, <2>1, <2>2, <2>3, ReachMoves DEF RuleHalfMade, Fails
<1>. QED BY <1>1, <1>2, <1>3, <1>4, <1>5, <1>6, <1>7, <1>8, <1>9, <1>10, <1>11, <1>12, <1>13,
            <1>14, <1>15 DEF DeployStep

LEMMA ReachTask ==
  ASSUME TypeOK, Loaded, ReachOK, NEW t \in Tasks, TaskStep(t)
  PROVE  ReachOK'
<1> USE Records
<1>0. task[t] \in TaskState
  BY DEF TypeOK
<1>00. deletion.pc = "idle" => Shown(task[t].copy, group, routes, service, dns)
  BY DEF ReachOK
<1>1. Shown(IdleTask.copy, group, routes, service, dns)
  BY DEF Shown, IdleTask
<1>2. CASE TaskRuns(t)
  <2>1. [task[t] EXCEPT !.pc = "findWaiting"].copy = task[t].copy
    BY <1>0 DEF TaskState
  <2>. QED BY <1>00, <1>2, <2>1, ReachHandles DEF TaskRuns
<1>3. CASE FindWaiting(t) \/ FindDeploying(t)
  <2>1. /\ [task[t] EXCEPT !.pc = "findDeploying"].copy = task[t].copy
        /\ \A e : [task[t] EXCEPT !.pc = "load", !.deployment = e].copy = task[t].copy
    BY <1>0 DEF TaskState
  <2>. QED BY <1>00, <1>1, <1>3, <2>1, ReachHandles DEF FindWaiting, FindDeploying, Take
<1>4. CASE TaskLoad(t)
  <2> DEFINE entity == [rows[task[t].deployment] EXCEPT !.status = "SUCCESS"]
             rec == [task[t] EXCEPT !.pc = "compare", !.copy = entity]
  <2>1. task[t].deployment \in Deployments /\ rows[task[t].deployment] \in Row
    BY <1>4 DEF TaskLoad, Loaded, TypeOK
  <2>2. deletion.pc = "idle" => Shown(entity, group, routes, service, dns)
    BY <2>1, NoneIsNothing DEF ReachOK, Shown, Row
  <2>3. Handle(t, rec) /\ rows' = rows
    BY <1>4 DEF TaskLoad
  <2> HIDE DEF entity
  <2>4. rec.copy = entity
    BY <1>0 DEF TaskState
  <2> HIDE DEF rec
  <2>. QED BY <2>2, <2>3, <2>4, ReachHandles
<1>7. CASE TaskCompare(t)
  <2> DEFINE columns == Differing(task[t].copy, rows[task[t].deployment])
             rec == [task[t] EXCEPT !.pc = "save", !.columns = columns]
  <2>1. Handle(t, rec) /\ rows' = rows
    BY <1>7 DEF TaskCompare
  <2> HIDE DEF columns
  <2>2. rec.copy = task[t].copy
    BY <1>0 DEF TaskState
  <2> HIDE DEF rec
  <2>. QED BY <1>00, <2>1, <2>2, ReachHandles
<1>5. CASE TaskSave(t)
  <2> DEFINE row == Merged(rows[task[t].deployment], task[t].copy, task[t].columns)
  <2>1. /\ task[t].deployment \in Deployments /\ task[t].copy \in Row
        /\ task[t].columns \in Columns /\ rows[task[t].deployment] \in Row \cup {None}
    BY <1>0, <1>5 DEF TaskSave, Loaded, TaskState, TypeOK
  <2>2. deletion.pc = "idle" => Shown(rows[task[t].deployment], group, routes, service, dns)
    BY <2>1 DEF ReachOK
  <2>3. deletion.pc = "idle" => Shown(row, group, routes, service, dns)
    BY <1>00, <2>1, <2>2, MergedShown
  <2>4. rows' = [rows EXCEPT ![task[t].deployment] = row] /\ Handle(t, IdleTask)
    BY <1>5 DEF TaskSave
  <2> HIDE DEF row
  <2>. QED BY <1>1, <2>1, <2>3, <2>4, ReachHandles
<1>6. CASE TaskFails(t)
  BY <1>1, <1>6, ReachHandles DEF TaskFails
<1>. QED BY <1>2, <1>3, <1>4, <1>5, <1>6, <1>7 DEF TaskStep

(* No step of a deletion leaves it, or makes it, idle.                     *)
LEMMA DeletionNotIdle ==
  ASSUME TypeOK, DeletionStep PROVE deletion'.pc # "idle"
<1>1. \A pc : [deletion EXCEPT !.pc = pc].pc = pc
  BY DEF TypeOK, DeletionState
<1>2. \A pc, todo : [deletion EXCEPT !.pc = pc, !.todo = todo].pc = pc
  BY DEF TypeOK, DeletionState
<1>3. \A pc : [IdleDeletion EXCEPT !.pc = pc].pc = pc
  BY DEF IdleDeletion
<1>4. \A todo : [deletion EXCEPT !.todo = todo].pc = deletion.pc
  BY DEF TypeOK, DeletionState

<1>5. CASE DeleteStart
  BY <1>5, <1>1 DEF DeleteStart, Phase
<1>6. CASE CleanupEcsService
  BY <1>6, <1>1 DEF CleanupEcsService, Phase
<1>7. CASE ListRules
  BY <1>7, <1>2 DEF ListRules, Phase
<1>8. CASE CleanupAlbRule
  BY <1>8, <1>4 DEF CleanupAlbRule, Phase
<1>9. CASE AlbRulesEnd
  BY <1>9, <1>2 DEF AlbRulesEnd, Phase
<1>10. CASE CleanupTargetGroups
  BY <1>10, <1>1 DEF CleanupTargetGroups, Phase
<1>11. CASE CleanupRoute53Records
  BY <1>11, <1>1 DEF CleanupRoute53Records, Phase
<1>12. CASE CleanupEventBridgeRules
  BY <1>12, <1>1 DEF CleanupEventBridgeRules, Phase
<1>13. CASE CleanupDeploymentRecords
  BY <1>13, <1>1 DEF CleanupDeploymentRecords, Phase
<1>14. CASE RemovePipeline
  BY <1>14, <1>3 DEF RemovePipeline, Phase
<1>15. CASE RemoveFails
  BY <1>15, <1>3 DEF RemoveFails, Phase
<1>. QED BY <1>5, <1>6, <1>7, <1>8, <1>9, <1>10, <1>11, <1>12, <1>13, <1>14, <1>15 DEF DeletionStep

LEMMA ReachRestart ==
  ASSUME TypeOK, ReachOK, Restart PROVE ReachOK'
<1> SUFFICES ASSUME deletion'.pc = "idle" PROVE ReachOK'
  BY DEF ReachOK
<1>1. deletion.pc = "idle"
  BY DEF Restart, IdleDeletion, Deleting, Ended
<1>2. UNCHANGED <<group, routes, service, dns, rows>>
  BY DEF Restart, awsVars
<1>3. \A d \in Deployments : /\ Shown(deploy'[d].copy, group, routes, service, dns)
                             /\ Created(deploy'[d], group, routes, service, dns)
  BY <1>1, FinishedTyped DEF Restart, ReachOK, Shown, Created, Ended
<1>4. \A t \in Tasks : Shown(task'[t].copy, group, routes, service, dns)
  BY DEF Restart, IdleTask, Shown
<1>. QED BY <1>1, <1>2, <1>3, <1>4 DEF ReachOK

LEMMA ReachNext == TypeOK /\ Loaded /\ ReachOK /\ [Next]_vars => ReachOK'
<1> SUFFICES ASSUME TypeOK, Loaded, ReachOK, [Next]_vars PROVE ReachOK'
  OBVIOUS
<1>1. CASE DeletionStep
  BY <1>1, DeletionNotIdle DEF ReachOK
<1>2. CASE UNCHANGED vars
  BY <1>2 DEF vars, ReachOK
<1>. QED BY <1>1, <1>2, ReachDeploy, ReachTask, ReachRestart DEF Next

(* Until a deletion starts, what a row shows exists, whichever deployment  *)
(* made it, whatever was saved over it and whatever failed.                *)
THEOREM ShownReachable == Spec => []ShownIsReachable
<1>1. Init => ReachOK
  BY DEF Init, ReachOK, Shown, Created, NoRows, IdleDeploy, IdleTask
<1>2. TypeOK /\ Loaded /\ ReachOK /\ [Next]_vars => (TypeOK /\ Loaded /\ ReachOK)'
  BY NextTyped, ReachNext
<1>3. ReachOK => ShownIsReachable
  BY DEF ReachOK, ShownIsReachable, Shown
<1>. QED BY InitTyped, <1>1, <1>2, <1>3, PTL DEF Spec

-----------------------------------------------------------------------------
(* As long as nothing fails and no deployment is under way with a deletion,*)
(* every rule has a row before the deletion, which reads them all and has  *)
(* the pipeline to itself.                                                 *)
RulesHaveRows ==
  deletion.pc = "idle" =>
    /\ \A d \in Deployments : deploy[d].pc \notin {"idle", "track", "failed"} => rows[d] # None
    /\ \A r \in rules : rows[r[1]] # None

Alone == deletion.pc # "idle" => deletion.pc # "failed" /\ UnderWay = {}

RulesRemoved ==
  /\ deletion.pc \in {"service", "list", "routes", "groups", "dns", "rules"} =>
       \A r \in rules : r[1] \in Read
  /\ deletion.pc \in {"records", "remove", "done"} => rules = {}
  /\ deletion.pc = "done" => ~pipeline.exists

CleanOK == faults = 0 => /\ deletion.pc # "failed"
                         /\ RulesHaveRows
                         /\ ~overlap => Alone /\ RulesRemoved

LEMMA FaultCounts == TypeOK /\ Fault => faults' # 0
BY DEF TypeOK, Fault

LEMMA DeployFaults ==
  ASSUME TypeOK, NEW d \in Deployments, DeployStep(d), faults' = 0
  PROVE  faults = 0 /\ deletion' = deletion
BY FaultCounts DEF DeployStep, Start, Track, SetUrl, SetGroup, FindRoute, SetRoute, FindService,
     SetService, SetDns, SetRule, Load, Compare, Save, Throws, RuleHalfMade, othersVars

(* Nothing of a deployment runs beside a deletion, or overlap records it.  *)
LEMMA NotBeside ==
  ASSUME TypeOK, CleanOK, NEW d \in Deployments, DeployStep(d), faults' = 0, ~overlap'
  PROVE  deletion.pc = "idle" /\ ~overlap
<1>1. faults = 0
  BY DeployFaults
<1>2. CASE Start(d)
  <2>1. ~overlap /\ ~Deleting /\ pipeline.exists
    BY <1>2 DEF Start, TypeOK
  <2>2. deletion.pc \in {"idle", "done"}
    BY <1>1, <2>1 DEF Deleting, Ended, CleanOK
  <2>. QED BY <1>1, <2>1, <2>2 DEF CleanOK, RulesRemoved
<1>3. CASE ~Start(d)
  <2>1. deploy[d].pc \notin Ended /\ overlap' = overlap
    BY <1>3 DEF DeployStep, Track, SetUrl, SetGroup, FindRoute, SetRoute, FindService,
         SetService, SetDns, SetRule, Load, Compare, Save, Throws, RuleHalfMade, othersVars, Ended
  <2>2. d \in UnderWay
    BY <2>1 DEF UnderWay
  <2>. QED BY <1>1, <2>1, <2>2 DEF CleanOK, Alone
<1>. QED BY <1>2, <1>3

LEMMA CleanMoves ==
  ASSUME TypeOK, RulesHaveRows, NEW d \in Deployments, NEW rec, Goto(d, rec), deletion' = deletion,
         deletion.pc = "idle" =>
           (rec.pc \notin {"idle", "track", "failed"} => rows'[d] # None),
         rows' = rows \/ \E row : rows' = [rows EXCEPT ![d] = row] /\ row # None,
         \A r \in rules' : r \in rules \/ (rows'[r[1]] # None)
  PROVE  RulesHaveRows'
<1> SUFFICES ASSUME deletion.pc = "idle" PROVE RulesHaveRows'
  BY DEF RulesHaveRows
<1>1. \A e \in Deployments : rows[e] # None => rows'[e] # None
  BY DEF TypeOK
<1>2. \A e \in Deployments : deploy'[e].pc \notin {"idle", "track", "failed"} => rows'[e] # None
  <2>1. deploy'[d] = rec /\ \A e \in Deployments : e # d => deploy'[e] = deploy[e]
    BY DEF Goto, TypeOK
  <2>. QED BY <1>1, <2>1 DEF RulesHaveRows
<1>3. \A r \in rules : rows'[r[1]] # None
  <2>1. \A r \in rules : r[1] \in Deployments
    BY DEF TypeOK
  <2>. QED BY <1>1, <2>1 DEF RulesHaveRows
<1>. QED BY <1>2, <1>3 DEF RulesHaveRows

LEMMA CleanDeploy ==
  ASSUME TypeOK, Loaded, CleanOK, NEW d \in Deployments, DeployStep(d)
  PROVE  CleanOK'
<1> SUFFICES ASSUME faults' = 0 PROVE CleanOK'
  BY DEF CleanOK
<1>1. faults = 0 /\ deletion' = deletion /\ RulesHaveRows
  BY DeployFaults DEF CleanOK
<1>2. deploy[d] \in DeployState /\ CallOK(deploy[d])
  BY DEF TypeOK, Loaded
<1>3. deletion.pc = "idle" /\ deploy[d].pc \notin {"idle", "track", "failed"} => rows[d] # None
  BY <1>1 DEF RulesHaveRows
<1>4. RulesHaveRows'
  <2>1. CASE Start(d)
    <3>1. [deploy[d] EXCEPT !.pc = "track", !.url = pipeline.url].pc = "track"
      BY <1>2 DEF DeployState
    <3>. QED BY <1>1, <2>1, <3>1, CleanMoves DEF Start, awsVars
  <2>2. CASE Track(d)
    <3> DEFINE row == [status |-> "PENDING", url |-> None, group |-> FALSE]
    <3>0. row \in Row
      BY DEF Row, Status
    <3>1. row # None
      BY <3>0, NoneIsNothing
    <3>2. rows' = [rows EXCEPT ![d] = row] /\ rules' = rules
      BY <2>2 DEF Track, awsVars
    <3>3. rows'[d] # None
      BY <3>1, <3>2 DEF TypeOK
    <3> HIDE DEF row
    <3>. QED BY <1>1, <2>2, <3>1, <3>2, <3>3, CleanMoves DEF Track, MoveTo
  <2>3. CASE SetUrl(d)
    <3>1. deletion.pc = "idle" => rows[d] # None
      BY <1>3, <2>3 DEF SetUrl
    <3>2. rows' = rows /\ rules' = rules /\ \E rec : Goto(d, rec)
      BY <2>3 DEF SetUrl, MoveTo, awsVars
    <3>. QED BY <1>1, <3>1, <3>2, CleanMoves
  <2>4. CASE SetGroup(d)
    <3>1. deletion.pc = "idle" => rows[d] # None
      BY <1>3, <2>4 DEF SetGroup
    <3>2. rows' = rows /\ rules' = rules /\ \E rec : Goto(d, rec)
      BY <2>4 DEF SetGroup, MoveTo, awsVars
    <3>. QED BY <1>1, <3>1, <3>2, CleanMoves
  <2>5. CASE FindRoute(d)
    <3>1. deletion.pc = "idle" => rows[d] # None
      BY <1>3, <2>5 DEF FindRoute
    <3>2. rows' = rows /\ rules' = rules /\ \E rec : Goto(d, rec)
      BY <2>5 DEF FindRoute, MoveTo, awsVars
    <3>. QED BY <1>1, <3>1, <3>2, CleanMoves
  <2>6. CASE SetRoute(d)
    <3>1. deletion.pc = "idle" => rows[d] # None
      BY <1>3, <2>6 DEF SetRoute
    <3>2. rows' = rows /\ rules' = rules /\ \E rec : Goto(d, rec)
      BY <2>6 DEF SetRoute, MoveTo, awsVars
    <3>. QED BY <1>1, <3>1, <3>2, CleanMoves
  <2>7. CASE FindService(d)
    <3>1. deletion.pc = "idle" => rows[d] # None
      BY <1>3, <2>7 DEF FindService
    <3>2. rows' = rows /\ rules' = rules /\ \E rec : Goto(d, rec)
      BY <2>7 DEF FindService, MoveTo, awsVars
    <3>. QED BY <1>1, <3>1, <3>2, CleanMoves
  <2>8. CASE SetService(d)
    <3>1. deletion.pc = "idle" => rows[d] # None
      BY <1>3, <2>8 DEF SetService
    <3>2. rows' = rows /\ rules' = rules /\ \E rec : Goto(d, rec)
      BY <2>8 DEF SetService, MoveTo, awsVars
    <3>. QED BY <1>1, <3>1, <3>2, CleanMoves
  <2>9. CASE SetDns(d)
    <3>1. deletion.pc = "idle" => rows[d] # None
      BY <1>3, <2>9 DEF SetDns
    <3>2. rows' = rows /\ rules' = rules /\ \E rec : Goto(d, rec)
      BY <2>9 DEF SetDns, MoveTo, awsVars
    <3>. QED BY <1>1, <3>1, <3>2, CleanMoves
  <2>10. CASE SetRule(d)
    <3>1. deletion.pc = "idle" => rows[d] # None
      BY <1>3, <2>10 DEF SetRule
    <3>2. rows' = rows /\ rules' = rules \cup {<<d, StepOf(d)>>}
      BY <2>10 DEF SetRule
    <3>3. deletion.pc = "idle" => \A r \in rules' : r \in rules \/ rows'[r[1]] # None
      BY <3>1, <3>2
    <3>4. CASE deletion.pc = "idle"
      BY <1>1, <2>10, <3>1, <3>2, <3>3, <3>4, CleanMoves DEF SetRule
    <3>5. CASE deletion.pc # "idle"
      BY <1>1, <3>5 DEF RulesHaveRows
    <3>. QED BY <3>4, <3>5
  <2>11. CASE Load(d)
    <3>1. deletion.pc = "idle" => rows[d] # None
      BY <1>3, <2>11 DEF Load
    <3>2. rows' = rows /\ rules' = rules /\ \E rec : Goto(d, rec)
      BY <2>11 DEF Load, MoveTo, awsVars
    <3>. QED BY <1>1, <3>1, <3>2, CleanMoves
  <2>15. CASE Compare(d)
    <3>1. deletion.pc = "idle" => rows[d] # None
      BY <1>3, <2>15 DEF Compare
    <3>2. rows' = rows /\ rules' = rules /\ \E rec : Goto(d, rec)
      BY <2>15 DEF Compare, awsVars
    <3>. QED BY <1>1, <3>1, <3>2, CleanMoves
  <2>12. CASE Save(d)
    <3> DEFINE row == Merged(rows[d], deploy[d].copy, deploy[d].columns)
    <3>1. rows' = [rows EXCEPT ![d] = row] /\ rules' = rules
      BY <2>12 DEF Save, awsVars
    <3>2. deletion.pc = "idle" => row # None
      <4>1. /\ deploy[d].copy \in Row /\ deploy[d].columns \in Columns
            /\ rows[d] \in Row \cup {None}
        BY <1>2, <2>12 DEF Save, CallOK, DeployState, TypeOK
      <4>2. deletion.pc = "idle" => rows[d] # None
        BY <1>3, <2>12 DEF Save
      <4>. QED BY <4>1, <4>2, MergedTyped, NoneIsNothing
    <3>3. deploy[d].step \in {"ecs", "health", "final", "fail"}
      BY <1>2 DEF DeployState
    <3>4. PICK rec : Goto(d, rec)
      BY <2>12, <3>3 DEF Save
    <3> HIDE DEF row
    <3>5. CASE deletion.pc = "idle"
      <4>1. row # None /\ rows'[d] # None
        BY <3>1, <3>2, <3>5 DEF TypeOK
      <4>. QED BY <1>1, <3>1, <3>4, <4>1, CleanMoves
    <3>6. CASE deletion.pc # "idle"
      BY <1>1, <3>6 DEF RulesHaveRows
    <3>. QED BY <3>5, <3>6
  <2>13. CASE Throws(d)
    <3>1. Finished("failed").pc = "failed"
      BY FinishedTyped
    <3>2. deletion.pc = "idle" /\ Tracking(d) => rows[d] # None
      BY <1>3 DEF Tracking
    <3>. QED BY <1>1, <2>13, <3>1, <3>2, CleanMoves DEF Throws, Fails, awsVars
  <2>14. CASE RuleHalfMade(d)
    BY <2>14, FaultCounts DEF RuleHalfMade
  <2>. QED BY <2>1, <2>2, <2>3, <2>4, <2>5, <2>6, <2>7, <2>8, <2>9, <2>10, <2>11, <2>12, <2>13,
              <2>14, <2>15 DEF DeployStep
<1>5. ~overlap' => deletion.pc = "idle"
  BY NotBeside
<1>6. deletion.pc = "idle" => (Alone /\ RulesRemoved)'
  BY <1>1 DEF Alone, RulesRemoved
<1>. QED BY <1>1, <1>4, <1>5, <1>6 DEF CleanOK

LEMMA CleanTask ==
  ASSUME TypeOK, Loaded, CleanOK, NEW t \in Tasks, TaskStep(t)
  PROVE  CleanOK'
<1> SUFFICES ASSUME faults' = 0 PROVE CleanOK'
  BY DEF CleanOK
<1>1. UNCHANGED <<pipeline, deploy, deletion, rules, overlap, faults>>
  BY FaultCounts DEF TaskStep, TaskRuns, FindWaiting, FindDeploying, Take, TaskLoad, TaskCompare,
     TaskSave, TaskFails, Handle, awsVars
<1>2. \A d \in Deployments : rows[d] # None => rows'[d] # None
  <2>1. CASE TaskSave(t)
    <3> DEFINE row == Merged(rows[task[t].deployment], task[t].copy, task[t].columns)
    <3>1. /\ task[t].deployment \in Deployments /\ task[t].copy \in Row
          /\ task[t].columns \in Columns /\ rows[task[t].deployment] \in Row \cup {None}
      BY <2>1 DEF TaskSave, Loaded, TypeOK, TaskState
    <3>2. rows[task[t].deployment] # None => row # None
      BY <3>1, MergedTyped, NoneIsNothing
    <3>3. rows' = [rows EXCEPT ![task[t].deployment] = row]
      BY <2>1 DEF TaskSave
    <3> HIDE DEF row
    <3>. QED BY <3>2, <3>3 DEF TypeOK
  <2>2. CASE ~TaskSave(t)
    <3>1. rows' = rows
      BY <2>2 DEF TaskStep, TaskRuns, FindWaiting, FindDeploying, TaskLoad, TaskCompare, TaskFails
    <3>. QED BY <3>1
  <2>. QED BY <2>1, <2>2
<1>3. \A r \in rules : r[1] \in Deployments
  BY DEF TypeOK
<1>4. RulesHaveRows => RulesHaveRows'
  BY <1>1, <1>2, <1>3 DEF RulesHaveRows
<1>5. (Alone => Alone') /\ (RulesRemoved => RulesRemoved')
  BY <1>1 DEF Alone, UnderWay, RulesRemoved, Read
<1>. QED BY <1>1, <1>4, <1>5 DEF CleanOK

LEMMA CleanDelete ==
  ASSUME TypeOK, CleanOK, DeletionStep
  PROVE  CleanOK'
<1> SUFFICES ASSUME faults' = 0 PROVE CleanOK'
  BY DEF CleanOK
<1>1. faults = 0 /\ deploy' = deploy
  <2>1. UNCHANGED faults \/ Fault
    BY DEF DeletionStep, DeleteStart, CleanupEcsService, ListRules, CleanupAlbRule,
       AlbRulesEnd, CleanupTargetGroups, CleanupRoute53Records, CleanupEventBridgeRules,
       CleanupDeploymentRecords, RemovePipeline, RemoveFails
  <2>2. UNCHANGED deployVars
    BY DEF DeletionStep, DeleteStart, CleanupEcsService, ListRules, CleanupAlbRule,
       AlbRulesEnd, CleanupTargetGroups, CleanupRoute53Records, CleanupEventBridgeRules,
       CleanupDeploymentRecords, RemovePipeline, RemoveFails
  <2>. QED BY <2>1, <2>2, FaultCounts DEF deployVars
<1>2. /\ \A pc : [deletion EXCEPT !.pc = pc].pc = pc /\ [deletion EXCEPT !.pc = pc].rows = deletion.rows
      /\ \A pc, todo : /\ [deletion EXCEPT !.pc = pc, !.todo = todo].pc = pc
                       /\ [deletion EXCEPT !.pc = pc, !.todo = todo].rows = deletion.rows
      /\ \A todo : /\ [deletion EXCEPT !.todo = todo].pc = deletion.pc
                   /\ [deletion EXCEPT !.todo = todo].rows = deletion.rows
      /\ \A pc : [IdleDeletion EXCEPT !.pc = pc].pc = pc
  BY DEF TypeOK, DeletionState, IdleDeletion
<1>3. \A r \in rules : r[1] \in Deployments /\ r[2] \in {"ecs", "health"}
  BY DEF TypeOK
<1>4. /\ deletion'.pc \notin {"idle", "failed"}
      /\ ~overlap' => Alone' /\ RulesRemoved'
  <2> DEFINE Goal == deletion'.pc \notin {"idle", "failed"} /\ (~overlap' => Alone' /\ RulesRemoved')
  <2>1. CASE DeleteStart
    <3>1. deletion.pc = "idle" /\ deletion' = [pc |-> "service", todo |-> {}, rows |-> rows]
      BY <1>1, <2>1 DEF DeleteStart, CleanOK
    <3>2. \A r \in rules : rows[r[1]] # None
      BY <1>1, <3>1 DEF CleanOK, RulesHaveRows
    <3>3. rules' = rules /\ (~overlap' => UnderWay = {})
      BY <2>1 DEF DeleteStart, awsVars, TypeOK
    <3>. QED BY <1>1, <1>3, <3>1, <3>2, <3>3 DEF Alone, RulesRemoved, UnderWay, Read
  <2>2. ASSUME ~DeleteStart PROVE Goal
    <3>1. overlap' = overlap /\ deletion.pc \notin {"idle", "done", "failed"}
      BY <2>2 DEF DeletionStep, CleanupEcsService, ListRules, CleanupAlbRule, AlbRulesEnd,
         CleanupTargetGroups, CleanupRoute53Records, CleanupEventBridgeRules,
         CleanupDeploymentRecords, RemovePipeline, RemoveFails
    <3>2. ~overlap => UnderWay' = {} /\ RulesRemoved
      BY <1>1, <3>1 DEF CleanOK, Alone, UnderWay
    <3>3. ~overlap /\ deletion.pc # "rules" /\ rules' = rules /\ deletion'.rows = deletion.rows
            => Read' = Read
      BY DEF Read
    <3> USE <1>1, <1>2, <3>1, <3>2 DEF Alone, RulesRemoved
    <3>4. CASE CleanupEcsService
      BY <3>4, FaultCounts DEF CleanupEcsService, Phase, Read, awsVars
    <3>5. CASE ListRules
      BY <3>5, FaultCounts DEF ListRules, Phase, Read, awsVars
    <3>6. CASE CleanupAlbRule
      BY <3>6, FaultCounts DEF CleanupAlbRule, Phase, Read, awsVars
    <3>7. CASE AlbRulesEnd
      BY <3>7, FaultCounts DEF AlbRulesEnd, Phase, Read, awsVars
    <3>8. CASE CleanupTargetGroups
      BY <3>8, FaultCounts DEF CleanupTargetGroups, Phase, Read, awsVars
    <3>9. CASE CleanupRoute53Records
      BY <3>9, FaultCounts DEF CleanupRoute53Records, Phase, Read, awsVars
    <3>10. CASE CleanupEventBridgeRules
      <4>1. ~overlap => \A r \in rules : r[1] \in Read
        BY <3>10 DEF CleanupEventBridgeRules
      <4>2. rules' = rules \ {r \in rules : r[1] \in Read /\ r[2] \in {"ecs", "health"}}
        BY <3>10, FaultCounts DEF CleanupEventBridgeRules
      <4>3. ~overlap => rules' = {}
        BY <1>3, <4>1, <4>2
      <4>. QED BY <3>10, <4>3 DEF CleanupEventBridgeRules, Phase
    <3>11. CASE CleanupDeploymentRecords
      BY <3>11, FaultCounts DEF CleanupDeploymentRecords, Phase, Read, awsVars
    <3>12. CASE RemovePipeline
      BY <3>12, FaultCounts DEF RemovePipeline, Phase, Read, awsVars
    <3>13. CASE RemoveFails
      BY <3>13, FaultCounts DEF RemoveFails
    <3>. QED BY <2>2, <3>4, <3>5, <3>6, <3>7, <3>8, <3>9, <3>10, <3>11, <3>12, <3>13 DEF
                DeletionStep
  <2>. QED BY <2>1, <2>2
<1>5. RulesHaveRows'
  BY <1>4 DEF RulesHaveRows
<1>. QED BY <1>4, <1>5 DEF CleanOK

LEMMA CleanNext == TypeOK /\ Loaded /\ CleanOK /\ [Next]_vars => CleanOK'
<1> SUFFICES ASSUME TypeOK, Loaded, CleanOK, [Next]_vars PROVE CleanOK'
  OBVIOUS
<1>1. CASE Restart
  BY <1>1, FaultCounts DEF Restart, CleanOK
<1>2. CASE UNCHANGED vars
  BY <1>2 DEF vars, CleanOK, RulesHaveRows, Alone, UnderWay, RulesRemoved, Read
<1>. QED BY <1>1, <1>2, CleanDeploy, CleanTask, CleanDelete DEF Next

(* A deletion that met no error and no deployment under way leaves no rule *)
(* of the pipeline, however many deployments there were and whatever the   *)
(* saves of their handlers overwrote.                                      *)
THEOREM RulesEnd == Spec => []RulesEndWithPipeline
<1>1. Init => CleanOK
  BY DEF Init, CleanOK, RulesHaveRows, Alone, RulesRemoved, IdleDeletion, IdleDeploy
<1>2. TypeOK /\ Loaded /\ CleanOK /\ [Next]_vars => (TypeOK /\ Loaded /\ CleanOK)'
  BY NextTyped, CleanNext
<1>3. CleanOK => RulesEndWithPipeline
  BY DEF CleanOK, RulesRemoved, RulesEndWithPipeline, CleanDeletion
<1>. QED BY InitTyped, <1>1, <1>2, <1>3, PTL DEF Spec
=============================================================================
