------------------------------ MODULE Provisioning ------------------------------
(***************************************************************************)
(* A project and its AWS resources: ProjectService creates the resources   *)
(* one call after the other and inserts the row last; when something fails *)
(* it rolls back what it has recorded.  Deleting removes the resources     *)
(* first, whatever fails, then the pipelines and the row.                  *)
(*                                                                         *)
(* The rows refer to GithubApp rows, which the webhooks of Installations   *)
(* insert and delete meanwhile.  Pipelines matter as rows that refer to a  *)
(* project; OTTO_LAMBDA_ARN is configured or not for good.                 *)
(***************************************************************************)
EXTENDS Installations

CONSTANTS
  Requests,     \* requests ProjectService serves at once
  LambdaArn,    \* whether OTTO_LAMBDA_ARN is configured
  MaxRequests,  \* bound: requests ever made
  MaxWork       \* bound: requests and webhooks together

ASSUME ProvisioningAssumption ==
  LambdaArn \in BOOLEAN /\ MaxRequests \in Nat /\ MaxWork \in Nat

VARIABLES
  row,        \* projects with a row
  res,        \* the AWS resources of each project that exist
  pipelines,  \* projects some pipeline row refers to
  request,    \* what each request is at
  made,       \* requests made so far
  used,       \* project ids generated
  asked,      \* projects somebody asked to delete
  upset       \* what went wrong for each project

projectVars == <<row, res, pipelines, request, made, used, asked, upset>>
vars == <<installationVars, projectVars>>

Rule      == {"rule", "target", "permission"}
Resources == {"repository", "logs", "build"} \cup Rule
Wanted    == IF LambdaArn THEN Resources ELSE {"repository", "logs", "build", "rule"}
Upsets    == {"make", "target", "undo", "db"}

Kinds == {"create", "rollback", "update", "delete"}
Idle  == [pc |-> "idle", kind |-> None, project |-> None, inst |-> None, todo |-> {}]
RequestState == {Idle} \cup
  [pc : {"find", "repository", "logs", "build", "rule", "target", "permission", "save",
         "untarget", "unpermit", "unrule", "unbuild", "drop", "pipelines", "row"},
   kind : Kinds, project : Projects, inst : Installations \cup {None},
   todo : SUBSET {"repository", "logs"}]

ProjectsInit ==
  /\ row       = {}
  /\ res       = [p \in Projects |-> {}]
  /\ pipelines = {}
  /\ request   = [r \in Requests |-> Idle]
  /\ made      = 0
  /\ used      = {}
  /\ asked     = {}
  /\ upset     = [p \in Projects |-> {}]

Init == InstallationsInit /\ ProjectsInit

-----------------------------------------------------------------------------
(* A project's requests: where they are and what their steps leave alone.  *)

Serves(r, p)  == request[r].pc # "idle" /\ request[r].project = p
Of(r)         == request[r].project
Is(r, pc)     == request[r].pc = pc
Step(r, pc)   == request' = [request EXCEPT ![r].pc = pc]
End(r)        == request' = [request EXCEPT ![r] = Idle]
Upset(r, what) == upset' = [upset EXCEPT ![Of(r)] = @ \cup {what}]
Add(r, thing) == res' = [res EXCEPT ![Of(r)] = @ \cup {thing}]
Drop(r, thing) == res' = [res EXCEPT ![Of(r)] = @ \ {thing}]

Accept(r, rec) ==
  /\ Is(r, "idle") /\ made < MaxRequests /\ made + sent < MaxWork
  /\ made' = made + 1
  /\ request' = [request EXCEPT ![r] = rec]

rowVars == <<onGithub, sent, mail, webhook, users, apps, link, why, row, pipelines>>
countVars == <<made, used, asked>>

-----------------------------------------------------------------------------
(* createProject.                                                          *)

(* A request generates a fresh project id; the client names the            *)
(* installation, or none.  Buildspec and account id come first and leave   *)
(* nothing behind when they fail.                                          *)
Create(r, p, i) ==
  /\ p \notin used
  /\ Accept(r, [pc |-> "repository", kind |-> "create", project |-> p, inst |-> i, todo |-> {}])
  /\ used' = used \cup {p}
  /\ UNCHANGED <<rowVars, res, asked, upset>>

Make(r, thing, next) ==
  /\ Is(r, thing) /\ request[r].kind = "create"
  /\ Add(r, thing) /\ Step(r, next)
  /\ UNCHANGED <<rowVars, countVars, upset>>

CreateRepository(r)   == Make(r, "repository", "logs")
CreateLogGroup(r)     == Make(r, "logs", "build")
CreateBuildProject(r) == Make(r, "build", "rule")
(* The rule alone, without a target. *)
PutRuleOnly(r)        == Make(r, "rule", "save")
PutRule(r)            == Make(r, "rule", IF LambdaArn THEN "target" ELSE "save")
PutTargets(r)         == Make(r, "target", "permission")
AddPermission(r)      == Make(r, "permission", "save")

(* PutTargets answers how many targets it has not put: nobody looks, and   *)
(* the creation goes on without its target.                                *)
TargetNotPut(r) ==
  /\ Is(r, "target") /\ request[r].kind = "create"
  /\ Step(r, "permission") /\ Upset(r, "target")
  /\ UNCHANGED <<rowVars, res, countVars>>

(* A call that fails has or has not created its resource.  It throws       *)
(* through CodeBuildService.createProject, so the record of what was       *)
(* created is still empty and the rollback does nothing.  The repository,  *)
(* the group, even a group without its retention, stay.                    *)
CreationFails(r) ==
  /\ request[r].kind = "create"
  /\ \E thing \in Resources \ {"permission"} :
       Is(r, thing) /\ (UNCHANGED res \/ Add(r, thing))
  /\ End(r) /\ Upset(r, "make")
  /\ UNCHANGED <<rowVars, countVars>>

(* A failing permission has the rule removed again before it throws.       *)
PermissionFails(r) ==
  /\ Is(r, "permission") /\ request[r].kind = "create"
  /\ UNCHANGED res \/ Add(r, "permission")
  /\ Step(r, "untarget") /\ Upset(r, "make")
  /\ UNCHANGED <<rowVars, countVars>>

(* What the foreign key to GithubApp accepts.                              *)
Referable == {None} \cup {i \in Installations : apps[i] # None}

(* The reference set to the project's own id. *)
InsertRowSwapped(r) ==
  /\ row' = row \cup {Of(r)}
  /\ link' = [link EXCEPT ![Of(r)] = Of(r)]

InsertRow(r) ==
  /\ row' = row \cup {Of(r)}
  /\ link' = [link EXCEPT ![Of(r)] = request[r].inst]

webhookVars == <<onGithub, sent, mail, webhook, users, apps, why>>

(* The row is inserted with everything recorded.                           *)
SaveProject(r) ==
  /\ Is(r, "save") /\ request[r].kind = "create" /\ request[r].inst \in Referable
  /\ InsertRow(r) /\ End(r)
  /\ UNCHANGED <<webhookVars, res, pipelines, countVars, upset>>

Rollback(r) == request' = [request EXCEPT ![r].kind = "rollback", ![r].pc = "untarget",
                                          ![r].todo = {"repository", "logs"}]

(* The installation has no row (any more): the insert is refused and       *)
(* everything recorded is rolled back.                                     *)
SaveRefused(r) ==
  /\ Is(r, "save") /\ request[r].kind = "create" /\ request[r].inst \notin Referable
  /\ Rollback(r)
  /\ UNCHANGED <<rowVars, res, countVars, upset>>

(* The database fails; the row may have been inserted all the same.        *)
SaveFails(r) ==
  /\ Is(r, "save") /\ request[r].kind = "create"
  /\ \/ UNCHANGED <<row, link>>
     \/ request[r].inst \in Referable /\ InsertRow(r)
  /\ Rollback(r) /\ Upset(r, "db")
  /\ UNCHANGED <<webhookVars, res, pipelines, countVars>>

-----------------------------------------------------------------------------
(* Removing the rule, the CodeBuild project, the repository, the group.    *)

(* A creation removes the rule when its permission fails, the others with  *)
(* the CodeBuild project.                                                  *)
Removing(r) == request[r].kind \in {"create", "rollback", "delete"}

RemoveTargets(r) ==
  /\ Is(r, "untarget") /\ Removing(r)
  /\ Drop(r, "target") /\ Step(r, "unpermit")
  /\ UNCHANGED <<rowVars, countVars, upset>>

RemovePermission(r) ==
  /\ Is(r, "unpermit") /\ Removing(r)
  /\ (IF LambdaArn THEN Drop(r, "permission") ELSE UNCHANGED res) /\ Step(r, "unrule")
  /\ UNCHANGED <<rowVars, countVars, upset>>

(* deleteCodeBuildEventRule goes on with the project; after                *)
(* deleteRuleByName the failure of the permission is thrown on.            *)
AfterRule(r) == IF request[r].kind = "create" THEN End(r) ELSE Step(r, "unbuild")

(* DeleteRule under the name the project's own cleanup uses. *)
DeleteRuleMisnamed(r) ==
  /\ Is(r, "unrule") /\ Removing(r)
  /\ AfterRule(r)
  /\ UNCHANGED <<rowVars, res, countVars, upset>>

(* The rule is found under the name it was created with. A rule that still *)
(* has a target is not deleted; the failure is logged.                     *)
DeleteRule(r) ==
  /\ Is(r, "unrule") /\ Removing(r)
  /\ IF "target" \in res[Of(r)] THEN UNCHANGED res ELSE Drop(r, "rule")
  /\ AfterRule(r)
  /\ UNCHANGED <<rowVars, countVars, upset>>

(* A rollback waits for its other two deletions.                           *)
AfterBuild(r) == IF request[r].kind = "rollback" /\ request[r].todo = {} THEN End(r)
                 ELSE Step(r, "drop")

DeleteBuildProject(r) ==
  /\ Is(r, "unbuild")
  /\ Drop(r, "build") /\ AfterBuild(r)
  /\ UNCHANGED <<rowVars, countVars, upset>>

(* The rollback deletes repository and group beside the project; a         *)
(* deletion after it, the repository first.  (Between the two it deletes   *)
(* otto-<NODE_ENV>-<projectId>, a rule nobody creates.)                    *)
MayDrop(r, thing) ==
  /\ thing \in request[r].todo
  /\ request[r].kind = "delete" => Is(r, "drop") /\ (thing = "logs" => request[r].todo = {"logs"})

Done(r, thing) ==
  LET todo == request[r].todo \ {thing}
      pc   == IF todo = {} /\ request[r].kind = "delete" THEN "pipelines" ELSE request[r].pc
  IN IF todo = {} /\ request[r].kind = "rollback" /\ Is(r, "drop") THEN End(r)
     ELSE request' = [request EXCEPT ![r].todo = todo, ![r].pc = pc]

DeleteRepository(r) ==
  /\ MayDrop(r, "repository")
  /\ Drop(r, "repository") /\ Done(r, "repository")
  /\ UNCHANGED <<rowVars, countVars, upset>>

DeleteLogGroup(r) ==
  /\ MayDrop(r, "logs")
  /\ Drop(r, "logs") /\ Done(r, "logs")
  /\ UNCHANGED <<rowVars, countVars, upset>>

(* Every failure here is caught, and the next deletion is tried.           *)
RemovalFails(r) ==
  /\ \/ Is(r, "untarget") /\ Step(r, "unpermit")
     \/ Is(r, "unpermit") /\ LambdaArn /\ Step(r, "unrule")
     \/ Is(r, "unrule") /\ AfterRule(r)
     \/ Is(r, "unbuild") /\ AfterBuild(r)
     \/ \E thing \in {"repository", "logs"} : MayDrop(r, thing) /\ Done(r, thing)
  /\ Upset(r, "undo")
  /\ UNCHANGED <<rowVars, res, countVars>>

-----------------------------------------------------------------------------
(* deleteProject.                                                          *)

Delete(r, p) ==
  /\ p \in row
  /\ Accept(r, [pc |-> "untarget", kind |-> "delete", project |-> p, inst |-> None,
                todo |-> {"repository", "logs"}])
  /\ asked' = asked \cup {p}
  /\ UNCHANGED <<rowVars, res, used, upset>>

(* The pipelines' rows go, and their deployments' with them.               *)
DeletePipelines(r) ==
  /\ Is(r, "pipelines")
  /\ pipelines' = pipelines \ {Of(r)}
  /\ Step(r, "row")
  /\ UNCHANGED <<webhookVars, link, row, res, countVars, upset>>

(* A pipeline created meanwhile keeps the row, after its resources went.   *)
DeleteRow(r) ==
  /\ Is(r, "row")
  /\ IF Of(r) \in pipelines THEN UNCHANGED <<row, link>>
     ELSE row' = row \ {Of(r)} /\ link' = [link EXCEPT ![Of(r)] = None]
  /\ End(r)
  /\ UNCHANGED <<webhookVars, pipelines, res, countVars, upset>>

RowsFail(r) ==
  /\ Is(r, "pipelines") \/ Is(r, "row")
  /\ End(r) /\ Upset(r, "db")
  /\ UNCHANGED <<rowVars, res, countVars>>

-----------------------------------------------------------------------------
(* updateProject, createPipeline.                                          *)

Update(r, p) ==
  /\ p \in row
  /\ Accept(r, [pc |-> "save", kind |-> "update", project |-> p, inst |-> link[p], todo |-> {}])
  /\ UNCHANGED <<rowVars, res, used, asked, upset>>

(* save() inserts a loaded entity whose row is gone: the project is back,  *)
(* without its resources.  If the row goes between the SELECT of save()    *)
(* and its UPDATE, nothing is written.                                     *)
SaveUpdate(r) ==
  /\ Is(r, "save") /\ request[r].kind = "update"
  /\ \/ Of(r) \notin row /\ request[r].inst \in Referable /\ InsertRow(r)
     \/ UNCHANGED <<row, link>>
  /\ End(r)
  /\ UNCHANGED <<webhookVars, pipelines, res, countVars, upset>>

CreatePipeline(p) ==
  /\ p \in row \ pipelines
  /\ pipelines' = pipelines \cup {p}
  /\ UNCHANGED <<webhookVars, link, row, res, request, countVars, upset>>

(* A restart: nothing remembers what the requests were doing, nor undoes   *)
(* it.                                                                     *)
Crash ==
  /\ \E r \in Requests : ~Is(r, "idle")
  /\ upset' = [p \in Projects |-> IF \E r \in Requests : Serves(r, p)
                                  THEN upset[p] \cup {"undo"} ELSE upset[p]]
  /\ request' = [r \in Requests |-> Idle]
  /\ UNCHANGED <<rowVars, res, countVars>>

-----------------------------------------------------------------------------
CreateStep(r) ==
  \/ CreateRepository(r) \/ CreateLogGroup(r) \/ CreateBuildProject(r)
  \/ PutRule(r) \/ PutTargets(r) \/ TargetNotPut(r) \/ AddPermission(r)
  \/ CreationFails(r) \/ PermissionFails(r)
  \/ SaveProject(r) \/ SaveRefused(r) \/ SaveFails(r)

RemoveStep(r) ==
  \/ RemoveTargets(r) \/ RemovePermission(r) \/ DeleteRule(r) \/ DeleteBuildProject(r)
  \/ DeleteRepository(r) \/ DeleteLogGroup(r) \/ RemovalFails(r)
  \/ DeletePipelines(r) \/ DeleteRow(r) \/ RowsFail(r)

ProjectsNext ==
  \/ \E r \in Requests, p \in Projects :
       Delete(r, p) \/ Update(r, p) \/ \E i \in Installations \cup {None} : Create(r, p, i)
  \/ \E r \in Requests : CreateStep(r) \/ RemoveStep(r) \/ SaveUpdate(r)
  \/ \E p \in Projects : CreatePipeline(p)
  \/ Crash

Next ==
  \/ InstallationsNext /\ UNCHANGED projectVars /\ made + sent' <= MaxWork
  \/ ProjectsNext

Spec == Init /\ [][Next]_vars

-----------------------------------------------------------------------------
TypeOK ==
  /\ InstallationsTypeOK
  /\ row \subseteq Projects
  /\ res \in [Projects -> SUBSET Resources]
  /\ pipelines \subseteq Projects
  /\ request \in [Requests -> RequestState]
  /\ made \in 0..MaxRequests
  /\ used \subseteq Projects
  /\ asked \subseteq Projects
  /\ upset \in [Projects -> SUBSET Upsets]

Quiet(p) == \A r \in Requests : ~Serves(r, p)

(* The target that PutTargets did not put, of a project it answered so for.*)
Lost(p) == IF "target" \in upset[p] THEN {"target"} ELSE {}

(* A project nobody asked to delete has every resource the code relies on, *)
(* whatever failed for other projects, whatever was rolled back; only an   *)
(* insert reported as failed that was not may break it, and an answer of   *)
(* PutTargets that nobody looked at leaves the target out, nothing else.   *)
LiveProjectsAreWhole ==
  \A p \in row \ asked : "db" \notin upset[p] => Wanted \ Lost(p) \subseteq res[p]

(* With no request for it under way, a project has its row and all its     *)
(* resources or no resources at all: creation, rollback and deletion leave *)
(* nothing half made, in any interleaving with each other, with webhooks   *)
(* and with database failures, unless an AWS call about it failed, looked  *)
(* at or not, or a crash interrupted it.                                   *)
NothingTorn ==
  \A p \in Projects :
    Quiet(p) /\ upset[p] \subseteq {"db"} => res[p] = {} \/ (p \in row /\ res[p] = Wanted)

(* "On failure everything created is rolled back": a creation that failed, *)
(* with every deletion succeeding, leaves nothing.                         *)
FailedCreationLeavesNothing ==
  \A p \in Projects \ row : Quiet(p) /\ upset[p] \subseteq {"make"} => res[p] = {}
=============================================================================
