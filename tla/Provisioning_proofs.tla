-------------------------- MODULE Provisioning_proofs --------------------------
(* Proofs about module Provisioning, for any number of projects, requests,      *)
(* users, installations and webhooks: a project with a row nobody asked to      *)
(* delete keeps its resources (LiveWhole), and a project that no failed call    *)
(* upset ends with all of its resources or with none (Torn).                    *)
(*                                                                              *)
(* The argument: a creation is alone with its project (Owned) and has made      *)
(* exactly the resources of the steps before its own (Stocked); rollbacks and   *)
(* deletions may still find at most Left.  Every step has one of six effects    *)
(* on its project (Effect), and each effect keeps the invariant IInv.           *)
(*                                                                              *)
(* The last part is about module Installations: the rows of installations       *)
(* agree with GitHub once their webhooks are handled (Agrees).  "deleted" is    *)
(* the last webhook of an installation (LastIsDeleted), so that a handler of it *)
(* which did not overtake another is alone with the row (Settled).              *)
EXTENDS Provisioning, TLAPS

(* The steps of a creation, in order, named for what each makes.                *)
Making == {"repository", "logs", "build", "rule", "target", "permission", "save"}

(* Where a request of each kind can be, and what it has left to drop.           *)
ShapeOf(q) ==
  /\ q.kind = "create" => q.pc \in Making \cup {"untarget", "unpermit", "unrule"} /\ q.todo = {}
  /\ q.kind = "create" /\ q.pc \in {"target", "permission"} => LambdaArn
  /\ q.kind = "update" => q.pc = "save" /\ q.todo = {}
  /\ q.kind = "rollback" => q.pc \in {"untarget", "unpermit", "unrule", "unbuild", "drop"}
  /\ q.kind = "rollback" /\ q.pc = "drop" => q.todo # {}
  /\ q.kind = "delete" =>
       \/ q.pc \in {"untarget", "unpermit", "unrule", "unbuild"} /\ q.todo = {"repository", "logs"}
       \/ q.pc = "drop" /\ q.todo \in {{"repository", "logs"}, {"logs"}}
       \/ q.pc \in {"pipelines", "row"} /\ q.todo = {}

(* Every request under way has the shape of its kind.                           *)
Shape == \A r \in Requests : request[r].pc # "idle" => ShapeOf(request[r])

(* A project is created once, and nothing else is asked of it meanwhile.        *)
Owned ==
  /\ row \subseteq used /\ asked \subseteq used
  /\ \A r \in Requests : request[r].pc # "idle" => Of(r) \in used
  /\ \A r, s \in Requests : request[r].pc # "idle" /\ request[r].kind = "create"
                            /\ request[s].pc # "idle" /\ Of(r) = Of(s) => r = s
  /\ \A r \in Requests : request[r].pc # "idle" /\ request[r].kind = "create" =>
       Of(r) \notin row \cup asked

(* What the other kinds of request imply for their project.                     *)
Known ==
  \A r \in Requests : request[r].pc # "idle" =>
    /\ request[r].kind = "delete" => Of(r) \in asked
    /\ request[r].kind = "update" => Of(r) \in row \cup asked
    /\ request[r].kind = "rollback" => Of(r) \notin row \cup asked \/ "db" \in upset[Of(r)]

(* What a creation has made when it is about to make the next thing.            *)
Stock(pc) ==
  CASE pc = "repository" -> {}
    [] pc = "logs"       -> {"repository"}
    [] pc = "build"      -> {"repository", "logs"}
    [] pc = "rule"       -> {"repository", "logs", "build"}
    [] pc = "target"     -> {"repository", "logs", "build", "rule"}
    [] pc = "permission" -> {"repository", "logs", "build", "rule", "target"}
    [] OTHER             -> Wanted

(* A creation has made exactly its stock, but for a target it lost, and nothing *)
(* else has upset its project, or a step of it failed; a project nobody created *)
(* has nothing.                                                                 *)
Stocked ==
  /\ \A p \in Projects \ used : res[p] = {} /\ upset[p] = {}
  /\ \A r \in Requests : request[r].pc # "idle" /\ request[r].kind = "create" =>
       IF request[r].pc \in Making
       THEN /\ res[Of(r)] = Stock(request[r].pc) \ Lost(Of(r))
            /\ upset[Of(r)] \subseteq {"target"}
            /\ upset[Of(r)] # {} => request[r].pc \in {"permission", "save"}
       ELSE "make" \in upset[Of(r)]

(* What a rollback or a deletion whose calls all succeed may still find.        *)
Left(q) ==
  ( CASE q.pc = "untarget" -> Wanted
      [] q.pc = "unpermit" -> Wanted \ {"target"}
      [] q.pc = "unrule"   -> Wanted \ {"target", "permission"}
      [] q.pc = "unbuild"  -> {"repository", "logs", "build"}
      [] q.pc = "drop"     -> {"repository", "logs"}
      [] OTHER             -> {} )
  \ ({"repository", "logs"} \ q.todo)

(* Request r removes the resources of project p, or creates it.                 *)
Removes(r, p) == Serves(r, p) /\ request[r].kind \in {"rollback", "delete"}
Creates(r, p) == Serves(r, p) /\ request[r].kind = "create"

(* What a project may have while a request serves it, and when none does.       *)
WholeOrGone(p) ==
  /\ res[p] \subseteq Wanted
  /\ \A r \in Requests : Removes(r, p) => res[p] \subseteq Left(request[r])
  /\ (\A r \in Requests : ~Removes(r, p) /\ ~Creates(r, p)) => res[p] = {} \/ (p \in row /\ res[p] = Wanted)

(* A project that nothing upset (a failing row apart) is whole or gone.         *)
Sound == \A p \in Projects : upset[p] \subseteq {"db"} => WholeOrGone(p)

(* Requests past Accept. *)
Serving ==
  [pc : {"find", "repository", "logs", "build", "rule", "target", "permission", "save",
         "untarget", "unpermit", "unrule", "unbuild", "drop", "pipelines", "row"},
   kind : Kinds, project : Projects, inst : Installations \cup {None},
   todo : SUBSET {"repository", "logs"}]

(* The other requests stay where they are.                                      *)
Others(r) == \A s \in Requests \ {r} : request'[s] = request[s]

(* Only one request moves, within the shape of its kind, and only its project changes. *)
Only(r) ==
  /\ request[r].pc # "idle" /\ Of(r) \in Projects
  /\ Others(r)
  /\ request'[r].pc # "idle" => request'[r].project = Of(r) /\ ShapeOf(request'[r])
  /\ \A p \in Projects \ {Of(r)} :
       res'[p] = res[p] /\ upset'[p] = upset[p] /\ (p \in row' <=> p \in row)
  /\ row' \subseteq Projects /\ used' = used /\ asked' = asked

(* A creation makes the next thing of its stock, or loses its target.           *)
Makes(r) ==
  /\ request[r].kind = "create" /\ request[r].pc \in Making
  /\ request'[r].pc \in Making /\ request'[r].kind = "create"
  /\ \/ res'[Of(r)] = res[Of(r)] \cup {request[r].pc} /\ upset' = upset
     \/ /\ request[r].pc = "target" /\ request'[r].pc = "permission"
        /\ res' = res /\ upset'[Of(r)] = upset[Of(r)] \cup {"target"}
  /\ Stock(request[r].pc) \cup {request[r].pc} = Stock(request'[r].pc)
  /\ request'[r].pc \in {"logs", "build", "rule", "target", "permission", "save"}
  /\ request[r].pc \in {"permission", "save"} => request'[r].pc = "save"
  /\ row' = row

(* The steps of deleteEventRule: of a rollback, a deletion or a failed creation. *)
Undoing == {"untarget", "unpermit", "unrule"}

(* A creation fails, or takes back what putTargets and addPermission left.      *)
GivesUp(r) ==
  /\ request[r].kind = "create" /\ row' = row
  /\ request'[r].pc # "idle" => request'[r].kind = "create" /\ request'[r].pc \in Undoing
  /\ upset[Of(r)] \subseteq upset'[Of(r)]
  /\ request[r].pc \in Undoing \/ "make" \in upset'[Of(r)]

(* A creation inserts its row.                                                  *)
Saves(r) ==
  /\ request[r].kind = "create" /\ request[r].pc = "save" /\ request'[r].pc = "idle"
  /\ Of(r) \in row' /\ res' = res /\ upset' = upset

(* A creation whose row is refused turns into its rollback.                     *)
RollsBack(r) ==
  /\ request[r].kind = "create" /\ request[r].pc = "save"
  /\ request'[r].pc = "untarget" /\ request'[r].kind = "rollback"
  /\ request'[r].todo = {"repository", "logs"}
  /\ res' = res /\ upset[Of(r)] \subseteq upset'[Of(r)] /\ upset'[Of(r)] \subseteq upset[Of(r)] \cup {"db"}
  /\ row' = row \/ "db" \in upset'[Of(r)]

(* A rollback or a deletion removes, stays within what it may still find, and   *)
(* ends only when there is nothing left to find.                                *)
Takes(r) ==
  /\ request[r].kind \in {"rollback", "delete"}
  /\ request'[r].pc # "idle" => request'[r].kind = request[r].kind
  /\ res'[Of(r)] \subseteq res[Of(r)] /\ upset[Of(r)] \subseteq upset'[Of(r)]
  /\ row' \subseteq row /\ (row' = row \/ request[r].kind = "delete")
  /\ upset'[Of(r)] \subseteq {"db"} /\ res[Of(r)] \subseteq Left(request[r]) =>
       res'[Of(r)] \subseteq (IF request'[r].pc = "idle" THEN {} ELSE Left(request'[r]))

(* An update writes a row back.                                                 *)
Updates(r) ==
  /\ request[r].kind = "update" /\ request'[r].pc = "idle"
  /\ res' = res /\ upset' = upset /\ row \subseteq row'

(* Every step of a request past its first has one of six effects on its project. *)
Effect(r) ==
  Only(r) /\ (Makes(r) \/ GivesUp(r) \/ Saves(r) \/ RollsBack(r) \/ Takes(r) \/ Updates(r))
--------------------------------------------------------------------------------
(* A request under way serves a project.                                        *)
LEMMA Active ==
  ASSUME TypeOK, NEW r \in Requests, request[r].pc # "idle"
  PROVE  request[r] \in Serving /\ Of(r) \in Projects
BY DEF TypeOK, RequestState, Serving, Idle, Of

(* A request that goes on to another step.                                      *)
LEMMA Stepped ==
  ASSUME TypeOK, NEW r \in Requests, request[r].pc # "idle", NEW pc \in
           {"repository", "logs", "build", "rule", "target", "permission", "save",
            "untarget", "unpermit", "unrule", "unbuild", "drop", "pipelines", "row"},
         Step(r, pc)
  PROVE  /\ request' \in [Requests -> RequestState] /\ Others(r)
         /\ request'[r] = [request[r] EXCEPT !.pc = pc]
<1>1. [request[r] EXCEPT !.pc = pc] \in RequestState
  BY Active DEF RequestState, Serving
<1>. QED BY <1>1 DEF Step, TypeOK, Others

(* A request that ends.                                                         *)
LEMMA EndsIdle ==
  ASSUME TypeOK, NEW r \in Requests, End(r)
  PROVE  /\ request' \in [Requests -> RequestState] /\ Others(r)
         /\ request'[r] = Idle /\ request'[r].pc = "idle"
BY DEF End, TypeOK, Others, RequestState, Idle

(* A request that turns into a rollback.                                        *)
LEMMA RolledBack ==
  ASSUME TypeOK, NEW r \in Requests, request[r].pc # "idle", Rollback(r)
  PROVE  /\ request' \in [Requests -> RequestState] /\ Others(r)
         /\ request'[r] = [request[r] EXCEPT !.kind = "rollback", !.pc = "untarget",
                                             !.todo = {"repository", "logs"}]
<1>1. [request[r] EXCEPT !.kind = "rollback", !.pc = "untarget",
                         !.todo = {"repository", "logs"}] \in RequestState
  BY Active DEF RequestState, Serving, Kinds
<1>. QED BY <1>1 DEF Rollback, TypeOK, Others

(* A request that is accepted.                                                  *)
LEMMA Accepted ==
  ASSUME TypeOK, NEW r \in Requests, NEW rec \in Serving, Accept(r, rec)
  PROVE  /\ request' \in [Requests -> RequestState] /\ Others(r) /\ request'[r] = rec
         /\ made' \in 0..MaxRequests
<1>1. rec \in RequestState
  BY DEF RequestState, Serving
<1>. QED BY <1>1, ProvisioningAssumption DEF Accept, TypeOK, Others

(* A resource made or removed.                                                  *)
LEMMA Stored ==
  ASSUME TypeOK, NEW r \in Requests, Of(r) \in Projects, NEW thing \in Resources
  PROVE  /\ Add(r, thing) => /\ res' \in [Projects -> SUBSET Resources]
                             /\ res'[Of(r)] = res[Of(r)] \cup {thing}
                             /\ \A p \in Projects \ {Of(r)} : res'[p] = res[p]
         /\ Drop(r, thing) => /\ res' \in [Projects -> SUBSET Resources]
                              /\ res'[Of(r)] = res[Of(r)] \ {thing}
                              /\ \A p \in Projects \ {Of(r)} : res'[p] = res[p]
BY DEF TypeOK, Add, Drop

(* A project upset for one more reason.                                         *)
LEMMA Upsetting ==
  ASSUME TypeOK, NEW r \in Requests, Of(r) \in Projects, NEW what \in Upsets, Upset(r, what)
  PROVE  /\ upset' \in [Projects -> SUBSET Upsets]
         /\ upset'[Of(r)] = upset[Of(r)] \cup {what}
         /\ \A p \in Projects \ {Of(r)} : upset'[p] = upset[p]
BY DEF TypeOK, Upset

(* How a rollback or a deletion goes on when it is done with a repository or a  *)
(* log group: the last of a rollback,                                           *)
RollbackEnds(r, thing) ==
  /\ request'[r] = Idle /\ request[r].kind = "rollback"
  /\ request[r].pc = "drop" /\ request[r].todo = {thing}

(* one of two of a rollback, or of an EventBridge rule taken back,              *)
RollbackGoesOn(r, thing) ==
  /\ request'[r] = [request[r] EXCEPT !.todo = @ \ {thing}]
  /\ request[r].kind = "rollback"
  /\ request[r].pc = "drop" => request[r].todo \ {thing} # {}

(* the first of a deletion,                                                     *)
DeletionGoesOn(r, thing) ==
  /\ request'[r] = [request[r] EXCEPT !.todo = @ \ {thing}]
  /\ request[r].kind = "delete" /\ request[r].pc = "drop"
  /\ thing = "repository" /\ request[r].todo = {"repository", "logs"}

(* and the second.                                                              *)
DeletionIsThrough(r, thing) ==
  /\ request'[r] = [request[r] EXCEPT !.todo = {}, !.pc = "pipelines"]
  /\ request[r].kind = "delete" /\ request[r].pc = "drop"
  /\ thing = "logs" /\ request[r].todo = {"logs"}

(* These are the four ways.                                                     *)
LEMMA Dropped ==
  ASSUME TypeOK, Shape, NEW r \in Requests, NEW thing \in {"repository", "logs"},
         MayDrop(r, thing), Done(r, thing)
  PROVE  /\ request[r].pc # "idle" /\ request[r].kind \in {"rollback", "delete"}
         /\ request' \in [Requests -> RequestState] /\ Others(r)
         /\ \/ RollbackEnds(r, thing) \/ RollbackGoesOn(r, thing)
            \/ DeletionGoesOn(r, thing) \/ DeletionIsThrough(r, thing)
<1>1. thing \in request[r].todo
  BY DEF MayDrop
<1>2. request[r].pc # "idle"
  BY <1>1 DEF TypeOK, RequestState, Idle
<1>3. request[r] \in Serving /\ ShapeOf(request[r])
  BY <1>2, Active DEF Shape
<1>4. request[r].kind \in {"rollback", "delete"}
  BY <1>1, <1>3 DEF ShapeOf, Serving, Kinds
<1>5. /\ [request[r] EXCEPT !.todo = @ \ {thing}] \in RequestState
      /\ [request[r] EXCEPT !.todo = {}, !.pc = "pipelines"] \in RequestState
      /\ Idle \in RequestState
  BY <1>3 DEF Serving, RequestState
<1>6. CASE request[r].kind = "rollback"
  <2>1. CASE request[r].todo \ {thing} = {} /\ request[r].pc = "drop"
    BY <1>1, <1>2, <1>5, <1>6, <2>1 DEF Done, Is, End, Others, TypeOK, RollbackEnds
  <2>2. CASE ~(request[r].todo \ {thing} = {} /\ request[r].pc = "drop")
    <3>1. request' = [request EXCEPT ![r].todo = request[r].todo \ {thing}, ![r].pc = request[r].pc]
      BY <1>6, <2>2 DEF Done, Is
    <3>2. request'[r] = [request[r] EXCEPT !.todo = @ \ {thing}]
      BY <1>3, <3>1 DEF TypeOK, Serving
    <3>. QED BY <1>2, <1>4, <1>5, <1>6, <2>2, <3>1, <3>2 DEF Others, TypeOK, RollbackGoesOn
  <2>. QED BY <2>1, <2>2
<1>7. CASE request[r].kind = "delete"
  <2>1. /\ request[r].pc = "drop"
        /\ thing = "logs" => request[r].todo = {"logs"}
        /\ request[r].todo \in {{"repository", "logs"}, {"logs"}}
    BY <1>2, <1>3, <1>7 DEF MayDrop, Is, ShapeOf
  <2>2. CASE thing = "logs"
    <3>1. request[r].todo \ {thing} = {}
      BY <2>1, <2>2
    <3>2. request' = [request EXCEPT ![r].todo = {}, ![r].pc = "pipelines"]
      BY <1>7, <3>1 DEF Done, Is
    <3>3. request'[r] = [request[r] EXCEPT !.todo = {}, !.pc = "pipelines"]
      BY <1>3, <3>2 DEF TypeOK, Serving
    <3>4. request' \in [Requests -> RequestState] /\ Others(r)
      BY <1>5, <3>2, <3>3 DEF Others, TypeOK
    <3>. QED BY <1>2, <1>7, <2>1, <2>2, <3>3, <3>4 DEF DeletionIsThrough
  <2>3. CASE thing = "repository"
    <3>1. request[r].todo = {"repository", "logs"}
      BY <1>1, <2>1, <2>3
    <3>2. request' = [request EXCEPT ![r].todo = request[r].todo \ {thing}, ![r].pc = request[r].pc]
      BY <1>7, <2>3, <3>1 DEF Done, Is
    <3>3. request'[r] = [request[r] EXCEPT !.todo = @ \ {thing}]
      BY <1>3, <3>2 DEF TypeOK, Serving
    <3>4. request' \in [Requests -> RequestState] /\ Others(r)
      BY <1>5, <3>2, <3>3 DEF Others, TypeOK
    <3>. QED BY <1>2, <1>7, <2>1, <2>3, <3>1, <3>3, <3>4 DEF DeletionGoesOn
  <2>. QED BY <2>2, <2>3
<1>. QED BY <1>4, <1>6, <1>7

(* TypeOK of a step, from the types of what steps of projects change.           *)
LEMMA Assembled ==
  ASSUME TypeOK, UNCHANGED webhookVars, UNCHANGED countVars,
         link' \in [Projects -> Installations \cup {None}],
         row' \subseteq Projects, pipelines' \subseteq Projects,
         request' \in [Requests -> RequestState],
         res' \in [Projects -> SUBSET Resources], upset' \in [Projects -> SUBSET Upsets]
  PROVE  TypeOK'
BY DEF TypeOK, InstallationsTypeOK, webhookVars, countVars

(* The same for a step that leaves the rows alone.                              *)
LEMMA AssembledRows ==
  ASSUME TypeOK, UNCHANGED rowVars, UNCHANGED countVars,
         request' \in [Requests -> RequestState],
         res' \in [Projects -> SUBSET Resources], upset' \in [Projects -> SUBSET Upsets]
  PROVE  TypeOK' /\ row' = row /\ used' = used /\ asked' = asked
BY DEF TypeOK, InstallationsTypeOK, rowVars, countVars

(* Each step of a creation has one of the effects: making a resource,           *)
LEMMA MakeEffect ==
  ASSUME TypeOK, Shape, NEW r \in Requests, NEW thing \in Resources, NEW next \in Making,
         Make(r, thing, next), Stock(thing) \cup {thing} = Stock(next),
         next # "repository", thing = "permission" => next = "save",
         next \in {"target", "permission"} => LambdaArn
  PROVE  TypeOK' /\ Effect(r)
<1>1. /\ request[r].pc = thing /\ request[r].kind = "create" /\ request[r].pc # "idle"
      /\ thing \in Making
  BY DEF Make, Is, Resources, Rule, Making
<1>2. request[r] \in Serving /\ Of(r) \in Projects /\ ShapeOf(request[r])
  BY <1>1, Active DEF Shape
<1>3. /\ request' \in [Requests -> RequestState] /\ Others(r)
      /\ request'[r] = [request[r] EXCEPT !.pc = next]
  BY <1>1, Stepped DEF Make, Making
<1>4. /\ res' \in [Projects -> SUBSET Resources]
      /\ res'[Of(r)] = res[Of(r)] \cup {thing}
      /\ \A p \in Projects \ {Of(r)} : res'[p] = res[p]
  BY <1>2, Stored DEF Make
<1>5. TypeOK' /\ row' = row /\ used' = used /\ asked' = asked /\ upset' = upset
  BY <1>3, <1>4, AssembledRows DEF Make, TypeOK
<1>6. /\ request'[r].pc = next /\ request'[r].kind = "create" /\ request'[r].todo = {}
      /\ request'[r].project = Of(r)
  BY <1>1, <1>2, <1>3 DEF Serving, ShapeOf, Of
<1>7. ShapeOf(request'[r])
  BY <1>6 DEF ShapeOf
<1>8. Only(r)
  BY <1>1, <1>2, <1>3, <1>4, <1>5, <1>6, <1>7 DEF Only, TypeOK
<1>9. Makes(r)
  BY <1>1, <1>4, <1>5, <1>6 DEF Makes, Making, Resources, Rule
<1>. QED BY <1>5, <1>8, <1>9 DEF Effect

(* losing the target,                                                           *)
LEMMA TargetLost ==
  ASSUME TypeOK, Shape, NEW r \in Requests, TargetNotPut(r)
  PROVE  TypeOK' /\ Effect(r)
<1>1. request[r].pc = "target" /\ request[r].kind = "create" /\ request[r].pc # "idle"
  BY DEF TargetNotPut, Is
<1>2. request[r] \in Serving /\ Of(r) \in Projects /\ ShapeOf(request[r])
  BY <1>1, Active DEF Shape
<1>3. /\ request' \in [Requests -> RequestState] /\ Others(r)
      /\ request'[r] = [request[r] EXCEPT !.pc = "permission"]
  BY <1>1, Stepped DEF TargetNotPut
<1>4. /\ upset' \in [Projects -> SUBSET Upsets]
      /\ upset'[Of(r)] = upset[Of(r)] \cup {"target"}
      /\ \A p \in Projects \ {Of(r)} : upset'[p] = upset[p]
  BY <1>2, Upsetting DEF TargetNotPut, Upsets
<1>5. TypeOK' /\ row' = row /\ used' = used /\ asked' = asked /\ res' = res
  BY <1>3, <1>4, AssembledRows DEF TargetNotPut, TypeOK
<1>6. /\ request'[r].pc = "permission" /\ request'[r].kind = "create" /\ request'[r].todo = {}
      /\ request'[r].project = Of(r)
  BY <1>1, <1>2, <1>3 DEF Serving, ShapeOf, Of
<1>7. ShapeOf(request'[r])
  BY <1>1, <1>2, <1>6 DEF ShapeOf, Making
<1>8. Only(r)
  BY <1>1, <1>2, <1>3, <1>4, <1>5, <1>6, <1>7 DEF Only, TypeOK
<1>9. Makes(r)
  BY <1>1, <1>4, <1>5, <1>6 DEF Makes, Making, Stock
<1>. QED BY <1>5, <1>8, <1>9 DEF Effect

(* failing to,                                                                  *)
LEMMA CreationGivesUp ==
  ASSUME TypeOK, Shape, NEW r \in Requests, CreationFails(r)
  PROVE  TypeOK' /\ Effect(r)
<1>1. PICK thing \in Resources \ {"permission"} : Is(r, thing) /\ (UNCHANGED res \/ Add(r, thing))
  BY DEF CreationFails
<1>2. request[r].kind = "create" /\ request[r].pc # "idle"
  BY <1>1 DEF CreationFails, Is, Resources, Rule
<1>3. Of(r) \in Projects
  BY <1>2, Active
<1>4. /\ request' \in [Requests -> RequestState] /\ Others(r)
      /\ request'[r].pc = "idle"
  BY EndsIdle DEF CreationFails
<1>5. /\ res' \in [Projects -> SUBSET Resources]
      /\ \A p \in Projects \ {Of(r)} : res'[p] = res[p]
  BY <1>1, <1>3, Stored DEF TypeOK
<1>6. /\ upset' \in [Projects -> SUBSET Upsets] /\ upset'[Of(r)] = upset[Of(r)] \cup {"make"}
      /\ \A p \in Projects \ {Of(r)} : upset'[p] = upset[p]
  BY <1>3, Upsetting DEF CreationFails, Upsets
<1>7. TypeOK' /\ row' = row /\ used' = used /\ asked' = asked
  BY <1>4, <1>5, <1>6, AssembledRows DEF CreationFails
<1>8. Only(r)
  BY <1>2, <1>3, <1>4, <1>5, <1>6, <1>7 DEF Only, TypeOK
<1>9. GivesUp(r)
  BY <1>2, <1>4, <1>6, <1>7 DEF GivesUp
<1>. QED BY <1>7, <1>8, <1>9 DEF Effect

(* failing at addPermission, which takes back the target and the rule,          *)
LEMMA PermissionGivesUp ==
  ASSUME TypeOK, Shape, NEW r \in Requests, PermissionFails(r)
  PROVE  TypeOK' /\ Effect(r)
<1>2. request[r].kind = "create" /\ request[r].pc # "idle"
  BY DEF PermissionFails, Is
<1>3. request[r] \in Serving /\ Of(r) \in Projects /\ ShapeOf(request[r])
  BY <1>2, Active DEF Shape
<1>4. /\ request' \in [Requests -> RequestState] /\ Others(r)
      /\ request'[r] = [request[r] EXCEPT !.pc = "untarget"]
  BY <1>2, Stepped DEF PermissionFails
<1>5. /\ res' \in [Projects -> SUBSET Resources]
      /\ \A p \in Projects \ {Of(r)} : res'[p] = res[p]
  BY <1>3, Stored DEF PermissionFails, TypeOK, Resources, Rule
<1>6. /\ upset' \in [Projects -> SUBSET Upsets] /\ upset'[Of(r)] = upset[Of(r)] \cup {"make"}
      /\ \A p \in Projects \ {Of(r)} : upset'[p] = upset[p]
  BY <1>3, Upsetting DEF PermissionFails, Upsets
<1>7. TypeOK' /\ row' = row /\ used' = used /\ asked' = asked
  BY <1>4, <1>5, <1>6, AssembledRows DEF PermissionFails
<1>8. /\ request'[r].pc = "untarget" /\ request'[r].kind = "create" /\ request'[r].todo = {}
      /\ request'[r].project = Of(r)
  BY <1>2, <1>3, <1>4 DEF Serving, ShapeOf, Of
<1>9. ShapeOf(request'[r])
  BY <1>8 DEF ShapeOf
<1>10. Only(r)
  BY <1>2, <1>3, <1>4, <1>5, <1>6, <1>7, <1>8, <1>9 DEF Only, TypeOK
<1>11. GivesUp(r)
  BY <1>2, <1>8, <1>6, <1>7 DEF GivesUp, Undoing
<1>. QED BY <1>7, <1>10, <1>11 DEF Effect

(* (what inserting a row changes)                                               *)
LEMMA Inserted ==
  ASSUME TypeOK, NEW r \in Requests, Of(r) \in Projects, request[r].inst \in Referable, InsertRow(r)
  PROVE  /\ row' = row \cup {Of(r)} /\ row' \subseteq Projects
         /\ link' \in [Projects -> Installations \cup {None}]
BY DEF TypeOK, InstallationsTypeOK, InsertRow, Referable

(* inserting the row,                                                           *)
LEMMA SaveEffect ==
  ASSUME TypeOK, Shape, NEW r \in Requests, SaveProject(r)
  PROVE  TypeOK' /\ Effect(r)
<1>1. request[r].kind = "create" /\ request[r].pc = "save" /\ request[r].pc # "idle"
  BY DEF SaveProject, Is
<1>2. Of(r) \in Projects
  BY <1>1, Active
<1>3. /\ request' \in [Requests -> RequestState] /\ Others(r) /\ request'[r].pc = "idle"
  BY EndsIdle DEF SaveProject
<1>4. /\ row' = row \cup {Of(r)} /\ row' \subseteq Projects
      /\ link' \in [Projects -> Installations \cup {None}]
  BY <1>2, Inserted DEF SaveProject
<1>5. UNCHANGED <<res, pipelines, used, asked, upset>>
  BY DEF SaveProject, countVars
<1>6. TypeOK'
  BY <1>3, <1>4, <1>5, Assembled DEF SaveProject, TypeOK
<1>7. Only(r)
  BY <1>1, <1>2, <1>3, <1>4, <1>5 DEF Only
<1>8. Saves(r)
  BY <1>1, <1>3, <1>4, <1>5 DEF Saves
<1>. QED BY <1>6, <1>7, <1>8 DEF Effect

(* and being refused, which rolls back.                                         *)
LEMMA RefusedEffect ==
  ASSUME TypeOK, Shape, NEW r \in Requests, SaveRefused(r) \/ SaveFails(r)
  PROVE  TypeOK' /\ Effect(r)
<1>1. request[r].kind = "create" /\ request[r].pc = "save" /\ request[r].pc # "idle"
  BY DEF SaveRefused, SaveFails, Is
<1>2. request[r] \in Serving /\ Of(r) \in Projects
  BY <1>1, Active
<1>3. /\ request' \in [Requests -> RequestState] /\ Others(r)
      /\ request'[r] = [request[r] EXCEPT !.kind = "rollback", !.pc = "untarget",
                                          !.todo = {"repository", "logs"}]
  BY <1>1, RolledBack DEF SaveRefused, SaveFails
<1>4. /\ request'[r].pc = "untarget" /\ request'[r].kind = "rollback"
      /\ request'[r].todo = {"repository", "logs"} /\ request'[r].project = Of(r)
      /\ ShapeOf(request'[r])
  BY <1>2, <1>3 DEF Serving, Of, ShapeOf
<1>5. UNCHANGED <<res, pipelines, used, asked>>
  BY DEF SaveRefused, SaveFails, countVars, rowVars
<1>6. /\ row' = row \/ row' = row \cup {Of(r)}
      /\ row' = row \/ SaveFails(r)
      /\ row' \subseteq Projects /\ link' \in [Projects -> Installations \cup {None}]
  <2>1. CASE SaveRefused(r)
    BY <2>1 DEF SaveRefused, rowVars, TypeOK, InstallationsTypeOK
  <2>2. CASE SaveFails(r)
    BY <1>2, <2>2, Inserted DEF SaveFails, TypeOK, InstallationsTypeOK
  <2>. QED BY <2>1, <2>2
<1>7. /\ upset' \in [Projects -> SUBSET Upsets]
      /\ \A p \in Projects \ {Of(r)} : upset'[p] = upset[p]
      /\ upset'[Of(r)] = upset[Of(r)] \/ upset'[Of(r)] = upset[Of(r)] \cup {"db"}
      /\ SaveFails(r) => "db" \in upset'[Of(r)]
  <2>1. CASE SaveFails(r)
    BY <1>2, <2>1, Upsetting DEF SaveFails, Upsets
  <2>2. CASE SaveRefused(r) /\ ~SaveFails(r)
    BY <2>2 DEF SaveRefused, TypeOK
  <2>. QED BY <2>1, <2>2
<1>8. UNCHANGED webhookVars /\ UNCHANGED countVars
  BY DEF SaveRefused, SaveFails, rowVars, webhookVars
<1>9. TypeOK'
  BY <1>3, <1>5, <1>6, <1>7, <1>8, Assembled DEF TypeOK
<1>10. Only(r)
  BY <1>1, <1>2, <1>3, <1>4, <1>5, <1>6, <1>7 DEF Only
<1>11. RollsBack(r)
  BY <1>1, <1>4, <1>5, <1>6, <1>7 DEF RollsBack
<1>. QED BY <1>9, <1>10, <1>11 DEF Effect

(* So every step of a creation has.                                             *)
LEMMA CreateEffect ==
  ASSUME TypeOK, Shape, NEW r \in Requests, CreateStep(r)
  PROVE  TypeOK' /\ Effect(r)
<1>. USE ProvisioningAssumption DEF Stock, Making, Resources, Rule, Wanted
<1>1. CASE CreateRepository(r)
  BY <1>1, MakeEffect DEF CreateRepository
<1>2. CASE CreateLogGroup(r)
  <2>1. Stock("logs") \cup {"logs"} = Stock("build")
    OBVIOUS
  <2>. QED BY <1>2, <2>1, MakeEffect DEF CreateLogGroup
<1>3. CASE CreateBuildProject(r)
  <2>1. Stock("build") \cup {"build"} = Stock("rule")
    OBVIOUS
  <2>. QED BY <1>3, <2>1, MakeEffect DEF CreateBuildProject
<1>4. CASE PutRule(r)
  <2>1. Stock("rule") \cup {"rule"} = Stock(IF LambdaArn THEN "target" ELSE "save")
    OBVIOUS
  <2>. QED BY <1>4, <2>1, MakeEffect DEF PutRule
<1>5. CASE PutTargets(r)
  <2>1. request[r].pc = "target" /\ request[r].kind = "create"
    BY <1>5 DEF PutTargets, Make, Is
  <2>2. LambdaArn
    BY <2>1 DEF Shape, ShapeOf
  <2>3. Stock("target") \cup {"target"} = Stock("permission")
    OBVIOUS
  <2>. QED BY <1>5, <2>2, <2>3, MakeEffect DEF PutTargets
<1>11. CASE TargetNotPut(r)
  BY <1>11, TargetLost
<1>6. CASE AddPermission(r)
  <2>1. request[r].pc = "permission" /\ request[r].kind = "create"
    BY <1>6 DEF AddPermission, Make, Is
  <2>2. LambdaArn
    BY <2>1 DEF Shape, ShapeOf
  <2>3. Stock("permission") \cup {"permission"} = Stock("save")
    BY <2>2
  <2>. QED BY <1>6, <2>3, MakeEffect DEF AddPermission
<1>7. CASE CreationFails(r)
  BY <1>7, CreationGivesUp
<1>8. CASE PermissionFails(r)
  BY <1>8, PermissionGivesUp
<1>9. CASE SaveProject(r)
  BY <1>9, SaveEffect
<1>10. CASE SaveRefused(r) \/ SaveFails(r)
  BY <1>10, RefusedEffect
<1>. QED
  BY <1>1, <1>2, <1>3, <1>4, <1>5, <1>6, <1>7, <1>8, <1>9, <1>10, <1>11 DEF CreateStep

(* A step that takes from a project has one of the effects: what a failed       *)
(* creation takes back is given up.                                             *)
LEMMA UndoEffect ==
  ASSUME TypeOK, NEW r \in Requests, request[r].pc # "idle",
         request[r].kind \in {"create", "rollback", "delete"},
         request' \in [Requests -> RequestState], Others(r),
         request'[r].pc # "idle" => /\ request'[r].kind = request[r].kind
                                     /\ request'[r].project = Of(r) /\ ShapeOf(request'[r]),
         request[r].kind = "create" =>
           request[r].pc \in Undoing /\ (request'[r].pc # "idle" => request'[r].pc \in Undoing),
         res' \in [Projects -> SUBSET Resources],
         \A p \in Projects \ {Of(r)} : res'[p] = res[p] /\ upset'[p] = upset[p],
         upset' \in [Projects -> SUBSET Upsets],
         UNCHANGED rowVars, UNCHANGED countVars,
         res'[Of(r)] \subseteq res[Of(r)], upset[Of(r)] \subseteq upset'[Of(r)],
         request[r].kind # "create" /\ upset'[Of(r)] \subseteq {"db"}
             /\ res[Of(r)] \subseteq Left(request[r])
           => res'[Of(r)] \subseteq (IF request'[r].pc = "idle" THEN {} ELSE Left(request'[r]))
  PROVE  TypeOK' /\ Effect(r)
<1>1. TypeOK' /\ row' = row /\ used' = used /\ asked' = asked
  BY AssembledRows
<1>2. Only(r)
  BY <1>1, Active DEF Only, TypeOK
<1>3. CASE request[r].kind = "create"
  BY <1>1, <1>2, <1>3 DEF GivesUp, Effect
<1>4. CASE request[r].kind # "create"
  <2>1. Takes(r)
    BY <1>1, <1>4 DEF Takes
  <2>. QED BY <1>1, <1>2, <2>1 DEF Effect
<1>. QED BY <1>3, <1>4

(* Where a request goes from removing targets or the permission,                *)
LEMMA UndoStepped ==
  ASSUME TypeOK, Shape, NEW r \in Requests, NEW next \in {"unpermit", "unrule"},
         (Is(r, "untarget") /\ next = "unpermit") \/ (Is(r, "unpermit") /\ next = "unrule"),
         Step(r, next)
  PROVE  /\ request[r].pc \in Undoing /\ request[r].kind \in {"create", "rollback", "delete"}
         /\ request' \in [Requests -> RequestState] /\ Others(r)
         /\ request'[r].pc = next /\ request'[r].todo = request[r].todo
         /\ request'[r].kind = request[r].kind
         /\ request'[r].project = Of(r) /\ ShapeOf(request'[r])
<1>1. request[r].pc \in Undoing /\ request[r].pc # "idle"
  BY DEF Is, Undoing
<1>2. request[r] \in Serving /\ ShapeOf(request[r])
  BY <1>1, Active DEF Shape
<1>3. request[r].kind \in {"create", "rollback", "delete"}
  BY <1>1, <1>2 DEF Serving, Kinds, ShapeOf, Undoing
<1>4. /\ request' \in [Requests -> RequestState] /\ Others(r)
      /\ request'[r] = [request[r] EXCEPT !.pc = next]
  BY <1>1, Stepped
<1>5. /\ request'[r].pc = next /\ request'[r].todo = request[r].todo
      /\ request'[r].kind = request[r].kind /\ request'[r].project = Of(r)
  BY <1>2, <1>4 DEF Serving, Of
<1>6. ShapeOf(request'[r])
  BY <1>1, <1>2, <1>5 DEF ShapeOf, Undoing, Making
<1>. QED BY <1>1, <1>3, <1>4, <1>5, <1>6

(* from deleting the rule,                                                      *)
LEMMA RuleStepped ==
  ASSUME TypeOK, Shape, NEW r \in Requests, Is(r, "unrule"), AfterRule(r)
  PROVE  /\ request[r].pc \in Undoing /\ request[r].kind \in {"create", "rollback", "delete"}
         /\ request' \in [Requests -> RequestState] /\ Others(r)
         /\ request[r].kind = "create" => request'[r].pc = "idle"
         /\ request[r].kind # "create" =>
              /\ request'[r].pc = "unbuild" /\ request'[r].todo = request[r].todo
              /\ request'[r].kind = request[r].kind
              /\ request'[r].project = Of(r) /\ ShapeOf(request'[r])
<1>1. request[r].pc = "unrule" /\ request[r].pc # "idle"
  BY DEF Is
<1>2. request[r] \in Serving /\ ShapeOf(request[r])
  BY <1>1, Active DEF Shape
<1>3. request[r].kind \in {"create", "rollback", "delete"} /\ request[r].pc \in Undoing
  BY <1>1, <1>2 DEF Serving, Kinds, ShapeOf, Undoing
<1>4. CASE request[r].kind = "create"
  BY <1>3, <1>4, EndsIdle DEF AfterRule
<1>5. CASE request[r].kind # "create"
  <2>1. /\ request' \in [Requests -> RequestState] /\ Others(r)
        /\ request'[r] = [request[r] EXCEPT !.pc = "unbuild"]
    BY <1>1, <1>5, Stepped DEF AfterRule
  <2>2. /\ request'[r].pc = "unbuild" /\ request'[r].todo = request[r].todo
        /\ request'[r].kind = request[r].kind /\ request'[r].project = Of(r)
    BY <1>2, <2>1 DEF Serving, Of
  <2>3. ShapeOf(request'[r])
    BY <1>1, <1>2, <1>3, <1>5, <2>2 DEF ShapeOf
  <2>. QED BY <1>3, <1>5, <2>1, <2>2, <2>3
<1>. QED BY <1>4, <1>5

(* from deleting the build project,                                             *)
LEMMA BuildStepped ==
  ASSUME TypeOK, Shape, NEW r \in Requests, Is(r, "unbuild"), AfterBuild(r)
  PROVE  /\ request[r].pc = "unbuild" /\ request[r].kind \in {"rollback", "delete"}
         /\ request' \in [Requests -> RequestState] /\ Others(r)
         /\ request'[r].pc = "idle" => request[r].todo = {}
         /\ request'[r].pc # "idle" =>
              /\ request'[r].pc = "drop" /\ request'[r].todo = request[r].todo
              /\ request'[r].kind = request[r].kind
              /\ request'[r].project = Of(r) /\ ShapeOf(request'[r])
<1>1. request[r].pc = "unbuild" /\ request[r].pc # "idle"
  BY DEF Is
<1>2. request[r] \in Serving /\ ShapeOf(request[r])
  BY <1>1, Active DEF Shape
<1>3. request[r].kind \in {"rollback", "delete"}
  BY <1>1, <1>2 DEF Serving, Kinds, ShapeOf, Making
<1>4. CASE request[r].kind = "rollback" /\ request[r].todo = {}
  BY <1>1, <1>3, <1>4, EndsIdle DEF AfterBuild
<1>5. CASE ~(request[r].kind = "rollback" /\ request[r].todo = {})
  <2>1. /\ request' \in [Requests -> RequestState] /\ Others(r)
        /\ request'[r] = [request[r] EXCEPT !.pc = "drop"]
    BY <1>1, <1>5, Stepped DEF AfterBuild
  <2>2. /\ request'[r].pc = "drop" /\ request'[r].todo = request[r].todo
        /\ request'[r].kind = request[r].kind /\ request'[r].project = Of(r)
    BY <1>2, <2>1 DEF Serving, Of
  <2>3. ShapeOf(request'[r])
    BY <1>1, <1>2, <1>3, <1>5, <2>2 DEF ShapeOf
  <2>. QED BY <1>1, <1>3, <2>1, <2>2, <2>3
<1>. QED BY <1>4, <1>5

(* and from a repository or a log group; what it may find from then on.         *)
LEMMA DropStepped ==
  ASSUME TypeOK, Shape, NEW r \in Requests, NEW thing \in {"repository", "logs"},
         MayDrop(r, thing), Done(r, thing)
  PROVE  /\ request[r].pc # "idle" /\ request[r].kind \in {"rollback", "delete"}
         /\ request' \in [Requests -> RequestState] /\ Others(r)
         /\ request'[r].pc # "idle" =>
              /\ request'[r].kind = request[r].kind
              /\ request'[r].project = Of(r) /\ ShapeOf(request'[r])
         /\ res[Of(r)] \subseteq Left(request[r]) =>
              res[Of(r)] \ {thing} \subseteq
                (IF request'[r].pc = "idle" THEN {} ELSE Left(request'[r]))
<1>1. /\ request[r].pc # "idle" /\ request[r].kind \in {"rollback", "delete"}
      /\ request' \in [Requests -> RequestState] /\ Others(r)
  BY Dropped
<1>2. request[r] \in Serving /\ ShapeOf(request[r])
  BY <1>1, Active DEF Shape
<1>3. CASE RollbackEnds(r, thing)
  BY <1>1, <1>3 DEF RollbackEnds, Idle, Left
<1>4. CASE RollbackGoesOn(r, thing)
  <2>1. /\ request'[r].pc = request[r].pc /\ request'[r].todo = request[r].todo \ {thing}
        /\ request'[r].kind = request[r].kind /\ request'[r].project = Of(r)
    BY <1>2, <1>4 DEF RollbackGoesOn, Serving, Of
  <2>2. ShapeOf(request'[r])
    BY <1>2, <1>4, <2>1 DEF RollbackGoesOn, ShapeOf
  <2>3. res[Of(r)] \subseteq Left(request[r]) => res[Of(r)] \ {thing} \subseteq Left(request'[r])
    BY <1>2, <1>4, <2>1 DEF RollbackGoesOn, Left, ShapeOf
  <2>. QED BY <1>1, <2>1, <2>2, <2>3
<1>5. CASE DeletionGoesOn(r, thing)
  <2>1. /\ request'[r].pc = "drop" /\ request'[r].todo = {"logs"}
        /\ request'[r].kind = "delete" /\ request'[r].project = Of(r)
    BY <1>2, <1>5 DEF DeletionGoesOn, Serving, Of
  <2>2. ShapeOf(request'[r])
    BY <2>1 DEF ShapeOf
  <2>3. res[Of(r)] \subseteq Left(request[r]) => res[Of(r)] \ {thing} \subseteq Left(request'[r])
    BY <1>5, <2>1 DEF DeletionGoesOn, Left
  <2>. QED BY <1>1, <1>5, <2>1, <2>2, <2>3 DEF DeletionGoesOn
<1>6. CASE DeletionIsThrough(r, thing)
  <2>1. /\ request'[r].pc = "pipelines" /\ request'[r].todo = {}
        /\ request'[r].kind = "delete" /\ request'[r].project = Of(r)
    BY <1>2, <1>6 DEF DeletionIsThrough, Serving, Of
  <2>2. ShapeOf(request'[r])
    BY <2>1 DEF ShapeOf
  <2>3. res[Of(r)] \subseteq Left(request[r]) => res[Of(r)] \ {thing} \subseteq Left(request'[r])
    BY <1>6, <2>1 DEF DeletionIsThrough, Left
  <2>. QED BY <1>1, <1>6, <2>1, <2>2, <2>3 DEF DeletionIsThrough
<1>. QED BY <1>1, <1>3, <1>4, <1>5, <1>6, Dropped

(* A step that removes at most one thing, and leaves what it may still find.    *)
LEMMA TakeEffect ==
  ASSUME TypeOK, Shape, NEW r \in Requests, request[r].pc # "idle", NEW thing \in Resources,
         request[r].kind \in {"create", "rollback", "delete"},
         request' \in [Requests -> RequestState], Others(r),
         request'[r].pc # "idle" => /\ request'[r].kind = request[r].kind
                                     /\ request'[r].project = Of(r) /\ ShapeOf(request'[r]),
         request[r].kind = "create" =>
           request[r].pc \in Undoing /\ (request'[r].pc # "idle" => request'[r].pc \in Undoing),
         Drop(r, thing) \/ UNCHANGED res,
         UNCHANGED <<rowVars, countVars, upset>>,
         request[r].kind # "create" /\ res[Of(r)] \subseteq Left(request[r])
           => res'[Of(r)] \subseteq (IF request'[r].pc = "idle" THEN {} ELSE Left(request'[r]))
  PROVE  TypeOK' /\ Effect(r)
<1>1. Of(r) \in Projects
  BY Active
<1>2. /\ res' \in [Projects -> SUBSET Resources] /\ res'[Of(r)] \subseteq res[Of(r)]
      /\ \A p \in Projects \ {Of(r)} : res'[p] = res[p]
  BY <1>1, Stored DEF TypeOK
<1>3. /\ upset' \in [Projects -> SUBSET Upsets] /\ upset[Of(r)] \subseteq upset'[Of(r)]
      /\ \A p \in Projects \ {Of(r)} : upset'[p] = upset[p]
  BY DEF TypeOK
<1>. QED BY <1>2, <1>3, UndoEffect

(* Each step of a removal has one of the effects: the targets,                  *)
LEMMA TargetsEffect ==
  ASSUME TypeOK, Shape, NEW r \in Requests, RemoveTargets(r)
  PROVE  TypeOK' /\ Effect(r)
<1>1. /\ request[r].pc \in Undoing /\ request[r].kind \in {"create", "rollback", "delete"}
      /\ request' \in [Requests -> RequestState] /\ Others(r)
      /\ request'[r].pc = "unpermit" /\ request'[r].todo = request[r].todo
      /\ request'[r].kind = request[r].kind
      /\ request'[r].project = Of(r) /\ ShapeOf(request'[r])
  <2>1. Is(r, "untarget") /\ Step(r, "unpermit")
    BY DEF RemoveTargets
  <2>. QED BY <2>1, UndoStepped
<1>2. request[r].pc = "untarget" /\ request[r].pc # "idle" /\ request'[r].pc \in Undoing
  BY <1>1 DEF RemoveTargets, Is, Undoing
<1>3. Drop(r, "target") /\ "target" \in Resources
  BY DEF RemoveTargets, Resources, Rule
<1>4. res'[Of(r)] = res[Of(r)] \ {"target"}
  BY <1>2, <1>3, Active, Stored
<1>5. res[Of(r)] \subseteq Left(request[r]) => res'[Of(r)] \subseteq Left(request'[r])
  BY <1>1, <1>2, <1>4 DEF Left
<1>6. UNCHANGED <<rowVars, countVars, upset>>
  BY DEF RemoveTargets
<1>. QED BY <1>1, <1>2, <1>3, <1>5, <1>6, TakeEffect

(* the permission,                                                              *)
LEMMA PermissionEffect ==
  ASSUME TypeOK, Shape, NEW r \in Requests, RemovePermission(r)
  PROVE  TypeOK' /\ Effect(r)
<1>1. /\ request[r].pc \in Undoing /\ request[r].kind \in {"create", "rollback", "delete"}
      /\ request' \in [Requests -> RequestState] /\ Others(r)
      /\ request'[r].pc = "unrule" /\ request'[r].todo = request[r].todo
      /\ request'[r].kind = request[r].kind
      /\ request'[r].project = Of(r) /\ ShapeOf(request'[r])
  BY UndoStepped DEF RemovePermission
<1>2. request[r].pc = "unpermit" /\ request[r].pc # "idle" /\ request'[r].pc \in Undoing
  BY <1>1 DEF RemovePermission, Is, Undoing
<1>3. "permission" \in Resources /\ (Drop(r, "permission") \/ UNCHANGED res)
  BY DEF RemovePermission, Resources, Rule
<1>4. IF LambdaArn THEN res'[Of(r)] = res[Of(r)] \ {"permission"} ELSE res' = res
  BY <1>2, <1>3, Active, Stored DEF RemovePermission
<1>5. res[Of(r)] \subseteq Left(request[r]) => res'[Of(r)] \subseteq Left(request'[r])
  BY <1>1, <1>2, <1>4 DEF Left, Wanted
<1>6. UNCHANGED <<rowVars, countVars, upset>>
  BY DEF RemovePermission
<1>. QED BY <1>1, <1>2, <1>3, <1>5, <1>6, TakeEffect

(* the rule,                                                                    *)
LEMMA RuleEffect ==
  ASSUME TypeOK, Shape, NEW r \in Requests, DeleteRule(r)
  PROVE  TypeOK' /\ Effect(r)
<1>1. /\ request[r].pc \in Undoing /\ request[r].kind \in {"create", "rollback", "delete"}
      /\ request' \in [Requests -> RequestState] /\ Others(r)
      /\ request[r].kind = "create" => request'[r].pc = "idle"
      /\ request[r].kind # "create" =>
           /\ request'[r].pc = "unbuild" /\ request'[r].todo = request[r].todo
           /\ request'[r].kind = request[r].kind
           /\ request'[r].project = Of(r) /\ ShapeOf(request'[r])
  BY RuleStepped DEF DeleteRule
<1>2. request[r].pc = "unrule" /\ request[r].pc # "idle"
  BY DEF DeleteRule, Is
<1>3. "rule" \in Resources /\ (Drop(r, "rule") \/ UNCHANGED res)
  BY DEF DeleteRule, Resources, Rule
<1>4. "target" \notin res[Of(r)] => res'[Of(r)] = res[Of(r)] \ {"rule"}
  BY <1>2, <1>3, Active, Stored DEF DeleteRule
<1>5. request[r].kind # "create" =>
        (res[Of(r)] \subseteq Left(request[r]) => res'[Of(r)] \subseteq Left(request'[r]))
  BY <1>1, <1>2, <1>4 DEF Left, Wanted, Resources, Rule
<1>6. UNCHANGED <<rowVars, countVars, upset>>
  BY DEF DeleteRule
<1>7. request'[r].pc # "idle" => request[r].kind # "create"
  BY <1>1
<1>8. request[r].kind # "create" => request'[r].pc # "idle"
  BY <1>1
<1>. QED BY <1>1, <1>2, <1>3, <1>5, <1>6, <1>7, <1>8, TakeEffect

(* the build project,                                                           *)
LEMMA BuildEffect ==
  ASSUME TypeOK, Shape, NEW r \in Requests, DeleteBuildProject(r)
  PROVE  TypeOK' /\ Effect(r)
<1>1. /\ request[r].pc = "unbuild" /\ request[r].kind \in {"rollback", "delete"}
      /\ request' \in [Requests -> RequestState] /\ Others(r)
      /\ request'[r].pc = "idle" => request[r].todo = {}
      /\ request'[r].pc # "idle" =>
           /\ request'[r].pc = "drop" /\ request'[r].todo = request[r].todo
           /\ request'[r].kind = request[r].kind
           /\ request'[r].project = Of(r) /\ ShapeOf(request'[r])
  BY BuildStepped DEF DeleteBuildProject
<1>2. Drop(r, "build") /\ "build" \in Resources
  BY DEF DeleteBuildProject, Resources
<1>3. res'[Of(r)] = res[Of(r)] \ {"build"}
  BY <1>1, <1>2, Active, Stored
<1>4. res[Of(r)] \subseteq Left(request[r]) =>
        res'[Of(r)] \subseteq (IF request'[r].pc = "idle" THEN {} ELSE Left(request'[r]))
  BY <1>1, <1>3 DEF Left
<1>5. UNCHANGED <<rowVars, countVars, upset>>
  BY DEF DeleteBuildProject
<1>. QED BY <1>1, <1>2, <1>4, <1>5, TakeEffect

(* the repository and the log group,                                            *)
LEMMA DropEffect ==
  ASSUME TypeOK, Shape, NEW r \in Requests, DeleteRepository(r) \/ DeleteLogGroup(r)
  PROVE  TypeOK' /\ Effect(r)
<1>1. PICK thing \in {"repository", "logs"} :
        /\ MayDrop(r, thing) /\ Drop(r, thing) /\ Done(r, thing)
        /\ UNCHANGED <<rowVars, countVars, upset>>
  BY DEF DeleteRepository, DeleteLogGroup
<1>2. /\ request[r].pc # "idle" /\ request[r].kind \in {"rollback", "delete"}
      /\ request' \in [Requests -> RequestState] /\ Others(r)
      /\ request'[r].pc # "idle" =>
           /\ request'[r].kind = request[r].kind
           /\ request'[r].project = Of(r) /\ ShapeOf(request'[r])
      /\ res[Of(r)] \subseteq Left(request[r]) =>
           res[Of(r)] \ {thing} \subseteq
             (IF request'[r].pc = "idle" THEN {} ELSE Left(request'[r]))
  BY <1>1, DropStepped
<1>3. thing \in Resources
  BY DEF Resources
<1>4. res'[Of(r)] = res[Of(r)] \ {thing}
  BY <1>1, <1>2, <1>3, Active, Stored
<1>. QED BY <1>1, <1>2, <1>3, <1>4, TakeEffect

(* a call that fails,                                                           *)
LEMMA RemovalFailsEffect ==
  ASSUME TypeOK, Shape, NEW r \in Requests, RemovalFails(r)
  PROVE  TypeOK' /\ Effect(r)
<1>1. /\ request[r].pc # "idle" /\ request[r].kind \in {"create", "rollback", "delete"}
      /\ request' \in [Requests -> RequestState] /\ Others(r)
      /\ request'[r].pc # "idle" => /\ request'[r].kind = request[r].kind
                                     /\ request'[r].project = Of(r) /\ ShapeOf(request'[r])
      /\ request[r].kind = "create" =>
           request[r].pc \in Undoing /\ (request'[r].pc # "idle" => request'[r].pc \in Undoing)
  <2>1. CASE Is(r, "untarget") /\ Step(r, "unpermit")
    <3>1. /\ request[r].pc \in Undoing /\ request[r].kind \in {"create", "rollback", "delete"}
          /\ request' \in [Requests -> RequestState] /\ Others(r)
          /\ request'[r].pc = "unpermit" /\ request'[r].kind = request[r].kind
          /\ request'[r].project = Of(r) /\ ShapeOf(request'[r])
      BY <2>1, UndoStepped
    <3>. QED BY <3>1 DEF Undoing
  <2>2. CASE Is(r, "unpermit") /\ Step(r, "unrule")
    BY <2>2, UndoStepped DEF Undoing
  <2>3. CASE Is(r, "unrule") /\ AfterRule(r)
    BY <2>3, RuleStepped DEF Undoing
  <2>4. CASE Is(r, "unbuild") /\ AfterBuild(r)
    BY <2>4, BuildStepped
  <2>5. ASSUME NEW thing \in {"repository", "logs"}, MayDrop(r, thing) /\ Done(r, thing)
        PROVE  <1>1!1 /\ <1>1!2 /\ <1>1!3 /\ <1>1!4
    BY <2>5, DropStepped
  <2>. QED BY <2>1, <2>2, <2>3, <2>4, <2>5 DEF RemovalFails
<1>2. Of(r) \in Projects
  BY <1>1, Active
<1>3. /\ upset' \in [Projects -> SUBSET Upsets] /\ upset'[Of(r)] = upset[Of(r)] \cup {"undo"}
      /\ \A p \in Projects \ {Of(r)} : upset'[p] = upset[p]
  BY <1>2, Upsetting DEF RemovalFails, Upsets
<1>4. UNCHANGED rowVars /\ UNCHANGED countVars /\ res' = res
  BY DEF RemovalFails
<1>5. ~(upset'[Of(r)] \subseteq {"db"})
  BY <1>3
<1>6. /\ res' \in [Projects -> SUBSET Resources] /\ res'[Of(r)] \subseteq res[Of(r)]
      /\ upset[Of(r)] \subseteq upset'[Of(r)]
      /\ \A p \in Projects \ {Of(r)} : res'[p] = res[p] /\ upset'[p] = upset[p]
  BY <1>3, <1>4 DEF TypeOK
<1>. QED BY <1>1, <1>3, <1>4, <1>5, <1>6, UndoEffect

(* and the rows a deletion ends with.                                           *)
LEMMA RowEffect ==
  ASSUME TypeOK, Shape, NEW r \in Requests,
         DeletePipelines(r) \/ DeleteRow(r) \/ RowsFail(r)
  PROVE  TypeOK' /\ Effect(r)
<1>1. request[r].pc \in {"pipelines", "row"} /\ request[r].pc # "idle"
  BY DEF DeletePipelines, DeleteRow, RowsFail, Is
<1>2. request[r] \in Serving /\ Of(r) \in Projects /\ ShapeOf(request[r])
  BY <1>1, Active DEF Shape
<1>3. request[r].kind = "delete" /\ request[r].todo = {}
  BY <1>1, <1>2 DEF Serving, Kinds, ShapeOf, Making
<1>4. UNCHANGED <<res, used, asked, made>> /\ UNCHANGED webhookVars
  BY DEF DeletePipelines, DeleteRow, RowsFail, rowVars, countVars, webhookVars
<1>5. Left(request[r]) = {}
  BY <1>1, <1>3 DEF Left
<1>6. CASE DeletePipelines(r)
  <2>1. /\ request' \in [Requests -> RequestState] /\ Others(r)
        /\ request'[r] = [request[r] EXCEPT !.pc = "row"]
    BY <1>1, <1>6, Stepped DEF DeletePipelines
  <2>2. /\ request'[r].pc = "row" /\ request'[r].kind = "delete" /\ request'[r].todo = {}
        /\ request'[r].project = Of(r) /\ ShapeOf(request'[r])
    BY <1>2, <1>3, <2>1 DEF Serving, Of, ShapeOf
  <2>3. pipelines' \subseteq Projects /\ UNCHANGED <<link, row, upset>>
    BY <1>6 DEF DeletePipelines, TypeOK
  <2>4. TypeOK'
    BY <1>4, <2>1, <2>3, Assembled DEF TypeOK, InstallationsTypeOK, countVars
  <2>5. Only(r)
    BY <1>1, <1>2, <1>4, <2>1, <2>2, <2>3 DEF Only, TypeOK
  <2>6. Takes(r)
    BY <1>3, <1>4, <1>5, <2>2, <2>3 DEF Takes
  <2>. QED BY <2>4, <2>5, <2>6 DEF Effect
<1>7. CASE DeleteRow(r) \/ RowsFail(r)
  <2>1. request' \in [Requests -> RequestState] /\ Others(r) /\ request'[r].pc = "idle"
    BY <1>7, EndsIdle DEF DeleteRow, RowsFail
  <2>2. /\ row' \subseteq row /\ \A p \in Projects \ {Of(r)} : (p \in row' <=> p \in row)
        /\ link' \in [Projects -> Installations \cup {None}] /\ UNCHANGED pipelines
    BY <1>7 DEF DeleteRow, RowsFail, rowVars, TypeOK, InstallationsTypeOK
  <2>3. /\ upset' \in [Projects -> SUBSET Upsets] /\ upset[Of(r)] \subseteq upset'[Of(r)]
        /\ \A p \in Projects \ {Of(r)} : upset'[p] = upset[p]
    BY <1>2, <1>7, Upsetting DEF DeleteRow, RowsFail, TypeOK, Upsets
  <2>4. TypeOK'
    BY <1>4, <2>1, <2>2, <2>3, Assembled DEF TypeOK, countVars
  <2>5. Only(r)
    BY <1>1, <1>2, <1>4, <2>1, <2>2, <2>3 DEF Only, TypeOK
  <2>6. Takes(r)
    BY <1>3, <1>4, <1>5, <2>1, <2>2, <2>3 DEF Takes
  <2>. QED BY <2>4, <2>5, <2>6 DEF Effect
<1>. QED BY <1>6, <1>7

(* So every step of a removal has.                                              *)
LEMMA RemoveEffect ==
  ASSUME TypeOK, Shape, NEW r \in Requests, RemoveStep(r)
  PROVE  TypeOK' /\ Effect(r)
<1>1. CASE RemoveTargets(r)
  BY <1>1, TargetsEffect
<1>2. CASE RemovePermission(r)
  BY <1>2, PermissionEffect
<1>3. CASE DeleteRule(r)
  BY <1>3, RuleEffect
<1>4. CASE DeleteBuildProject(r)
  BY <1>4, BuildEffect
<1>5. CASE DeleteRepository(r) \/ DeleteLogGroup(r)
  BY <1>5, DropEffect
<1>6. CASE RemovalFails(r)
  BY <1>6, RemovalFailsEffect
<1>7. CASE DeletePipelines(r) \/ DeleteRow(r) \/ RowsFail(r)
  BY <1>7, RowEffect
<1>. QED BY <1>1, <1>2, <1>3, <1>4, <1>5, <1>6, <1>7 DEF RemoveStep

(* And an update's only step.                                                   *)
LEMMA UpdateEffect ==
  ASSUME TypeOK, Shape, NEW r \in Requests, SaveUpdate(r)
  PROVE  TypeOK' /\ Effect(r)
<1>1. request[r].pc = "save" /\ request[r].pc # "idle" /\ request[r].kind = "update"
  BY DEF SaveUpdate, Is
<1>2. Of(r) \in Projects
  BY <1>1, Active
<1>3. request' \in [Requests -> RequestState] /\ Others(r) /\ request'[r].pc = "idle"
  BY EndsIdle DEF SaveUpdate
<1>4. /\ row \subseteq row' /\ row' \subseteq row \cup {Of(r)} /\ row' \subseteq Projects
      /\ link' \in [Projects -> Installations \cup {None}]
  BY <1>2, Inserted DEF SaveUpdate, TypeOK, InstallationsTypeOK
<1>5. UNCHANGED <<res, pipelines, used, asked, upset>>
  BY DEF SaveUpdate, countVars
<1>6. TypeOK'
  BY <1>3, <1>4, <1>5, Assembled DEF SaveUpdate, TypeOK
<1>7. Only(r)
  BY <1>1, <1>2, <1>3, <1>4, <1>5 DEF Only
<1>8. Updates(r)
  BY <1>1, <1>3, <1>4, <1>5 DEF Updates
<1>. QED BY <1>6, <1>7, <1>8 DEF Effect

(* A step of a request keeps the shape of all.                                  *)
LEMMA ShapeKept ==
  ASSUME Shape, NEW r \in Requests, Only(r)
  PROVE  Shape'
BY DEF Shape, Only, Others

(* A creation is the only request of its project.                               *)
LEMMA Alone ==
  ASSUME Owned, NEW r \in Requests, Only(r), request[r].kind = "create"
  PROVE  /\ \A s \in Requests \ {r} : request[s].pc # "idle" => request[s].project # Of(r)
         /\ \A s \in Requests \ {r} : request'[s] = request[s]
         /\ Of(r) \in used /\ Of(r) \notin row \cup asked
BY DEF Owned, Only, Others, Of

(* A step of a request leaves the other projects as sound as they were.         *)
LEMMA SoundElsewhere ==
  ASSUME Sound, NEW r \in Requests, Only(r)
  PROVE  \A p \in Projects \ {Of(r)} : upset'[p] \subseteq {"db"} => WholeOrGone(p)'
<1>. SUFFICES ASSUME NEW p \in Projects \ {Of(r)}, upset'[p] \subseteq {"db"}
              PROVE  WholeOrGone(p)'
  OBVIOUS
<1>1. WholeOrGone(p)
  BY DEF Sound, Only
<1>2. \A s \in Requests : /\ Removes(s, p)' <=> Removes(s, p)
                          /\ Creates(s, p)' <=> Creates(s, p)
                          /\ Removes(s, p) => request'[s] = request[s]
  BY DEF Only, Others, Removes, Creates, Serves, Of
<1>3. res'[p] = res[p] /\ (p \in row' <=> p \in row)
  BY DEF Only
<1>4. \A s \in Requests : Removes(s, p)' => res'[p] \subseteq Left(request'[s])
  BY <1>1, <1>2, <1>3 DEF WholeOrGone
<1>. QED BY <1>1, <1>2, <1>3, <1>4 DEF WholeOrGone

(* A step with an effect keeps each part of the invariant: who owns what,       *)
LEMMA OwnedKept ==
  ASSUME TypeOK, Owned, Known, NEW r \in Requests, Effect(r)
  PROVE  Owned'
<1>1. Only(r)
  BY DEF Effect
<1>2. CASE Makes(r)
  BY <1>1, <1>2 DEF Makes, Only, Others, Of, Owned, Known, TypeOK
<1>3. CASE GivesUp(r)
  BY <1>1, <1>3 DEF GivesUp, Only, Others, Of, Owned, Known, TypeOK
<1>4. CASE Saves(r)
  BY <1>1, <1>4 DEF Saves, Only, Others, Of, Owned, Known, TypeOK
<1>5. CASE RollsBack(r)
  BY <1>1, <1>5 DEF RollsBack, Only, Others, Of, Owned, Known, TypeOK
<1>6. CASE Takes(r)
  BY <1>1, <1>6 DEF Takes, Only, Others, Of, Owned, Known, TypeOK
<1>7. CASE Updates(r)
  BY <1>1, <1>7 DEF Updates, Only, Others, Of, Owned, Known, TypeOK
<1>. QED BY <1>2, <1>3, <1>4, <1>5, <1>6, <1>7 DEF Effect

(* what the kinds of requests imply,                                            *)
LEMMA KnownKept ==
  ASSUME TypeOK, Owned, Known, NEW r \in Requests, Effect(r)
  PROVE  Known'
<1>1. Only(r)
  BY DEF Effect
<1>2. CASE Makes(r)
  BY <1>1, <1>2 DEF Makes, Only, Others, Of, Owned, Known, TypeOK
<1>3. CASE GivesUp(r)
  BY <1>1, <1>3 DEF GivesUp, Only, Others, Of, Owned, Known, TypeOK
<1>4. CASE Saves(r)
  BY <1>1, <1>4 DEF Saves, Only, Others, Of, Owned, Known, TypeOK
<1>5. CASE RollsBack(r)
  BY <1>1, <1>5 DEF RollsBack, Only, Others, Of, Owned, Known, TypeOK
<1>6. CASE Takes(r)
  BY <1>1, <1>6 DEF Takes, Only, Others, Of, Owned, Known, TypeOK
<1>7. CASE Updates(r)
  BY <1>1, <1>7 DEF Updates, Only, Others, Of, Owned, Known, TypeOK
<1>. QED BY <1>2, <1>3, <1>4, <1>5, <1>6, <1>7 DEF Effect

(* (what one has when it has made the next thing or lost its target)            *)
LEMMA MadeStock ==
  ASSUME TypeOK, Stocked, NEW r \in Requests, Only(r), Makes(r)
  PROVE  /\ res'[Of(r)] = Stock(request'[r].pc) \ Lost(Of(r))'
         /\ upset'[Of(r)] \subseteq {"target"}
         /\ upset'[Of(r)] # {} => request'[r].pc \in {"permission", "save"}
<1>1. /\ res[Of(r)] = Stock(request[r].pc) \ Lost(Of(r))
      /\ upset[Of(r)] \subseteq {"target"}
      /\ upset[Of(r)] # {} => request[r].pc \in {"permission", "save"}
  BY DEF Makes, Only, Stocked
<1>2. Lost(Of(r))' = IF "target" \in upset'[Of(r)] THEN {"target"} ELSE {}
  <2>1. Of(r)' = Of(r)
    BY DEF Makes, Only, Of, Making
  <2>. QED BY <2>1 DEF Lost
<1>3. CASE res'[Of(r)] = res[Of(r)] \cup {request[r].pc} /\ upset' = upset
  <2>1. upset[Of(r)] # {} => request[r].pc \notin {"target"}
    BY <1>1
  <2>2. Lost(Of(r))' = Lost(Of(r))
    BY <1>2, <1>3 DEF Lost
  <2>3. Stock(request'[r].pc) = Stock(request[r].pc) \cup {request[r].pc}
    BY DEF Makes
  <2>4. request[r].pc \notin Lost(Of(r))
    BY <1>1, <2>1 DEF Lost
  <2>5. res'[Of(r)] = Stock(request'[r].pc) \ Lost(Of(r))
    BY <1>1, <1>3, <2>3, <2>4
  <2>. QED BY <1>1, <1>3, <2>2, <2>5 DEF Makes
<1>4. CASE /\ request[r].pc = "target" /\ request'[r].pc = "permission"
           /\ res' = res /\ upset'[Of(r)] = upset[Of(r)] \cup {"target"}
  <2>1. res[Of(r)] = Stock("target")
    BY <1>1, <1>4 DEF Lost
  <2>2. Stock("permission") \ {"target"} = Stock("target")
    BY DEF Stock
  <2>. QED BY <1>1, <1>2, <1>4, <2>1, <2>2
<1>. QED BY <1>3, <1>4 DEF Makes

(* what creations have made,                                                    *)
LEMMA StockedKept ==
  ASSUME TypeOK, Owned, Stocked, NEW r \in Requests, Effect(r)
  PROVE  Stocked'
<1>1. Only(r)
  BY DEF Effect
<1>2. CASE Makes(r)
  <2>1. \A s \in Requests \ {r} : request[s].pc # "idle" => request[s].project # Of(r)
    BY <1>1, <1>2, Alone DEF Makes
  <2>2. \A p \in Projects \ used : res'[p] = res[p] /\ upset'[p] = upset[p]
    BY <1>1 DEF Only, Owned
  <2>3. \A s \in Requests \ {r} :
          /\ request'[s] = request[s]
          /\ request[s].pc # "idle" =>
               res'[Of(s)] = res[Of(s)] /\ upset'[Of(s)] = upset[Of(s)] /\ Of(s) \in Projects
    BY <1>1, <2>1, Active DEF Only, Others, Of
  <2>4. /\ request'[r].pc \in Making /\ request'[r].kind = "create"
        /\ request'[r].project = Of(r)
    BY <1>1, <1>2 DEF Makes, Only, Making
  <2>5. /\ res'[Of(r)] = Stock(request'[r].pc) \ Lost(Of(r))'
        /\ upset'[Of(r)] \subseteq {"target"}
        /\ upset'[Of(r)] # {} => request'[r].pc \in {"permission", "save"}
    BY <1>1, <1>2, MadeStock
  <2>6. Of(r)' = Of(r)
    BY <2>4 DEF Of
  <2>7. \A s \in Requests \ {r} : request[s].pc # "idle" => Lost(Of(s))' = Lost(Of(s)) /\ Of(s)' = Of(s)
    BY <2>3 DEF Lost, Of
  <2>8. \A s \in Requests \ {r} : request'[s].pc # "idle" /\ request'[s].kind = "create" =>
          IF request'[s].pc \in Making
          THEN /\ res'[Of(s)] = Stock(request'[s].pc) \ Lost(Of(s))'
               /\ upset'[Of(s)] \subseteq {"target"}
               /\ upset'[Of(s)] # {} => request'[s].pc \in {"permission", "save"}
          ELSE "make" \in upset'[Of(s)]
    BY <2>3, <2>7 DEF Stocked
  <2>9. \A p \in Projects \ used' : res'[p] = {} /\ upset'[p] = {}
    BY <1>1, <2>2 DEF Only, Stocked
  <2>. QED BY <2>3, <2>4, <2>5, <2>6, <2>7, <2>8, <2>9 DEF Stocked
<1>3. CASE GivesUp(r)
  BY <1>1, <1>3 DEF GivesUp, Only, Others, Of, Owned, Stocked, TypeOK, Undoing, Making, Lost
<1>4. CASE Saves(r)
  BY <1>1, <1>4 DEF Saves, Only, Others, Of, Owned, Stocked, TypeOK, Undoing, Making, Lost
<1>5. CASE RollsBack(r)
  <2>1. \A s \in Requests \ {r} : request[s].pc # "idle" => request[s].project # Of(r)
    BY <1>1, <1>5, Alone DEF RollsBack
  <2>2. \A p \in Projects \ used : res'[p] = res[p] /\ upset'[p] = upset[p]
    BY <1>1 DEF Only, Owned
  <2>3. \A s \in Requests \ {r} :
          /\ request'[s] = request[s]
          /\ request[s].pc # "idle" =>
               res'[Of(s)] = res[Of(s)] /\ upset'[Of(s)] = upset[Of(s)] /\ Of(s) \in Projects
    BY <1>1, <2>1, Active DEF Only, Others, Of
  <2>. QED BY <1>1, <1>5, <2>2, <2>3 DEF RollsBack, Only, Stocked, Of, Lost
<1>6. CASE Takes(r)
  BY <1>1, <1>6 DEF Takes, Only, Others, Of, Owned, Stocked, TypeOK, Undoing, Making, Lost
<1>7. CASE Updates(r)
  BY <1>1, <1>7 DEF Updates, Only, Others, Of, Owned, Stocked, TypeOK, Undoing, Making, Lost
<1>. QED BY <1>2, <1>3, <1>4, <1>5, <1>6, <1>7 DEF Effect

(* that live projects are whole: only removals take from a project, and a       *)
(* project being removed is asked to be deleted or upset,                       *)
LEMMA LiveKept ==
  ASSUME TypeOK, Owned, Known, Stocked, LiveProjectsAreWhole, NEW r \in Requests, Effect(r)
  PROVE  LiveProjectsAreWhole'
<1>1. Only(r)
  BY DEF Effect
<1>2. CASE Makes(r)
  BY <1>1, <1>2 DEF Makes, Only, Others, Of, Owned, Known, LiveProjectsAreWhole, Lost, TypeOK
<1>3. CASE GivesUp(r)
  BY <1>1, <1>3 DEF GivesUp, Only, Others, Of, Owned, Known, LiveProjectsAreWhole, Lost, TypeOK
<1>4. CASE Saves(r)
  BY <1>1, <1>4 DEF Saves, Only, Of, LiveProjectsAreWhole, Lost, Stocked, Stock, Making
<1>5. CASE RollsBack(r)
  BY <1>1, <1>5 DEF RollsBack, Only, Others, Of, Owned, Known, LiveProjectsAreWhole, Lost, TypeOK
<1>6. CASE Takes(r)
  BY <1>1, <1>6 DEF Takes, Only, Others, Of, Owned, Known, LiveProjectsAreWhole, Lost, TypeOK
<1>7. CASE Updates(r)
  BY <1>1, <1>7 DEF Updates, Only, Others, Of, Owned, Known, LiveProjectsAreWhole, Lost, TypeOK
<1>. QED BY <1>2, <1>3, <1>4, <1>5, <1>6, <1>7 DEF Effect

(* and that projects nothing upset are whole or gone.                           *)
LEMMA SoundKept ==
  ASSUME TypeOK, Owned, Known, Stocked, Sound, NEW r \in Requests, Effect(r)
  PROVE  Sound'
<1>1. Only(r)
  BY DEF Effect
<1>2. \A p \in Projects \ {Of(r)} : upset'[p] \subseteq {"db"} => WholeOrGone(p)'
  BY <1>1, SoundElsewhere
<1>3. PICK p \in Projects : p = Of(r)
  BY <1>1 DEF Only
<1>4. CASE Makes(r)
  <2>1. /\ request[r].kind = "create" /\ Of(r) \in Projects
        /\ \A s \in Requests \ {r} : request[s].pc # "idle" => request[s].project # Of(r)
        /\ \A s \in Requests \ {r} : request'[s] = request[s]
    BY <1>1, <1>4, Alone DEF Makes, Only
  <2>2. Creates(r, p)'
    BY <1>1, <1>3, <1>4 DEF Makes, Only, Creates, Serves, Of, Making
  <2>3. \A s \in Requests : ~Removes(s, p)'
    BY <1>1, <1>3, <1>4, <2>1 DEF Makes, Removes, Serves, Of
  <2>4. res'[Of(r)] \subseteq Stock(request'[r].pc) /\ request'[r].pc \in Making
    BY <1>1, <1>4, MadeStock DEF Makes
  <2>5. ShapeOf(request'[r]) /\ request'[r].kind = "create"
    BY <1>1, <1>4 DEF Makes, Only, Making
  <2>6. res'[Of(r)] \subseteq Wanted
    BY <2>4, <2>5, ProvisioningAssumption DEF Stock, Wanted, Resources, Rule, Making, ShapeOf
  <2>7. WholeOrGone(p)'
    BY <2>2, <2>3, <2>6, <1>3 DEF WholeOrGone, Wanted, Resources, Rule
  <2>. QED BY <1>2, <1>3, <2>7 DEF Sound
<1>5. CASE GivesUp(r)
  <2>1. /\ request[r].kind = "create" /\ Of(r) \in Projects
        /\ \A s \in Requests \ {r} : request[s].pc # "idle" => request[s].project # Of(r)
        /\ \A s \in Requests \ {r} : request'[s] = request[s]
    BY <1>1, <1>5, Alone DEF GivesUp, Only
  <2>2. "make" \in upset'[Of(r)]
    BY <1>1, <1>5 DEF GivesUp, Only, Stocked, Making, Undoing
  <2>. QED BY <1>2, <1>3, <2>2 DEF Sound
<1>6. CASE Saves(r)
  <2>1. /\ request[r].kind = "create" /\ Of(r) \in Projects
        /\ \A s \in Requests \ {r} : request[s].pc # "idle" => request[s].project # Of(r)
        /\ \A s \in Requests \ {r} : request'[s] = request[s]
    BY <1>1, <1>6, Alone DEF Saves, Only
  <2>2. \A s \in Requests : ~Removes(s, p)'
    BY <1>3, <1>6, <2>1 DEF Saves, Removes, Serves, Of
  <2>3. upset'[Of(r)] \subseteq {"db"} => res'[Of(r)] = Wanted /\ Of(r) \in row'
    BY <1>1, <1>6 DEF Saves, Only, Stocked, Stock, Making, Lost
  <2>4. upset'[p] \subseteq {"db"} => WholeOrGone(p)'
    BY <2>2, <2>3, <1>3 DEF WholeOrGone, Wanted, Resources, Rule
  <2>. QED BY <1>2, <1>3, <2>4 DEF Sound
<1>7. CASE RollsBack(r)
  <2>1. /\ request[r].kind = "create" /\ Of(r) \in Projects
        /\ \A s \in Requests \ {r} : request[s].pc # "idle" => request[s].project # Of(r)
        /\ \A s \in Requests \ {r} : request'[s] = request[s]
    BY <1>1, <1>7, Alone DEF RollsBack, Only
  <2>2. Removes(r, p)'
    BY <1>1, <1>3, <1>7 DEF RollsBack, Only, Removes, Serves, Of
  <2>3. \A s \in Requests \ {r} : ~Removes(s, p)'
    BY <1>3, <1>7, <2>1 DEF Removes, Serves, Of
  <2>4. upset'[Of(r)] \subseteq {"db"} => res'[Of(r)] = Wanted
    <3>1. upset'[Of(r)] \subseteq {"db"} => upset[Of(r)] = {}
      BY <1>1, <1>7 DEF RollsBack, Only, Stocked, Making
    <3>2. res[Of(r)] = Stock("save") \ Lost(Of(r))
      BY <1>1, <1>7 DEF RollsBack, Only, Stocked, Making
    <3>. QED BY <1>7, <3>1, <3>2 DEF RollsBack, Stock, Lost
  <2>5. Left(request'[r]) = Wanted
    BY <1>7 DEF RollsBack, Left, Wanted, Resources, Rule
  <2>6. upset'[p] \subseteq {"db"} => WholeOrGone(p)'
    BY <2>2, <2>3, <2>4, <2>5, <1>3 DEF WholeOrGone, Wanted, Resources, Rule
  <2>. QED BY <1>2, <1>3, <2>6 DEF Sound
<1>8. CASE Takes(r)
  BY <1>1, <1>8 DEF Takes, Only, Others, Of, Owned, Known, Stocked, Sound, WholeOrGone, Removes, Creates, Serves, TypeOK
<1>9. CASE Updates(r)
  BY <1>1, <1>9 DEF Updates, Only, Others, Of, Owned, Known, Stocked, Sound, WholeOrGone, Removes, Creates, Serves, TypeOK
<1>. QED BY <1>4, <1>5, <1>6, <1>7, <1>8, <1>9 DEF Effect

(* The invariant beyond types and shapes.                                       *)
Bundle == Owned /\ Known /\ Stocked /\ LiveProjectsAreWhole /\ Sound

(* The inductive invariant.                                                     *)
IInv == TypeOK /\ Shape /\ Bundle

(* So a step with an effect keeps the invariant.                                *)
LEMMA EffectKeeps ==
  ASSUME TypeOK, Shape, Bundle, NEW r \in Requests, TypeOK' /\ Effect(r)
  PROVE  IInv'
<1>1. Only(r)
  BY DEF Effect
<1>. QED
  BY <1>1, ShapeKept, OwnedKept, KnownKept, StockedKept, LiveKept, SoundKept DEF Bundle, IInv

(* Accepting a creation keeps the invariant: its project is new.                *)
LEMMA CreateOpens ==
  ASSUME TypeOK, Shape, Bundle, NEW r \in Requests, NEW p \in Projects,
         NEW i \in Installations \cup {None}, Create(r, p, i)
  PROVE  IInv'
<1>. DEFINE rec == [pc |-> "repository", kind |-> "create", project |-> p, inst |-> i, todo |-> {}]
<1>1. rec \in Serving
  BY DEF Serving, Kinds
<1>2. /\ request' \in [Requests -> RequestState] /\ request'[r] = rec /\ made' \in 0..MaxRequests
      /\ \A s \in Requests \ {r} : request'[s] = request[s]
      /\ request[r].pc = "idle" /\ p \notin used
  BY <1>1, Accepted DEF Create, Others, Accept, Is
<1>3. /\ request'[r].pc = "repository" /\ request'[r].kind = "create"
      /\ request'[r].project = p /\ request'[r].todo = {}
  BY <1>2
<1>4. UNCHANGED <<row, res, asked, upset, link, pipelines>> /\ used' = used \cup {p}
  BY DEF Create, rowVars
<1>5. TypeOK'
  BY <1>2, <1>4 DEF Create, TypeOK, InstallationsTypeOK, rowVars
<1>. HIDE DEF rec
<1>6. Shape'
  BY <1>2, <1>3 DEF Shape, ShapeOf, Making
<1>7. Owned'
  BY <1>2, <1>3, <1>4 DEF Bundle, Owned, Of
<1>8. Known'
  BY <1>2, <1>3, <1>4 DEF Bundle, Known, Of
<1>9. Stocked'
  <2>1. res[p] = {} /\ upset[p] = {} /\ Stock("repository") = {} /\ "repository" \in Making
    BY <1>2 DEF Bundle, Stocked, Stock, Making
  <2>2. \A s \in Requests \ {r} : request[s] = request'[s]
    BY <1>2
  <2>3. \A q \in Projects \ used' : res'[q] = {} /\ upset'[q] = {}
    BY <1>4 DEF Bundle, Stocked
  <2>4. \A s \in Requests \ {r} : request[s].pc # "idle" /\ request[s].kind = "create" =>
          IF request[s].pc \in Making
          THEN /\ res'[request[s].project] = Stock(request[s].pc) \ Lost(request[s].project)'
               /\ upset'[request[s].project] \subseteq {"target"}
               /\ upset'[request[s].project] # {} => request[s].pc \in {"permission", "save"}
          ELSE "make" \in upset'[request[s].project]
    <3>1. \A q \in Projects : Lost(q)' = Lost(q)
      BY <1>4 DEF Lost
    <3>2. \A s \in Requests \ {r} : request[s].pc # "idle" => Of(s) \in Projects
      BY Active
    <3>3. \A s \in Requests : Of(s) = request[s].project
      BY DEF Of
    <3>4. \A s \in Requests \ {r} : request[s].pc # "idle" /\ request[s].kind = "create" =>
            IF request[s].pc \in Making
            THEN /\ res[Of(s)] = Stock(request[s].pc) \ Lost(Of(s))
                 /\ upset[Of(s)] \subseteq {"target"}
                 /\ upset[Of(s)] # {} => request[s].pc \in {"permission", "save"}
            ELSE "make" \in upset[Of(s)]
      BY DEF Bundle, Stocked
    <3>5. \A s \in Requests \ {r} : request[s].pc # "idle" =>
            Lost(request[s].project)' = Lost(Of(s))
      <4>1. \A s \in Requests \ {r} : request'[s].project = request[s].project
        BY <2>2
      <4>. QED BY <1>4, <3>3, <4>1 DEF Lost
    <3>. QED BY <1>4, <2>2, <3>3, <3>4, <3>5
  <2>5. IF request'[r].pc \in Making
        THEN /\ res'[request'[r].project] = Stock(request'[r].pc)
             /\ upset'[request'[r].project] = {}
        ELSE "make" \in upset'[request'[r].project]
    BY <1>3, <1>4, <2>1
  <2>6. res'[request'[r].project] = Stock(request'[r].pc) \ Lost(request[r].project)'
    BY <1>3, <1>4, <2>1 DEF Lost
  <2>. QED BY <1>3, <2>1, <2>2, <2>3, <2>4, <2>5, <2>6 DEF Stocked, Of
<1>10. LiveProjectsAreWhole'
  BY <1>4 DEF Bundle, LiveProjectsAreWhole, Lost
<1>11. Sound'
  <2>1. ASSUME NEW q \in Projects, upset[q] \subseteq {"db"} PROVE WholeOrGone(q)'
    <3>1. \A s \in Requests : Removes(s, q)' => Removes(s, q) /\ request'[s] = request[s]
      BY <1>2, <1>3 DEF Removes, Serves
    <3>2. WholeOrGone(q)
      BY <2>1 DEF Bundle, Sound
    <3>3. \A s \in Requests : Removes(s, q)' => res'[q] \subseteq Left(request'[s])
      BY <1>4, <3>1, <3>2 DEF WholeOrGone
    <3>4. q = p => Creates(r, q)'
      BY <1>3 DEF Creates, Serves
    <3>5. q # p => \A s \in Requests : (Removes(s, q) <=> Removes(s, q)') /\ (Creates(s, q) <=> Creates(s, q)')
      BY <1>2, <1>3 DEF Removes, Creates, Serves
    <3>. QED BY <1>4, <3>2, <3>3, <3>4, <3>5 DEF WholeOrGone
  <2>. QED BY <1>4, <2>1 DEF Sound
<1>. QED BY <1>5, <1>6, <1>7, <1>8, <1>9, <1>10, <1>11 DEF Bundle, IInv

(* Accepting a deletion or an update keeps it: its project has a row.           *)
LEMMA RowOpens ==
  ASSUME TypeOK, Shape, Bundle, NEW r \in Requests, NEW p \in Projects,
         Delete(r, p) \/ Update(r, p)
  PROVE  IInv'
<1>1. p \in row /\ link[p] \in Installations \cup {None}
  BY DEF Delete, Update, TypeOK, InstallationsTypeOK
<1>2. /\ request' \in [Requests -> RequestState] /\ made' \in 0..MaxRequests
      /\ \A s \in Requests \ {r} : request'[s] = request[s]
      /\ request'[r].project = p /\ request[r].pc = "idle" /\ request'[r].pc # "idle"
      /\ ShapeOf(request'[r])
      /\ \/ /\ request'[r].kind = "delete" /\ request'[r].pc = "untarget"
            /\ request'[r].todo = {"repository", "logs"} /\ asked' = asked \cup {p}
         \/ request'[r].kind = "update" /\ asked' = asked
  <2>1. CASE Delete(r, p)
    <3>. DEFINE rec == [pc |-> "untarget", kind |-> "delete", project |-> p, inst |-> None,
                        todo |-> {"repository", "logs"}]
    <3>1. rec \in Serving
      BY DEF Serving, Kinds
    <3>2. /\ request' \in [Requests -> RequestState] /\ request'[r] = rec
          /\ made' \in 0..MaxRequests /\ \A s \in Requests \ {r} : request'[s] = request[s]
          /\ request[r].pc = "idle" /\ asked' = asked \cup {p}
      BY <2>1, <3>1, Accepted DEF Delete, Others, Accept, Is
    <3>3. ShapeOf(rec)
      BY DEF ShapeOf
    <3>. QED BY <3>2, <3>3
  <2>2. CASE Update(r, p)
    <3>. DEFINE rec == [pc |-> "save", kind |-> "update", project |-> p, inst |-> link[p], todo |-> {}]
    <3>1. rec \in Serving
      BY <1>1 DEF Serving, Kinds
    <3>2. /\ request' \in [Requests -> RequestState] /\ request'[r] = rec
          /\ made' \in 0..MaxRequests /\ \A s \in Requests \ {r} : request'[s] = request[s]
          /\ request[r].pc = "idle" /\ asked' = asked
      BY <2>2, <3>1, Accepted DEF Update, Others, Accept, Is
    <3>3. ShapeOf(rec)
      BY DEF ShapeOf
    <3>. QED BY <3>2, <3>3
  <2>. QED BY <2>1, <2>2
<1>3. UNCHANGED <<row, res, used, upset, link, pipelines>>
  BY DEF Delete, Update, rowVars
<1>4. UNCHANGED rowVars
  BY DEF Delete, Update
<1>5. TypeOK'
  BY <1>2, <1>3, <1>4 DEF TypeOK, InstallationsTypeOK, rowVars
<1>6. Shape'
  BY <1>2 DEF Shape
<1>7. Owned'
  BY <1>1, <1>2, <1>3 DEF Bundle, Owned, Of
<1>8. Known'
  BY <1>1, <1>2, <1>3 DEF Bundle, Known, Of
<1>9. Stocked'
  BY <1>2, <1>3 DEF Bundle, Stocked, Of, Lost
<1>10. LiveProjectsAreWhole'
  BY <1>2, <1>3 DEF Bundle, LiveProjectsAreWhole, Lost
<1>11. Sound'
  <2>1. ASSUME NEW q \in Projects, upset[q] \subseteq {"db"} PROVE WholeOrGone(q)'
    <3>1. \A s \in Requests \ {r} : /\ Removes(s, q)' <=> Removes(s, q)
                                    /\ Creates(s, q)' <=> Creates(s, q)
                                    /\ request'[s] = request[s]
      BY <1>2 DEF Removes, Creates, Serves
    <3>2. WholeOrGone(q) /\ ~Removes(r, q) /\ ~Creates(r, q)
      BY <1>2, <2>1 DEF Bundle, Sound, Removes, Creates, Serves
    <3>3. Removes(r, q)' => Left(request'[r]) = Wanted
      BY <1>2 DEF Removes, Left, Wanted, Resources, Rule
    <3>4. \A s \in Requests : Removes(s, q)' => res'[q] \subseteq Left(request'[s])
      BY <1>3, <3>1, <3>2, <3>3 DEF WholeOrGone
    <3>. QED BY <1>3, <3>1, <3>2, <3>4 DEF WholeOrGone
  <2>. QED BY <1>3, <2>1 DEF Sound
<1>. QED BY <1>5, <1>6, <1>7, <1>8, <1>9, <1>10, <1>11 DEF Bundle, IInv

(* A crash keeps it: every request under way upsets its project.                *)
LEMMA CrashKeeps ==
  ASSUME TypeOK, Shape, Bundle, Crash
  PROVE  IInv'
<1>1. /\ UNCHANGED <<row, res, used, asked>> /\ UNCHANGED rowVars /\ UNCHANGED countVars
      /\ \A r \in Requests : request'[r].pc = "idle"
      /\ request' \in [Requests -> RequestState]
  BY DEF Crash, rowVars, countVars, Idle, RequestState
<1>2. /\ upset' \in [Projects -> SUBSET Upsets]
      /\ \A p \in Projects : \/ upset'[p] = upset[p] /\ \A r \in Requests : ~Serves(r, p)
                             \/ upset'[p] = upset[p] \cup {"undo"} /\ \E r \in Requests : Serves(r, p)
  BY DEF Crash, TypeOK, Upsets
<1>3. TypeOK'
  BY <1>1, <1>2, AssembledRows DEF TypeOK
<1>4. Shape' /\ Owned' /\ Known'
  BY <1>1 DEF Bundle, Shape, Owned, Known
<1>5. Stocked'
  BY <1>1, <1>2 DEF Bundle, Stocked, Owned, Serves, Of
<1>6. LiveProjectsAreWhole'
  <2>1. /\ row \subseteq Projects
        /\ \A p \in Projects : /\ "db" \in upset[p] => "db" \in upset'[p]
                               /\ "target" \in upset[p] => "target" \in upset'[p]
    BY <1>2 DEF TypeOK
  <2>2. ASSUME NEW p \in row \ asked, "db" \notin upset'[p] PROVE Wanted \ Lost(p)' \subseteq res[p]
    <3>0. p \in Projects /\ "db" \notin upset[p]
      BY <2>1, <2>2
    <3>1. Lost(p) \subseteq Lost(p)'
      BY <2>1, <3>0 DEF Lost
    <3>2. Wanted \ Lost(p) \subseteq res[p]
      BY <2>2, <3>0 DEF Bundle, LiveProjectsAreWhole
    <3>. QED BY <3>1, <3>2
  <2>3. row' = row /\ asked' = asked /\ res' = res /\ Wanted' = Wanted
    BY <1>1 DEF Wanted
  <2>. QED BY <2>2, <2>3 DEF LiveProjectsAreWhole
<1>7. Sound'
  <2>1. ASSUME NEW p \in Projects, upset'[p] \subseteq {"db"} PROVE WholeOrGone(p)'
    <3>1. upset'[p] = upset[p] /\ \A r \in Requests : ~Serves(r, p)
      BY <1>2, <2>1
    <3>2. WholeOrGone(p)
      BY <2>1, <3>1 DEF Bundle, Sound
    <3>3. \A r \in Requests : ~Removes(r, p)'
      BY <1>1 DEF Removes, Serves
    <3>. QED BY <1>1, <3>1, <3>2, <3>3 DEF WholeOrGone, Removes, Creates
  <2>. QED BY <2>1 DEF Sound
<1>. QED BY <1>3, <1>4, <1>5, <1>6, <1>7 DEF Bundle, IInv

(* What leaves projects and requests alone keeps it.                            *)
LEMMA Unrelated ==
  ASSUME Shape, Bundle, UNCHANGED <<row, res, request, used, asked, upset>>
  PROVE  Shape' /\ Bundle'
<1>1. Shape' /\ Owned' /\ Known' /\ Stocked' /\ LiveProjectsAreWhole'
  BY DEF Bundle, Shape, Owned, Known, Stocked, LiveProjectsAreWhole, Lost, Of
<1>2. Sound'
  BY DEF Bundle, Sound, WholeOrGone, Removes, Creates, Serves
<1>. QED BY <1>1, <1>2 DEF Bundle

(* Every step of project requests keeps the invariant.                          *)
LEMMA ProjectsKeep ==
  ASSUME IInv, ProjectsNext
  PROVE  IInv'
<1>. USE DEF IInv
<1>1. ASSUME NEW r \in Requests, NEW p \in Projects, Delete(r, p) \/ Update(r, p) PROVE IInv'
  BY <1>1, RowOpens
<1>2. ASSUME NEW r \in Requests, NEW p \in Projects, NEW i \in Installations \cup {None},
             Create(r, p, i)
      PROVE  IInv'
  BY <1>2, CreateOpens
<1>3. ASSUME NEW r \in Requests, CreateStep(r) \/ RemoveStep(r) \/ SaveUpdate(r) PROVE IInv'
  BY <1>3, CreateEffect, RemoveEffect, UpdateEffect, EffectKeeps
<1>4. ASSUME NEW p \in Projects, CreatePipeline(p) PROVE IInv'
  <2>1. TypeOK'
    <3>1. UNCHANGED <<res, request, upset, link, row>> /\ pipelines' \subseteq Projects
      BY <1>4 DEF CreatePipeline, TypeOK
    <3>2. UNCHANGED webhookVars /\ UNCHANGED countVars
      BY <1>4 DEF CreatePipeline
    <3>. QED BY <3>1, <3>2, Assembled DEF TypeOK, InstallationsTypeOK
  <2>2. UNCHANGED <<row, res, request, used, asked, upset>>
    BY <1>4 DEF CreatePipeline, countVars
  <2>. QED BY <2>1, <2>2, Unrelated
<1>5. CASE Crash
  BY <1>5, CrashKeeps
<1>. QED BY <1>1, <1>2, <1>3, <1>4, <1>5 DEF ProjectsNext

(* A webhook GitHub sends is one more on its way.                               *)
LEMMA Delivered ==
  ASSUME InstallationsTypeOK, NEW action \in Actions, NEW i \in Installations, NEW u \in Users,
         Send(action, i, u)
  PROVE  /\ sent' \in 0..MaxEvents /\ mail' \subseteq Events
         /\ UNCHANGED <<webhook, users, apps, link, why>>
BY InstallationsAssumption DEF InstallationsTypeOK, Send, Events

(* A step of a webhook's handler keeps types.                                   *)
LEMMA HandledTyped ==
  ASSUME InstallationsTypeOK, NEW h \in Webhooks, Handle(h)
  PROVE  InstallationsTypeOK'
<1>1. /\ webhook[h].pc # "idle" /\ About(h) \in Installations
      /\ webhook[h] \in [pc : {"find", "user", "select", "insert", "update", "unlink", "delete"},
                         event : Events, user : Users \cup {None}]
  <2>1. webhook[h].pc # "idle"
    BY DEF Handle, FindApp, FindUser, SelectApp, InsertApp, UpdateApp, UnlinkProjects, DeleteApp,
       WebhookFails, At
  <2>. QED BY <2>1 DEF InstallationsTypeOK, WebhookState, IdleWebhook, Events, About
<1>2. /\ Answer(h) => webhook' \in [Webhooks -> WebhookState]
      /\ \A pc \in {"find", "user", "select", "insert", "update", "unlink", "delete"} :
           GoTo(h, pc) => webhook' \in [Webhooks -> WebhookState]
      /\ \A u \in Users : webhook' = [webhook EXCEPT ![h].pc = "select", ![h].user = u]
                            => webhook' \in [Webhooks -> WebhookState]
  <2>1. IdleWebhook \in WebhookState
    BY DEF WebhookState
  <2>2. \A pc \in {"find", "user", "select", "insert", "update", "unlink", "delete"} :
          [webhook[h] EXCEPT !.pc = pc] \in WebhookState
    BY <1>1 DEF WebhookState
  <2>3. \A u \in Users : [webhook[h] EXCEPT !.pc = "select", !.user = u] \in WebhookState
    BY <1>1 DEF WebhookState
  <2>. QED BY <2>1, <2>2, <2>3 DEF InstallationsTypeOK, Answer, GoTo
<1>3. \A reason \in Reasons : Because(h, reason) => why' \in [Installations -> SUBSET Reasons]
  BY <1>1 DEF InstallationsTypeOK, Because
<1>4. /\ webhook[h].user \in Users \cup {None}
      /\ \A u \in Users \cup {None} :
           [apps EXCEPT ![About(h)] = u] \in [Installations -> Users \cup {None}]
  BY <1>1 DEF InstallationsTypeOK
<1>5. UNCHANGED handlerVars /\ webhook' \in [Webhooks -> WebhookState]
      /\ apps' \in [Installations -> Users \cup {None}] /\ why' \in [Installations -> SUBSET Reasons]
  <2>1. CASE FindApp(h)
    BY <1>2, <2>1 DEF FindApp, InstallationsTypeOK
  <2>2. CASE FindUser(h)
    <3>1. Owner(webhook[h].event) \in Users \cup {None}
      BY <1>1 DEF Owner, InstallationsTypeOK, Events
    <3>. QED BY <1>2, <1>3, <2>2, <3>1 DEF FindUser, InstallationsTypeOK, Reasons
  <2>3. CASE SelectApp(h)
    BY <1>2, <2>3 DEF SelectApp, InstallationsTypeOK
  <2>4. CASE InsertApp(h)
    BY <1>1, <1>2, <1>4, <2>4 DEF InsertApp, InstallationsTypeOK
  <2>5. CASE UpdateApp(h)
    BY <1>1, <1>2, <1>4, <2>5 DEF UpdateApp, InstallationsTypeOK
  <2>6. CASE UnlinkProjects(h)
    BY <1>2, <2>6 DEF UnlinkProjects, InstallationsTypeOK
  <2>7. CASE DeleteApp(h)
    BY <1>2, <1>3, <1>4, <2>7 DEF DeleteApp, InstallationsTypeOK, Reasons
  <2>8. CASE WebhookFails(h)
    BY <1>2, <1>3, <2>8 DEF WebhookFails, InstallationsTypeOK, Reasons
  <2>. QED BY <2>1, <2>2, <2>3, <2>4, <2>5, <2>6, <2>7, <2>8 DEF Handle
<1>. QED BY <1>5 DEF InstallationsTypeOK, handlerVars

(* So does every step of GitHub and of its webhooks.                            *)
LEMMA WebhooksTyped ==
  ASSUME InstallationsTypeOK, InstallationsNext
  PROVE  InstallationsTypeOK'
<1>1. ASSUME NEW u \in Users, SignIn(u) PROVE InstallationsTypeOK'
  BY <1>1 DEF SignIn, InstallationsTypeOK
<1>2. ASSUME NEW i \in Installations, NEW u \in Users,
             Install(i, u) \/ ChangeRepositories(i, u) \/ Uninstall(i, u)
      PROVE  InstallationsTypeOK'
  <2>1. /\ sent' \in 0..MaxEvents /\ mail' \subseteq Events
        /\ UNCHANGED <<webhook, users, apps, link, why>>
    BY <1>2, Delivered DEF Install, ChangeRepositories, Uninstall, Actions
  <2>2. onGithub' \in [Installations -> [state : {"new", "installed", "uninstalled"},
                                         by : Users \cup {None}]]
    BY <1>2 DEF Install, ChangeRepositories, Uninstall, InstallationsTypeOK
  <2>. QED BY <2>1, <2>2 DEF InstallationsTypeOK
<1>3. ASSUME NEW e \in mail, Lose(e) PROVE InstallationsTypeOK'
  <2>1. e.inst \in Installations
    BY DEF InstallationsTypeOK, Events
  <2>. QED BY <1>3, <2>1 DEF Lose, InstallationsTypeOK, Reasons
<1>4. ASSUME NEW h \in Webhooks, Handle(h) PROVE InstallationsTypeOK'
  BY <1>4, HandledTyped
<1>5. ASSUME NEW h \in Webhooks, NEW e \in mail, Receive(h, e) PROVE InstallationsTypeOK'
  <2>1. e \in Events /\ e.inst \in Installations /\ e.action \in Actions
    BY DEF InstallationsTypeOK, Events
  <2>2. [pc |-> FirstStep(e.action), event |-> e, user |-> None] \in WebhookState
    BY <2>1 DEF WebhookState, FirstStep, Actions
  <2>3. /\ webhook' \in [Webhooks -> WebhookState] /\ mail' \subseteq Events
        /\ why' \in [Installations -> SUBSET Reasons]
    BY <1>5, <2>1, <2>2 DEF Receive, InstallationsTypeOK, Reasons
  <2>. QED BY <1>5, <2>3 DEF Receive, InstallationsTypeOK
<1>. QED BY <1>1, <1>2, <1>3, <1>4, <1>5 DEF InstallationsNext, GithubStep

(* The invariant holds at the start,                                            *)
THEOREM InitInv == Init => IInv
<1>. SUFFICES ASSUME Init PROVE IInv
  OBVIOUS
<1>. USE ProvisioningAssumption, InstallationsAssumption DEF Init, ProjectsInit, InstallationsInit
<1>1. InstallationsTypeOK
  BY DEF InstallationsTypeOK, WebhookState, IdleWebhook
<1>2. TypeOK
  BY <1>1 DEF TypeOK, RequestState, Idle
<1>3. \A r \in Requests : request[r].pc = "idle"
  BY DEF Idle
<1>4. Shape /\ Owned /\ Known
  BY <1>3 DEF Shape, Owned, Known
<1>5. Stocked /\ LiveProjectsAreWhole
  BY <1>3 DEF Stocked, LiveProjectsAreWhole
<1>6. Sound
  BY <1>3 DEF Sound, WholeOrGone, Removes, Serves
<1>. QED BY <1>2, <1>4, <1>5, <1>6 DEF IInv, Bundle

(* and every step of the system keeps it.                                       *)
THEOREM StepInv == IInv /\ [Next]_vars => IInv'
<1>. SUFFICES ASSUME IInv, [Next]_vars PROVE IInv'
  OBVIOUS
<1>1. CASE ProjectsNext
  BY <1>1, ProjectsKeep
<1>2. CASE InstallationsNext /\ UNCHANGED projectVars
  <2>1. InstallationsTypeOK'
    BY <1>2, WebhooksTyped DEF IInv, TypeOK
  <2>2. TypeOK' /\ UNCHANGED <<row, res, request, used, asked, upset>>
    BY <1>2, <2>1 DEF IInv, TypeOK, projectVars
  <2>. QED BY <2>2, Unrelated DEF IInv
<1>3. CASE UNCHANGED vars
  <2>1. UNCHANGED installationVars /\ UNCHANGED projectVars
    BY <1>3 DEF vars
  <2>2. TypeOK' /\ UNCHANGED <<row, res, request, used, asked, upset>>
    BY <2>1 DEF IInv, TypeOK, InstallationsTypeOK, installationVars, projectVars
  <2>. QED BY <2>2, Unrelated DEF IInv
<1>. QED BY <1>1, <1>2, <1>3 DEF Next

(* Every variable always has its type.                                          *)
THEOREM TypeCorrect == Spec => []TypeOK
<1>. QED BY InitInv, StepInv, PTL DEF Spec, IInv

(* A project with a row nobody asked to delete has every resource createProject *)
(* makes, unless its row was written and refused at once: no rollback or deletion *)
(* of another request, and no crash, takes a resource of a live project.        *)
THEOREM LiveWhole == Spec => []LiveProjectsAreWhole
<1>1. IInv => LiveProjectsAreWhole
  BY DEF IInv, Bundle
<1>. QED BY <1>1, InitInv, StepInv, PTL DEF Spec

(* Once no request serves it, a project that no failed AWS call and no crash    *)
(* disturbed has all of its resources and a row, or none: the rollback of a     *)
(* refused save and a deletion leave nothing behind, whatever overlapped.       *)
THEOREM Torn == Spec => []NothingTorn
<1>1. IInv => NothingTorn
  BY DEF IInv, Bundle, Sound, WholeOrGone, NothingTorn, Quiet, Removes, Creates
<1>. QED BY <1>1, InitInv, StepInv, PTL DEF Spec

--------------------------------------------------------------------------------
(* The rows of installations.                                                   *)

(* A webhook of this action about the installation is on its way, or handled.   *)
Mailed(i, action) == \E e \in mail : e.inst = i /\ e.action = action
Handled(h, i, action) == Handling(h, i) /\ webhook[h].event.action = action

(* Webhooks on their way were sent; a handler is where its action leads.        *)
Letters ==
  /\ \A e \in mail : e.n <= sent
  /\ \A h \in Webhooks : webhook[h].pc # "idle" =>
       /\ webhook[h].event.n <= sent
       /\ webhook[h].event.action = "deleted" <=> webhook[h].pc \in {"unlink", "delete"}
       /\ webhook[h].pc \in {"select", "insert", "update"} => webhook[h].user # None

(* "deleted" is the last of an installation, and one.                           *)
LastIsDeleted(i) ==
  /\ onGithub[i].state = "new" => Told(i) /\ apps[i] = None
  /\ onGithub[i].state # "uninstalled" =>
       ~Mailed(i, "deleted") /\ \A h \in Webhooks : ~Handled(h, i, "deleted")
  /\ \A d \in mail : d.inst = i /\ d.action = "deleted" =>
       /\ \A f \in mail : f.inst = i => f = d \/ f.n < d.n
       /\ \A h \in Webhooks : Handling(h, i) => webhook[h].event.n < d.n /\ ~Handled(h, i, "deleted")
  /\ \A h, g \in Webhooks : Handled(h, i, "deleted") /\ Handled(g, i, "deleted") => h = g

(* What is true of the row while nothing excuses it.                            *)
Settled(i) ==
  /\ \A h \in Webhooks : Handled(h, i, "deleted") =>
       /\ \A e \in mail : e.inst # i
       /\ \A g \in Webhooks : Handling(g, i) => g = h
  /\ \A h \in Webhooks : Handling(h, i) /\ webhook[h].pc = "update" => apps[i] # None
  /\ onGithub[i].state = "installed" =>
       apps[i] # None \/ Mailed(i, "created") \/ \E h \in Webhooks : Handled(h, i, "created")
  /\ onGithub[i].state = "uninstalled" =>
       \/ Mailed(i, "deleted") \/ \E h \in Webhooks : Handled(h, i, "deleted")
       \/ Told(i) /\ apps[i] = None

(* The invariant of one installation,                                           *)
RowOf(i) == LastIsDeleted(i) /\ (why[i] = {} => Settled(i))

(* and of all of them, with the webhooks about them.                            *)
Rows == Letters /\ \A i \in Installations : RowOf(i)

(* Only the handler h moves, and it touches only the row of its installation.   *)
Moves(h) ==
  /\ webhook[h].pc # "idle" /\ About(h) \in Installations
  /\ \A g \in Webhooks \ {h} : webhook'[g] = webhook[g]
  /\ webhook'[h].pc # "idle" =>
       /\ webhook'[h].event = webhook[h].event
       /\ webhook'[h].pc \in {"unlink", "delete"} <=> webhook[h].pc \in {"unlink", "delete"}
       /\ webhook'[h].pc \in {"select", "insert", "update"} => webhook'[h].user # None
  /\ UNCHANGED <<onGithub, sent, mail>>
  /\ \A j \in Installations \ {About(h)} : apps'[j] = apps[j] /\ why'[j] = why[j]
  /\ why[About(h)] \subseteq why'[About(h)]

(* What its step does to that row, unless it gives a reason.                    *)
Keeps(h, i) ==
  /\ apps[i] # None => apps'[i] # None \/ Handled(h, i, "deleted")
  /\ Handled(h, i, "created") => apps'[i] # None \/ webhook'[h].pc # "idle"
  /\ Handled(h, i, "deleted") => apps'[i] = None \/ webhook'[h].pc # "idle"
  /\ webhook'[h].pc = "update" => apps'[i] # None

(* Every step of a handler moves so.                                            *)
LEMMA HandlerMoves ==
  ASSUME InstallationsTypeOK, Letters, NEW h \in Webhooks, Handle(h)
  PROVE  /\ Moves(h)
         /\ why'[About(h)] = {} /\ Settled(About(h)) => Keeps(h, About(h))
<1>1. /\ webhook[h] \in [pc : {"find", "user", "select", "insert", "update", "unlink", "delete"},
                         event : Events, user : Users \cup {None}]
      /\ webhook[h].pc # "idle"
      /\ webhook[h].event \in Events /\ About(h) \in Installations
  BY DEF InstallationsTypeOK, WebhookState, IdleWebhook, Handle, At, FindApp, FindUser, SelectApp,
         InsertApp, UpdateApp, UnlinkProjects, DeleteApp, WebhookFails, About, Events
<1>2. UNCHANGED <<onGithub, sent, mail>>
  BY DEF Handle, FindApp, FindUser, SelectApp, InsertApp, UpdateApp, UnlinkProjects, DeleteApp,
         WebhookFails, handlerVars
<1>3. /\ webhook[h].event.action = "deleted" <=> webhook[h].pc \in {"unlink", "delete"}
      /\ webhook[h].pc \in {"select", "insert", "update"} => webhook[h].user # None
  BY <1>1 DEF Letters
<1>4. ASSUME Answer(h)
      PROVE  webhook'[h].pc = "idle" /\ \A g \in Webhooks \ {h} : webhook'[g] = webhook[g]
  BY <1>4 DEF Answer, InstallationsTypeOK, IdleWebhook
<1>5. ASSUME NEW pc, pc # "idle", GoTo(h, pc)
      PROVE  /\ webhook'[h].pc = pc /\ webhook'[h].event = webhook[h].event
             /\ webhook'[h].user = webhook[h].user
             /\ \A g \in Webhooks \ {h} : webhook'[g] = webhook[g]
  BY <1>1, <1>5 DEF GoTo, InstallationsTypeOK
<1>6. ASSUME NEW reason, Because(h, reason)
      PROVE  /\ why'[About(h)] = why[About(h)] \cup {reason} /\ why'[About(h)] # {}
             /\ \A j \in Installations \ {About(h)} : why'[j] = why[j]
  BY <1>1, <1>6 DEF Because, InstallationsTypeOK
<1>7. Handling(h, About(h))
  BY <1>1 DEF Handling, About
<1>8. CASE FindApp(h)
  <2>1. webhook[h].pc = "find" /\ UNCHANGED <<apps, why>>
    BY <1>8 DEF FindApp, At
  <2>2. CASE apps[About(h)] # None
    BY <1>1, <1>2, <1>3, <1>4, <1>8, <2>1, <2>2 DEF FindApp, Moves, Keeps, Handled
  <2>3. CASE apps[About(h)] = None
    BY <1>1, <1>2, <1>3, <1>5, <1>8, <2>1, <2>3 DEF FindApp, Moves, Keeps, Handled
  <2>. QED BY <2>2, <2>3
<1>9. CASE FindUser(h)
  <2>1. webhook[h].pc = "user" /\ UNCHANGED apps
    BY <1>9 DEF FindUser, At
  <2>2. CASE Answer(h) /\ Because(h, "unknown")
    BY <1>1, <1>2, <1>3, <1>4, <1>6, <2>1, <2>2 DEF Moves
  <2>3. CASE /\ Owner(webhook[h].event) # None /\ UNCHANGED why
             /\ webhook' = [webhook EXCEPT ![h].pc = "select", ![h].user = Owner(webhook[h].event)]
    <3>1. /\ webhook'[h].pc = "select" /\ webhook'[h].event = webhook[h].event
          /\ webhook'[h].user # None
          /\ \A g \in Webhooks \ {h} : webhook'[g] = webhook[g]
      BY <1>1, <2>3 DEF InstallationsTypeOK
    <3>. QED BY <1>1, <1>2, <1>3, <2>1, <2>3, <3>1 DEF Moves, Keeps, Handled
  <2>. QED BY <1>9, <2>2, <2>3 DEF FindUser
<1>10. CASE SelectApp(h)
  <2>1. webhook[h].pc = "select" /\ UNCHANGED <<apps, why>>
    BY <1>10 DEF SelectApp, At
  <2>2. CASE apps[About(h)] # None
    BY <1>1, <1>2, <1>3, <1>5, <1>10, <2>1, <2>2 DEF SelectApp, Moves, Keeps, Handled
  <2>3. CASE apps[About(h)] = None
    BY <1>1, <1>2, <1>3, <1>5, <1>10, <2>1, <2>3 DEF SelectApp, Moves, Keeps, Handled
  <2>. QED BY <2>2, <2>3
<1>11. CASE InsertApp(h)
  <2>1. webhook[h].pc = "insert" /\ UNCHANGED why
    BY <1>11 DEF InsertApp, At
  <2>2. /\ apps'[About(h)] # None
        /\ \A j \in Installations \ {About(h)} : apps'[j] = apps[j]
    BY <1>1, <1>3, <1>11, <2>1 DEF InsertApp, InstallationsTypeOK
  <2>. QED BY <1>1, <1>2, <1>3, <1>4, <1>11, <2>1, <2>2 DEF InsertApp, Moves, Keeps, Handled
<1>12. CASE UpdateApp(h)
  <2>1. webhook[h].pc = "update" /\ UNCHANGED why
    BY <1>12 DEF UpdateApp, At
  <2>2. /\ apps[About(h)] # None => apps'[About(h)] # None
        /\ \A j \in Installations \ {About(h)} : apps'[j] = apps[j]
    BY <1>1, <1>3, <1>12, <2>1 DEF UpdateApp, InstallationsTypeOK
  <2>3. Settled(About(h)) => apps[About(h)] # None
    BY <1>7, <2>1 DEF Settled
  <2>. QED BY <1>1, <1>2, <1>3, <1>4, <1>12, <2>1, <2>2, <2>3 DEF UpdateApp, Moves, Keeps, Handled
<1>13. CASE UnlinkProjects(h)
  <2>1. webhook[h].pc = "unlink" /\ UNCHANGED <<apps, why>>
    BY <1>13 DEF UnlinkProjects, At
  <2>. QED BY <1>1, <1>2, <1>3, <1>5, <1>13, <2>1 DEF UnlinkProjects, Moves, Keeps, Handled
<1>14. CASE DeleteApp(h)
  <2>1. webhook[h].pc = "delete" /\ Answer(h)
    BY <1>14 DEF DeleteApp, At
  <2>2. CASE UNCHANGED apps /\ Because(h, "linked")
    BY <1>1, <1>2, <1>3, <1>4, <1>6, <2>1, <2>2 DEF Moves
  <2>3. CASE apps' = [apps EXCEPT ![About(h)] = None] /\ UNCHANGED why
    <3>1. /\ apps'[About(h)] = None
          /\ \A j \in Installations \ {About(h)} : apps'[j] = apps[j]
      BY <1>1, <2>3 DEF InstallationsTypeOK
    <3>. QED BY <1>1, <1>2, <1>3, <1>4, <1>7, <2>1, <2>3, <3>1 DEF Moves, Keeps, Handled
  <2>. QED BY <1>14, <2>2, <2>3 DEF DeleteApp
<1>15. CASE WebhookFails(h)
  BY <1>1, <1>2, <1>3, <1>4, <1>6, <1>15 DEF WebhookFails, Moves
<1>. QED BY <1>8, <1>9, <1>10, <1>11, <1>12, <1>13, <1>14, <1>15 DEF Handle

(* So it keeps the invariant of the rows.                                       *)
LEMMA HandlerKeepsRows ==
  ASSUME InstallationsTypeOK, Rows, NEW h \in Webhooks, Handle(h)
  PROVE  Rows'
<1>0. PICK k \in Installations : k = About(h)
  BY HandlerMoves DEF Rows, Moves
<1>1. /\ Moves(h) /\ k = About(h) /\ (why'[k] = {} /\ Settled(k) => Keeps(h, k))
      /\ Letters /\ \A i \in Installations : RowOf(i)
  BY <1>0, HandlerMoves DEF Rows
<1>2. Letters'
  BY <1>1 DEF Letters, Moves
<1>3. ASSUME NEW i \in Installations, NEW g \in Webhooks
      PROVE  /\ Handling(g, i)' => /\ Handling(g, i) /\ webhook'[g].event = webhook[g].event
                                   /\ g # h => webhook'[g] = webhook[g]
             /\ Handling(g, i) /\ g # h => Handling(g, i)'
  BY <1>1 DEF Handling, Moves
<1>4. ASSUME NEW i \in Installations, NEW g \in Webhooks, NEW action
      PROVE  Handled(g, i, action)' => Handled(g, i, action)
  BY <1>3 DEF Handled
<1>5. \A i \in Installations : Told(i) => i # k
  BY <1>1 DEF Told, Handling, About, Moves
<1>6. ASSUME NEW i \in Installations
      PROVE  LastIsDeleted(i)'
  <2>1. LastIsDeleted(i)
    BY <1>1 DEF RowOf
  <2>2. onGithub'[i].state = "new" => Told(i)' /\ apps'[i] = None
    BY <1>1, <1>3, <1>5, <2>1 DEF LastIsDeleted, Told, Moves
  <2>3. onGithub'[i].state # "uninstalled" =>
          ~Mailed(i, "deleted")' /\ \A g \in Webhooks : ~Handled(g, i, "deleted")'
    BY <1>1, <1>4, <2>1 DEF LastIsDeleted, Mailed, Moves
  <2>4. \A d \in mail' : d.inst = i /\ d.action = "deleted" =>
          /\ \A f \in mail' : f.inst = i => f = d \/ f.n < d.n
          /\ \A g \in Webhooks :
               Handling(g, i)' => webhook'[g].event.n < d.n /\ ~Handled(g, i, "deleted")'
    BY <1>1, <1>3, <1>4, <2>1 DEF LastIsDeleted, Moves
  <2>5. \A f, g \in Webhooks : Handled(f, i, "deleted")' /\ Handled(g, i, "deleted")' => f = g
    BY <1>4, <2>1 DEF LastIsDeleted
  <2>. QED BY <2>2, <2>3, <2>4, <2>5 DEF LastIsDeleted
<1>7. ASSUME NEW i \in Installations \ {k}, why'[i] = {}
      PROVE  Settled(i)'
  <2>1. Settled(i) /\ apps'[i] = apps[i] /\ UNCHANGED <<onGithub, mail>>
    BY <1>1, <1>7 DEF RowOf, Moves
  <2>2. \A g \in Webhooks : Handling(g, i)' <=> Handling(g, i)
    BY <1>1, <1>3 DEF Handling, About, Moves
  <2>3. \A g \in Webhooks : Handling(g, i) => g # h /\ webhook'[g] = webhook[g]
    BY <1>1 DEF Handling, About, Moves
  <2>. QED BY <2>1, <2>2, <2>3 DEF Settled, Told, Mailed, Handled
<1>8. ASSUME why'[k] = {}
      PROVE  Settled(k)'
  <2>1. /\ why[k] = {} /\ k \in Installations /\ Settled(k) /\ Keeps(h, k) /\ LastIsDeleted(k)
        /\ Handling(h, k) /\ UNCHANGED <<onGithub, mail>>
    BY <1>1, <1>8 DEF RowOf, Moves, Handling, About
  <2>2. \A f \in Webhooks : Handled(f, k, "deleted")' =>
          /\ \A e \in mail' : e.inst # k
          /\ \A g \in Webhooks : Handling(g, k)' => g = f
    BY <1>3, <1>4, <2>1 DEF Settled
  <2>3. ASSUME NEW g \in Webhooks, Handling(g, k)', webhook'[g].pc = "update"
        PROVE  apps'[k] # None
    <3>1. CASE g = h
      BY <2>1, <2>3, <3>1 DEF Keeps
    <3>2. CASE g # h
      BY <1>3, <2>1, <2>3, <3>2 DEF Settled, Keeps
    <3>. QED BY <3>1, <3>2
  <2>4. ASSUME onGithub'[k].state = "installed"
        PROVE  apps'[k] # None \/ Mailed(k, "created")' \/ \E g \in Webhooks : Handled(g, k, "created")'
    <3>1. ~Handled(h, k, "deleted")
      BY <2>1, <2>4 DEF LastIsDeleted, Handling, About
    <3>2. CASE apps[k] # None
      BY <2>1, <3>1, <3>2 DEF Keeps
    <3>3. CASE Mailed(k, "created")
      BY <2>1, <3>3 DEF Mailed
    <3>4. ASSUME NEW g \in Webhooks, Handled(g, k, "created")
          PROVE  apps'[k] # None \/ Handled(g, k, "created")'
      <4>1. CASE g = h
        BY <1>1, <2>1, <3>4, <4>1 DEF Keeps, Moves, Handled, Handling
      <4>2. CASE g # h
        BY <1>1, <3>4, <4>2 DEF Moves, Handled, Handling
      <4>. QED BY <4>1, <4>2
    <3>. QED BY <2>1, <2>4, <3>2, <3>3, <3>4 DEF Settled
  <2>5. ASSUME onGithub'[k].state = "uninstalled"
        PROVE  \/ Mailed(k, "deleted")' \/ \E g \in Webhooks : Handled(g, k, "deleted")'
               \/ Told(k)' /\ apps'[k] = None
    <3>1. CASE Mailed(k, "deleted")
      BY <2>1, <3>1 DEF Mailed
    <3>2. ASSUME NEW g \in Webhooks, Handled(g, k, "deleted")
          PROVE  Handled(g, k, "deleted")' \/ (Told(k)' /\ apps'[k] = None)
      <4>1. g = h /\ \A e \in mail : e.inst # k
        BY <2>1, <3>2 DEF Settled
      <4>2. \A f \in Webhooks : Handling(f, k) => f = h
        BY <2>1, <3>2, <4>1 DEF Settled
      <4>3. CASE webhook'[h].pc # "idle"
        <5>1. Handled(h, k, "deleted")'
          BY <1>1, <2>1, <3>2, <4>1, <4>3 DEF Moves, Handled, Handling
        <5>. QED BY <4>1, <5>1
      <4>4. CASE webhook'[h].pc = "idle"
        <5>1. \A f \in Webhooks : ~Handling(f, k)'
          BY <1>3, <2>1, <4>2, <4>4 DEF Handling
        <5>. QED BY <2>1, <3>2, <4>1, <4>4, <5>1 DEF Keeps, Told
      <4>. QED BY <4>3, <4>4
    <3>. QED BY <1>5, <2>1, <2>5, <3>1, <3>2 DEF Settled
  <2>. QED BY <2>2, <2>3, <2>4, <2>5 DEF Settled
<1>. QED BY <1>2, <1>6, <1>7, <1>8 DEF Rows, RowOf

(* A webhook GitHub sends keeps it: what happened before is sent before.        *)
LEMMA SentKeepsRows ==
  ASSUME InstallationsTypeOK, Rows, NEW i \in Installations, NEW u \in Users,
         Install(i, u) \/ ChangeRepositories(i, u) \/ Uninstall(i, u)
  PROVE  Rows'
<1>1. PICK action \in Actions :
        /\ Send(action, i, u)
        /\ action = "created" => onGithub[i].state = "new" /\ onGithub'[i].state = "installed"
        /\ action = "repositories" =>
             onGithub[i].state = "installed" /\ onGithub'[i].state = "installed"
        /\ action = "deleted" =>
             onGithub[i].state = "installed" /\ onGithub'[i].state = "uninstalled"
        /\ \A j \in Installations \ {i} : onGithub'[j] = onGithub[j]
  <2>. USE DEF Actions
  <2>1. CASE Install(i, u)
    <3>. WITNESS "created" \in Actions
    <3>. QED BY <2>1 DEF Install, InstallationsTypeOK
  <2>2. CASE ChangeRepositories(i, u)
    <3>. WITNESS "repositories" \in Actions
    <3>. QED BY <2>2 DEF ChangeRepositories
  <2>3. CASE Uninstall(i, u)
    <3>. WITNESS "deleted" \in Actions
    <3>. QED BY <2>3 DEF Uninstall, InstallationsTypeOK
  <2>. QED BY <2>1, <2>2, <2>3
<1>. DEFINE new == [n |-> sent + 1, action |-> action, inst |-> i, sender |-> u]
<1>2. /\ sent \in Nat /\ sent' = sent + 1 /\ mail' = mail \cup {new}
      /\ new \in mail' /\ new.inst = i /\ new.action = action
      /\ UNCHANGED <<webhook, apps, why>>
  BY <1>1 DEF Send, InstallationsTypeOK
<1>3. \A e \in mail : e.n \in Nat /\ e.n <= sent
  BY DEF Rows, Letters, InstallationsTypeOK, Events
<1>4. ASSUME NEW h \in Webhooks, webhook[h].pc # "idle"
      PROVE  webhook[h].event.n \in Nat /\ webhook[h].event.n <= sent
  BY <1>4 DEF Rows, Letters, InstallationsTypeOK, WebhookState, IdleWebhook, Events
<1>5. Letters'
  BY <1>2, <1>3, <1>4 DEF Rows, Letters
<1>6. ASSUME NEW j \in Installations, NEW h \in Webhooks, NEW a
      PROVE  /\ Handling(h, j)' <=> Handling(h, j)
             /\ Handled(h, j, a)' <=> Handled(h, j, a)
             /\ Mailed(j, a)' <=> Mailed(j, a) \/ (j = i /\ a = action)
  BY <1>2 DEF Handling, Handled, Mailed
<1>7. ASSUME NEW j \in Installations \ {i}
      PROVE  RowOf(j)'
  <2>1. Told(j)' <=> Told(j)
    BY <1>2 DEF Told, Handling
  <2>2. RowOf(j) /\ onGithub'[j] = onGithub[j] /\ \A e \in mail' : e.inst = j => e \in mail
    BY <1>1, <1>2 DEF Rows
  <2>3. LastIsDeleted(j)'
    BY <1>2, <1>6, <2>1, <2>2 DEF RowOf, LastIsDeleted, Mailed, Handled, Handling
  <2>4. Settled(j) => Settled(j)'
    BY <1>2, <2>1, <2>2 DEF Settled, Mailed, Handled, Handling
  <2>. QED BY <1>2, <2>2, <2>3, <2>4 DEF RowOf
<1>8. LastIsDeleted(i) /\ onGithub[i].state # "uninstalled" /\ (why[i] = {} => Settled(i))
  BY <1>1 DEF Rows, RowOf, Actions
<1>9. ~Mailed(i, "deleted") /\ \A h \in Webhooks : ~Handled(h, i, "deleted")
  BY <1>8 DEF LastIsDeleted
<1>10. LastIsDeleted(i)'
  <2>1. onGithub'[i].state # "new"
    BY <1>1 DEF Actions
  <2>2. onGithub'[i].state # "uninstalled" =>
          ~Mailed(i, "deleted")' /\ \A h \in Webhooks : ~Handled(h, i, "deleted")'
    BY <1>1, <1>2, <1>9 DEF Mailed, Handled, Handling, Actions
  <2>3. ASSUME NEW d \in mail', d.inst = i, d.action = "deleted"
        PROVE  /\ \A f \in mail' : f.inst = i => f = d \/ f.n < d.n
               /\ \A h \in Webhooks :
                    Handling(h, i)' => webhook'[h].event.n < d.n /\ ~Handled(h, i, "deleted")'
    <3>1. d = new
      BY <1>2, <1>9, <2>3 DEF Mailed
    <3>2. \A f \in mail' : f.inst = i => f = d \/ f.n < d.n
      BY <1>2, <1>3, <3>1
    <3>3. ASSUME NEW h \in Webhooks, Handling(h, i)'
          PROVE  webhook'[h].event.n < d.n /\ ~Handled(h, i, "deleted")'
      <4>1. webhook[h].pc # "idle" /\ webhook'[h] = webhook[h]
        BY <1>2, <3>3 DEF Handling
      <4>. QED BY <1>2, <1>4, <1>9, <3>1, <4>1 DEF Handled, Handling
    <3>. QED BY <3>2, <3>3
  <2>4. \A h, g \in Webhooks : Handled(h, i, "deleted")' /\ Handled(g, i, "deleted")' => h = g
    BY <1>2, <1>9 DEF Handled, Handling
  <2>. QED BY <2>1, <2>2, <2>3, <2>4 DEF LastIsDeleted
<1>11. ASSUME why'[i] = {}
       PROVE  Settled(i)'
  <2>1. Settled(i) /\ (onGithub[i].state = "new" => Told(i) /\ apps[i] = None)
    BY <1>2, <1>8, <1>11 DEF LastIsDeleted
  <2>2. \A h \in Webhooks : ~Handled(h, i, "deleted")'
    BY <1>2, <1>9 DEF Handled, Handling
  <2>3. \A h \in Webhooks : Handling(h, i)' /\ webhook'[h].pc = "update" => apps'[i] # None
    BY <1>2, <2>1 DEF Settled, Handling
  <2>4. onGithub'[i].state = "installed" =>
          apps'[i] # None \/ Mailed(i, "created")' \/ \E h \in Webhooks : Handled(h, i, "created")'
    <3>1. CASE action = "created"
      BY <1>2, <3>1 DEF Mailed
    <3>2. CASE action = "repositories"
      BY <1>1, <1>2, <2>1, <3>2 DEF Settled, Mailed, Handled, Handling
    <3>. QED BY <1>1, <3>1, <3>2 DEF Actions
  <2>5. onGithub'[i].state = "uninstalled" => Mailed(i, "deleted")'
    BY <1>1, <1>2 DEF Mailed, Actions
  <2>. QED BY <2>2, <2>3, <2>4, <2>5 DEF Settled
<1>. QED BY <1>5, <1>7, <1>10, <1>11 DEF Rows, RowOf

(* A lost webhook is a reason.                                                  *)
LEMMA LostKeepsRows ==
  ASSUME InstallationsTypeOK, Rows, NEW e \in mail, Lose(e)
  PROVE  Rows'
<1>1. /\ mail' = mail \ {e} /\ UNCHANGED <<onGithub, sent, webhook, apps>>
      /\ e.inst \in Installations /\ why'[e.inst] # {}
      /\ \A j \in Installations \ {e.inst} : why'[j] = why[j]
  BY DEF Lose, InstallationsTypeOK, Events
<1>2. Letters'
  BY <1>1 DEF Rows, Letters
<1>3. ASSUME NEW j \in Installations
      PROVE  RowOf(j)'
  <2>1. RowOf(j)
    BY DEF Rows
  <2>2. LastIsDeleted(j)'
    BY <1>1, <2>1 DEF RowOf, LastIsDeleted, Told, Mailed, Handled, Handling
  <2>3. ASSUME why'[j] = {}
        PROVE  Settled(j)'
    <3>1. j # e.inst /\ Settled(j)
      BY <1>1, <2>1, <2>3 DEF RowOf
    <3>. QED BY <1>1, <3>1 DEF Settled, Told, Mailed, Handled, Handling
  <2>. QED BY <2>2, <2>3 DEF RowOf
<1>. QED BY <1>2, <1>3 DEF Rows

(* A webhook that is received keeps it, or overtakes another.                   *)
LEMMA ReceivedKeepsRows ==
  ASSUME InstallationsTypeOK, Rows, NEW h \in Webhooks, NEW e \in mail, Receive(h, e)
  PROVE  Rows'
<1>. DEFINE k == e.inst
<1>1. /\ mail' = mail \ {e} /\ UNCHANGED <<onGithub, sent, apps>>
      /\ e \in Events /\ k \in Installations
      /\ webhook[h].pc = "idle"
      /\ webhook'[h] = [pc |-> FirstStep(e.action), event |-> e, user |-> None]
      /\ \A g \in Webhooks \ {h} : webhook'[g] = webhook[g]
  BY DEF Receive, InstallationsTypeOK, Events
<1>2. /\ why'[k] = {} => why[k] = {} /\ (e.action = "deleted" => ~Overtakes(e))
      /\ \A j \in Installations \ {k} : why'[j] = why[j]
  BY <1>1 DEF Receive, InstallationsTypeOK
<1>3. /\ webhook'[h].pc \in {"find", "user", "unlink"} /\ webhook'[h].event = e
      /\ webhook'[h].pc \in {"unlink", "delete"} <=> e.action = "deleted"
  BY <1>1 DEF FirstStep, Events, Actions
<1>4. Letters'
  BY <1>1, <1>3 DEF Rows, Letters
<1>5. ASSUME NEW g \in Webhooks, NEW i \in Installations
      PROVE  /\ Handling(g, i)' <=> (IF g = h THEN i = k ELSE Handling(g, i))
             /\ \A a : Handled(g, i, a)' <=>
                  (IF g = h THEN i = k /\ a = e.action ELSE Handled(g, i, a))
  BY <1>1, <1>3 DEF Handling, Handled
<1>6. ASSUME NEW i \in Installations \ {k}
      PROVE  RowOf(i)'
  <2>1. RowOf(i) /\ why'[i] = why[i]
    BY <1>2 DEF Rows
  <2>2. \A g \in Webhooks : /\ Handling(g, i)' <=> Handling(g, i)
                            /\ Handling(g, i) => webhook'[g] = webhook[g]
    BY <1>1, <1>5 DEF Handling
  <2>3. /\ \A f \in mail' : f.inst = i => f \in mail
        /\ \A f \in mail : f.inst = i => f \in mail'
    BY <1>1
  <2>4. LastIsDeleted(i)'
    BY <1>1, <2>1, <2>2, <2>3 DEF RowOf, LastIsDeleted, Told, Mailed, Handled
  <2>5. Settled(i) => Settled(i)'
    BY <1>1, <2>2, <2>3 DEF Settled, Told, Mailed, Handled
  <2>. QED BY <2>1, <2>4, <2>5 DEF RowOf
<1>7. LastIsDeleted(k) /\ (why[k] = {} => Settled(k)) /\ ~Told(k)
  BY <1>1 DEF Rows, RowOf, Told
<1>8. e.action = "deleted" =>
        /\ \A f \in mail' : f.inst = k => f.n < e.n /\ f.action # "deleted"
        /\ \A g \in Webhooks : Handling(g, k) =>
             webhook[g].event.n < e.n /\ ~Handled(g, k, "deleted")
  <2>1. \A f \in mail : f.n \in Nat
    BY DEF InstallationsTypeOK, Events
  <2>. QED BY <1>1, <1>7, <2>1 DEF LastIsDeleted
<1>9. LastIsDeleted(k)'
  <2>1. onGithub'[k].state # "new"
    BY <1>1, <1>7 DEF LastIsDeleted
  <2>2. onGithub'[k].state # "uninstalled" =>
          ~Mailed(k, "deleted")' /\ \A g \in Webhooks : ~Handled(g, k, "deleted")'
    BY <1>1, <1>5, <1>7 DEF LastIsDeleted, Mailed
  <2>3. ASSUME NEW d \in mail', d.inst = k, d.action = "deleted"
        PROVE  /\ \A f \in mail' : f.inst = k => f = d \/ f.n < d.n
               /\ \A g \in Webhooks :
                    Handling(g, k)' => webhook'[g].event.n < d.n /\ ~Handled(g, k, "deleted")'
    <3>1. d \in mail /\ d # e /\ e.action # "deleted" /\ e.n < d.n
      BY <1>1, <1>7, <1>8, <2>3 DEF LastIsDeleted
    <3>2. /\ \A f \in mail : f.inst = k => f = d \/ f.n < d.n
          /\ \A g \in Webhooks :
               Handling(g, k) => webhook[g].event.n < d.n /\ ~Handled(g, k, "deleted")
      BY <1>7, <2>3, <3>1 DEF LastIsDeleted
    <3>. QED BY <1>1, <1>3, <1>5, <3>1, <3>2
  <2>4. \A f, g \in Webhooks : Handled(f, k, "deleted")' /\ Handled(g, k, "deleted")' => f = g
    <3>1. \A g \in Webhooks : Handled(g, k, "deleted") => Handling(g, k)
      BY DEF Handled
    <3>2. e.action = "deleted" => \A g \in Webhooks : ~Handled(g, k, "deleted")
      BY <1>8, <3>1
    <3>3. ASSUME NEW f \in Webhooks, NEW g \in Webhooks,
                 Handled(f, k, "deleted")', Handled(g, k, "deleted")'
          PROVE  f = g
      <4>1. CASE e.action = "deleted"
        BY <1>1, <1>5, <3>2, <3>3, <4>1
      <4>2. CASE e.action # "deleted"
        <5>1. f # h /\ g # h
          BY <1>1, <1>5, <3>3, <4>2
        <5>. QED BY <1>1, <1>5, <1>7, <3>3, <5>1 DEF LastIsDeleted
      <4>. QED BY <4>1, <4>2
    <3>. QED BY <3>3
  <2>. QED BY <2>1, <2>2, <2>3, <2>4 DEF LastIsDeleted
<1>10. ASSUME why'[k] = {}
       PROVE  Settled(k)'
  <2>1. Settled(k) /\ (e.action = "deleted" => ~Overtakes(e))
    BY <1>2, <1>7, <1>10
  <2>2. ASSUME NEW f \in Webhooks, Handled(f, k, "deleted")'
        PROVE  /\ \A d \in mail' : d.inst # k
               /\ \A g \in Webhooks : Handling(g, k)' => g = f
    <3>1. f = h /\ e.action = "deleted"
      BY <1>1, <1>5, <2>1, <2>2 DEF Settled
    <3>. QED BY <1>1, <1>5, <1>8, <2>1, <3>1 DEF Overtakes
  <2>3. \A g \in Webhooks : Handling(g, k)' /\ webhook'[g].pc = "update" => apps'[k] # None
    BY <1>1, <1>3, <1>5, <2>1 DEF Settled
  <2>4. onGithub'[k].state = "installed" =>
          apps'[k] # None \/ Mailed(k, "created")' \/ \E g \in Webhooks : Handled(g, k, "created")'
    <3>1. Mailed(k, "created") => Mailed(k, "created")' \/ Handled(h, k, "created")'
      BY <1>1, <1>5 DEF Mailed
    <3>2. \A g \in Webhooks : Handled(g, k, "created") => Handled(g, k, "created")'
      BY <1>1, <1>5 DEF Handled, Handling
    <3>. QED BY <1>1, <2>1, <3>1, <3>2 DEF Settled
  <2>5. onGithub'[k].state = "uninstalled" =>
          Mailed(k, "deleted")' \/ \E g \in Webhooks : Handled(g, k, "deleted")'
    <3>1. Mailed(k, "deleted") => Mailed(k, "deleted")' \/ Handled(h, k, "deleted")'
      BY <1>1, <1>5 DEF Mailed
    <3>2. \A g \in Webhooks : Handled(g, k, "deleted") => Handled(g, k, "deleted")'
      BY <1>1, <1>5 DEF Handled, Handling
    <3>. QED BY <1>1, <1>7, <2>1, <3>1, <3>2 DEF Settled
  <2>. QED BY <2>2, <2>3, <2>4, <2>5 DEF Settled
<1>. QED BY <1>4, <1>6, <1>9, <1>10 DEF Rows, RowOf

(* What leaves rows and webhooks alone keeps it.                                *)
LEMMA SameRows ==
  ASSUME Rows, UNCHANGED <<onGithub, sent, mail, webhook, apps, why>>
  PROVE  Rows'
BY DEF Rows, Letters, RowOf, LastIsDeleted, Settled, Told, Mailed, Handled, Handling

(* So every step of GitHub and of its webhooks keeps it.                        *)
LEMMA RowsKept ==
  ASSUME InstallationsTypeOK, Rows, InstallationsNext
  PROVE  Rows'
<1>1. ASSUME NEW u \in Users, SignIn(u) PROVE Rows'
  BY <1>1, SameRows DEF SignIn
<1>2. ASSUME NEW i \in Installations, NEW u \in Users,
             Install(i, u) \/ ChangeRepositories(i, u) \/ Uninstall(i, u)
      PROVE  Rows'
  BY <1>2, SentKeepsRows
<1>3. ASSUME NEW e \in mail, Lose(e) PROVE Rows'
  BY <1>3, LostKeepsRows
<1>4. ASSUME NEW h \in Webhooks, Handle(h) PROVE Rows'
  BY <1>4, HandlerKeepsRows
<1>5. ASSUME NEW h \in Webhooks, NEW e \in mail, Receive(h, e) PROVE Rows'
  BY <1>5, ReceivedKeepsRows
<1>. QED BY <1>1, <1>2, <1>3, <1>4, <1>5 DEF InstallationsNext, GithubStep

(* So the row of an installation whose webhooks are all handled, with nothing to *)
(* excuse it, is what GitHub says.                                              *)
LEMMA RowsAgree ==
  ASSUME InstallationsTypeOK, Rows
  PROVE  TableAgrees
<1>. SUFFICES ASSUME NEW i \in Installations, Told(i), why[i] = {}
              PROVE  apps[i] # None <=> onGithub[i].state = "installed"
  BY DEF TableAgrees
<1>1. RowOf(i) /\ Settled(i) /\ onGithub[i].state \in {"new", "installed", "uninstalled"}
  BY DEF Rows, RowOf, InstallationsTypeOK
<1>. QED BY <1>1 DEF RowOf, LastIsDeleted, Settled, Told, Mailed, Handled

(* Requests about projects leave the rows of installations alone.               *)
LEMMA ProjectsLeaveRows ==
  ASSUME ProjectsNext
  PROVE  UNCHANGED <<onGithub, sent, mail, webhook, apps, why>>
<1>. USE DEF rowVars, webhookVars
<1>1. ASSUME NEW r \in Requests, NEW p \in Projects, Delete(r, p) \/ Update(r, p)
      PROVE  UNCHANGED webhookVars
  BY <1>1 DEF Delete, Update
<1>2. ASSUME NEW r \in Requests, NEW p \in Projects, NEW i \in Installations \cup {None}, Create(r, p, i)
      PROVE  UNCHANGED webhookVars
  BY <1>2 DEF Create
<1>3. ASSUME NEW r \in Requests, CreateStep(r) PROVE UNCHANGED webhookVars
  BY <1>3 DEF CreateStep, CreateRepository, CreateLogGroup, CreateBuildProject, PutRule, PutTargets, TargetNotPut,
              AddPermission, Make, CreationFails, PermissionFails, SaveProject, SaveRefused, SaveFails
<1>4. ASSUME NEW r \in Requests, RemoveStep(r) PROVE UNCHANGED webhookVars
  BY <1>4 DEF RemoveStep, RemoveTargets, RemovePermission, DeleteRule, DeleteBuildProject,
              DeleteRepository, DeleteLogGroup, RemovalFails, DeletePipelines, DeleteRow, RowsFail
<1>5. ASSUME NEW r \in Requests, SaveUpdate(r) PROVE UNCHANGED webhookVars
  BY <1>5 DEF SaveUpdate
<1>6. ASSUME NEW p \in Projects, CreatePipeline(p) PROVE UNCHANGED webhookVars
  BY <1>6 DEF CreatePipeline
<1>7. CASE Crash
  BY <1>7 DEF Crash
<1>. QED BY <1>1, <1>2, <1>3, <1>4, <1>5, <1>6, <1>7 DEF ProjectsNext

(* Whatever webhooks overlapped, an installation whose webhooks are all handled *)
(* has a GithubApp row exactly when it is installed, unless a webhook failed or was *)
(* lost, its user was unknown, "deleted" overtook another, or a project kept it. *)
THEOREM Agrees == Spec => []TableAgrees
<1>1. Init => Rows
  <2>. SUFFICES ASSUME InstallationsInit PROVE Rows
    BY DEF Init
  <2>1. /\ mail = {} /\ sent = 0 /\ apps = [i \in Installations |-> None]
        /\ onGithub = [i \in Installations |-> [state |-> "new", by |-> None]]
        /\ \A h \in Webhooks : webhook[h].pc = "idle"
    BY DEF InstallationsInit, IdleWebhook
  <2>. QED BY <2>1 DEF Rows, Letters, RowOf, LastIsDeleted, Settled, Told, Mailed, Handled, Handling
<1>2. ASSUME Rows, TypeOK, [Next]_vars
      PROVE  Rows'
  <2>1. CASE ProjectsNext
    BY <1>2, <2>1, ProjectsLeaveRows, SameRows
  <2>2. CASE InstallationsNext
    BY <1>2, <2>2, RowsKept DEF TypeOK
  <2>3. CASE UNCHANGED vars
    BY <1>2, <2>3, SameRows DEF vars, installationVars
  <2>. QED BY <1>2, <2>1, <2>2, <2>3 DEF Next
<1>3. TypeOK /\ Rows => TableAgrees
  BY RowsAgree DEF TypeOK
<1>. QED BY <1>1, <1>2, <1>3, TypeCorrect, PTL DEF Spec
================================================================================
