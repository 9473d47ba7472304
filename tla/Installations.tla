----------------------------- MODULE Installations -----------------------------
(***************************************************************************)
(* GitHub App installations: what GitHub says in webhooks, and the rows    *)
(* GithubWebhookService keeps of it.  GitHub delivers a webhook at most    *)
(* once, in no particular order, and retries nothing: an answer of 400 is  *)
(* the end of it.                                                          *)
(*                                                                         *)
(* Login names do not change here, so the lookups by name that follow a    *)
(* failed lookup by id find nobody either.                                 *)
(***************************************************************************)
EXTENDS Naturals

CONSTANTS
  Users,          \* GitHub accounts of people
  Installations,
  Personal,       \* installations on a person's own account
  Projects,
  Webhooks,       \* webhook requests the backend serves at once
  MaxEvents,      \* bound: webhooks GitHub sends
  None

ASSUME InstallationsAssumption ==
  /\ Personal \subseteq Installations
  /\ MaxEvents \in Nat
  /\ None \notin Users \cup Installations

VARIABLES
  onGithub,   \* GitHub's view: "new", "installed" or "uninstalled", and who installed it
  sent,       \* how many webhooks GitHub sent
  mail,       \* webhooks on their way
  webhook,    \* what each request is at
  users,      \* GitHub accounts with a User row
  apps,       \* the user of each GithubApp row, None where there is no row
  link,       \* project.installation_id
  why         \* why a row may disagree with GitHub

installationVars == <<onGithub, sent, mail, webhook, users, apps, link, why>>

Actions == {"created", "deleted", "repositories"}
Events  == [n : 1..MaxEvents, action : Actions, inst : Installations, sender : Users]
Reasons == {"failed", "unknown", "overtaken", "linked"}

IdleWebhook == [pc |-> "idle", event |-> None, user |-> None]
WebhookState == {IdleWebhook} \cup
  [pc : {"find", "user", "select", "insert", "update", "unlink", "delete"},
   event : Events, user : Users \cup {None}]

InstallationsInit ==
  /\ onGithub = [i \in Installations |-> [state |-> "new", by |-> None]]
  /\ sent     = 0
  /\ mail     = {}
  /\ webhook  = [h \in Webhooks |-> IdleWebhook]
  /\ users    = {}
  /\ apps     = [i \in Installations |-> None]
  /\ link     = [p \in Projects |-> None]
  /\ why      = [i \in Installations |-> {}]

-----------------------------------------------------------------------------
(* GitHub and the people on it.                                            *)

(* A first sign-in inserts the User row; later ones find it.               *)
SignIn(u) ==
  /\ u \notin users
  /\ users' = users \cup {u}
  /\ UNCHANGED <<onGithub, sent, mail, webhook, apps, link, why>>

Send(action, i, u) ==
  /\ sent < MaxEvents
  /\ sent' = sent + 1
  /\ mail' = mail \cup {[n |-> sent + 1, action |-> action, inst |-> i, sender |-> u]}
  /\ UNCHANGED <<webhook, users, apps, link, why>>

Install(i, u) ==
  /\ onGithub[i].state = "new"
  /\ onGithub' = [onGithub EXCEPT ![i] = [state |-> "installed", by |-> u]]
  /\ Send("created", i, u)

ChangeRepositories(i, u) ==
  /\ onGithub[i].state = "installed"
  /\ UNCHANGED onGithub
  /\ Send("repositories", i, u)

Uninstall(i, u) ==
  /\ onGithub[i].state = "installed"
  /\ onGithub' = [onGithub EXCEPT ![i].state = "uninstalled"]
  /\ Send("deleted", i, u)

(* A webhook that reaches no backend is not sent again.                    *)
Lose(e) ==
  /\ e \in mail
  /\ mail' = mail \ {e}
  /\ why' = [why EXCEPT ![e.inst] = @ \cup {"failed"}]
  /\ UNCHANGED <<onGithub, sent, webhook, users, apps, link>>

-----------------------------------------------------------------------------
(* The webhook's handlers.                                                 *)

Handling(h, i) == webhook[h].pc # "idle" /\ webhook[h].event.inst = i

(* An earlier webhook about the same installation is still to be handled.  *)
Overtakes(e) ==
  \/ \E f \in mail : f.inst = e.inst /\ f.n < e.n
  \/ \E h \in Webhooks : Handling(h, e.inst) /\ webhook[h].event.n < e.n

FirstStep(action) == CASE action = "created"      -> "user"
                       [] action = "repositories" -> "find"
                       [] action = "deleted"      -> "unlink"

Receive(h, e) ==
  /\ webhook[h].pc = "idle" /\ e \in mail
  /\ mail' = mail \ {e}
  /\ webhook' = [webhook EXCEPT ![h] = [pc |-> FirstStep(e.action), event |-> e, user |-> None]]
  /\ why' = IF e.action = "deleted" /\ Overtakes(e)
            THEN [why EXCEPT ![e.inst] = @ \cup {"overtaken"}] ELSE why
  /\ UNCHANGED <<onGithub, sent, users, apps, link>>

At(h, pc)    == webhook[h].pc = pc
About(h)     == webhook[h].event.inst
GoTo(h, pc)  == webhook' = [webhook EXCEPT ![h].pc = pc]
Answer(h)    == webhook' = [webhook EXCEPT ![h] = IdleWebhook]
Because(h, reason) == why' = [why EXCEPT ![About(h)] = @ \cup {reason}]
handlerVars == <<onGithub, sent, mail, users, link>>

(* ensureGithubAppRecord: a row that exists is left as it is.              *)
FindApp(h) ==
  /\ At(h, "find")
  /\ IF apps[About(h)] # None THEN Answer(h) ELSE GoTo(h, "user")
  /\ UNCHANGED <<apps, why, handlerVars>>

(* The Otto user of a person's own account is that person; of an           *)
(* organization, whoever caused the webhook.                               *)
Owner(e) == LET who == IF e.inst \in Personal THEN onGithub[e.inst].by ELSE e.sender
            IN IF who \in users THEN who ELSE None

(* "User must login to Otto first": nothing is stored, and the webhook is  *)
(* answered like any other.                                                *)
FindUser(h) ==
  /\ At(h, "user")
  /\ LET u == Owner(webhook[h].event) IN
       IF u = None THEN Answer(h) /\ Because(h, "unknown")
       ELSE webhook' = [webhook EXCEPT ![h].pc = "select", ![h].user = u] /\ UNCHANGED why
  /\ UNCHANGED <<apps, handlerVars>>

(* save() selects the row by its key to tell an update from an insert; so  *)
(* what the handler itself found before makes no difference.               *)
SelectApp(h) ==
  /\ At(h, "select")
  /\ GoTo(h, IF apps[About(h)] = None THEN "insert" ELSE "update")
  /\ UNCHANGED <<apps, why, handlerVars>>

(* A row inserted since violates the primary key: 400.                     *)
InsertApp(h) ==
  /\ At(h, "insert")
  /\ apps' = [apps EXCEPT ![About(h)] = IF @ = None THEN webhook[h].user ELSE @]
  /\ Answer(h)
  /\ UNCHANGED <<why, handlerVars>>

(* A row deleted since is not updated.                                     *)
UpdateApp(h) ==
  /\ At(h, "update")
  /\ apps' = [apps EXCEPT ![About(h)] = IF @ = None THEN @ ELSE webhook[h].user]
  /\ Answer(h)
  /\ UNCHANGED <<why, handlerVars>>

(* Nothing to unlink, nothing to delete. *)
UnlinkStops(h) ==
  /\ At(h, "unlink")
  /\ IF \E p \in Projects : link[p] = About(h) THEN GoTo(h, "delete") ELSE Answer(h)
  /\ UNCHANGED <<apps, why, handlerVars>>

(* update({installationId}, {installationId: undefined}) sets no column    *)
(* but updatedAt: TypeORM leaves out what is undefined.                    *)
UnlinkProjects(h) ==
  /\ At(h, "unlink")
  /\ GoTo(h, "delete")
  /\ UNCHANGED <<apps, why, handlerVars>>

(* A row some project refers to cannot be deleted: 400.                    *)
DeleteApp(h) ==
  /\ At(h, "delete")
  /\ IF \E p \in Projects : link[p] = About(h)
     THEN UNCHANGED apps /\ Because(h, "linked")
     ELSE apps' = [apps EXCEPT ![About(h)] = None] /\ UNCHANGED why
  /\ Answer(h)
  /\ UNCHANGED handlerVars

(* The database fails, or the backend stops: the webhook is gone.          *)
WebhookFails(h) ==
  /\ ~At(h, "idle")
  /\ Answer(h) /\ Because(h, "failed")
  /\ UNCHANGED <<apps, handlerVars>>

Handle(h) ==
  \/ FindApp(h) \/ FindUser(h) \/ SelectApp(h) \/ InsertApp(h) \/ UpdateApp(h)
  \/ UnlinkProjects(h) \/ DeleteApp(h) \/ WebhookFails(h)

GithubStep ==
  \/ \E u \in Users : SignIn(u)
  \/ \E i \in Installations, u \in Users :
       Install(i, u) \/ ChangeRepositories(i, u) \/ Uninstall(i, u)
  \/ \E e \in mail : Lose(e)

InstallationsNext ==
  \/ GithubStep
  \/ \E h \in Webhooks : Handle(h) \/ \E e \in mail : Receive(h, e)

-----------------------------------------------------------------------------
InstallationsTypeOK ==
  /\ onGithub \in [Installations -> [state : {"new", "installed", "uninstalled"}, by : Users \cup {None}]]
  /\ sent \in 0..MaxEvents
  /\ mail \subseteq Events
  /\ webhook \in [Webhooks -> WebhookState]
  /\ users \subseteq Users
  /\ apps \in [Installations -> Users \cup {None}]
  /\ link \in [Projects -> Installations \cup {None}]
  /\ why \in [Installations -> SUBSET Reasons]

(* No webhook about i is on its way or being handled.                      *)
Told(i) == /\ \A e \in mail : e.inst # i
           /\ \A h \in Webhooks : ~Handling(h, i)

(* Once everything GitHub said about an installation is handled there is a *)
(* row exactly when it is installed, whatever overlapped, unless one of    *)
(* the named reasons holds: a webhook failed or got lost, its user was     *)
(* unknown, "deleted" overtook another, or a project holds the row.        *)
TableAgrees ==
  \A i \in Installations :
    Told(i) /\ why[i] = {} => (apps[i] # None <=> onGithub[i].state = "installed")

(* "Cleaned up data for deleted installation": once everything is handled, *)
(* in order and without failure, an uninstalled installation has no row.   *)
UninstalledIsForgotten ==
  \A i \in Installations :
    Told(i) /\ why[i] \subseteq {"unknown", "linked"} /\ onGithub[i].state = "uninstalled"
      => apps[i] = None
=============================================================================
