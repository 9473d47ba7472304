------------------------------- MODULE Sessions -------------------------------
(***************************************************************************)
(* Signing in, rotating the refresh token and signing out: AuthService     *)
(* against the cookie of each browser.  Requests of one browser overlap    *)
(* (tabs share the cookie), every statement is a step of its own, and      *)
(* answers arrive in any order.                                            *)
(***************************************************************************)
EXTENDS Naturals

CONSTANTS
  Accounts,   \* GitHub accounts
  Browsers,
  Person,     \* the account signed in to GitHub in each browser
  Tokens,     \* refresh tokens there are to issue; a bound
  Requests,   \* requests under way at once
  MaxFaults,  \* bound: failing statements, failing GitHub calls and lost answers
  None

ASSUME SessionsAssumption ==
  /\ Person \in [Browsers -> Accounts]
  /\ MaxFaults \in Nat
  /\ None \notin Tokens

VARIABLES
  userRows,  \* how many User rows each account has
  token,     \* the state of each token's row
  owner,     \* whose token it is
  expired,   \* tokens past their expiresAt
  aged,      \* tokens revoked more than an hour ago
  jar,       \* the refresh_token cookie of each browser
  request,   \* what each request is at
  upset,     \* browsers a request of which failed halfway or got no answer
  faults

vars == <<userRows, token, owner, expired, aged, jar, request, upset, faults>>

TokenStates == {"unissued", "live", "revoked", "deleted"}
Idle == [pc |-> "idle", kind |-> None, browser |-> None, sent |-> None, late |-> FALSE, new |-> None]
RequestState == {Idle} \cup
  [pc : {"github", "findUser", "insertUser", "updateUser", "find", "revoke", "expire",
         "issue", "clean", "answer"},
   kind : {"login", "refresh", "logout"}, browser : Browsers,
   sent : Tokens \cup {None}, late : BOOLEAN, new : Tokens \cup {None}]

Init ==
  /\ userRows = [a \in Accounts |-> 0]
  /\ token    = [t \in Tokens |-> "unissued"]
  /\ owner    = [t \in Tokens |-> None]
  /\ expired  = {}
  /\ aged     = {}
  /\ jar      = [b \in Browsers |-> None]
  /\ request  = [r \in Requests |-> Idle]
  /\ upset    = {}
  /\ faults   = 0

At(r, kind, pc) == request[r].kind = kind /\ request[r].pc = pc
Goto(r, pc)     == request' = [request EXCEPT ![r].pc = pc]
End(r)          == request' = [request EXCEPT ![r] = Idle]
Of(r)           == request[r].browser
Sent(r)         == request[r].sent
Account(r)      == Person[Of(r)]
clockVars       == <<expired, faults>>

-----------------------------------------------------------------------------
(* The browser sends its cookie; without one /auth/refresh answers 401.    *)
(* A request is late when its token was used up before it was sent.        *)

Dead(t) == t \in Tokens /\ token[t] \in {"revoked", "deleted"}

Ask(r, b, kind, pc) ==
  /\ request[r] = Idle
  /\ request' = [request EXCEPT ![r] = [pc |-> pc, kind |-> kind, browser |-> b,
                                        sent |-> jar[b], late |-> Dead(jar[b]), new |-> None]]
  /\ UNCHANGED <<userRows, token, owner, aged, jar, upset, clockVars>>

AskLogin(r, b)   == Ask(r, b, "login", "github")
AskRefresh(r, b) == jar[b] # None /\ Ask(r, b, "refresh", "find")
AskLogout(r, b)  == Ask(r, b, "logout", "find")

-----------------------------------------------------------------------------
(* authenticateWithGithub, createOrUpdateGithubUser.                       *)

tokenVars == <<token, owner, aged, jar, upset, clockVars>>

AskGithub(r) ==
  /\ At(r, "login", "github") /\ Goto(r, "findUser")
  /\ UNCHANGED <<userRows, tokenVars>>

(* No token, or no user: 401, and the cookie stays as it is.               *)
GithubRefuses(r) ==
  /\ At(r, "login", "github") /\ End(r)
  /\ UNCHANGED <<userRows, tokenVars>>

FindUser(r) ==
  /\ At(r, "login", "findUser")
  /\ Goto(r, IF userRows[Account(r)] = 0 THEN "insertUser" ELSE "updateUser")
  /\ UNCHANGED <<userRows, tokenVars>>

(* The account inserted again. *)
InsertUserAgain(r) ==
  /\ At(r, "login", "insertUser")
  /\ userRows' = [userRows EXCEPT ![Account(r)] = @ + 1] /\ Goto(r, "issue")
  /\ UNCHANGED tokenVars

(* githubId is unique: a sign-in that finds the account inserted meanwhile *)
(* fails.                                                                  *)
InsertUser(r) ==
  /\ At(r, "login", "insertUser")
  /\ IF userRows[Account(r)] = 0
     THEN userRows' = [userRows EXCEPT ![Account(r)] = 1] /\ Goto(r, "issue")
     ELSE End(r) /\ UNCHANGED userRows
  /\ UNCHANGED tokenVars

UpdateUser(r) ==
  /\ At(r, "login", "updateUser") /\ Goto(r, "issue")
  /\ UNCHANGED <<userRows, tokenVars>>

(* A login and a refresh end alike: a new token is stored, and its cookie  *)
(* set with the answer.                                                    *)
Issue(r) ==
  /\ request[r].pc = "issue"
  /\ \E t \in Tokens :
       /\ token[t] = "unissued"
       /\ token' = [token EXCEPT ![t] = "live"]
       /\ owner' = [owner EXCEPT ![t] = Account(r)]
       /\ request' = [request EXCEPT ![r].new = t,
                        ![r].pc = IF request[r].kind = "login" THEN "answer" ELSE "clean"]
  /\ UNCHANGED <<userRows, aged, jar, upset, clockVars>>

-----------------------------------------------------------------------------
(* loginByRefresh.                                                         *)

rest == <<userRows, owner, jar, upset, clockVars>>

(* Whatever its row says. *)
FindAnyToken(r) ==
  /\ At(r, "refresh", "find")
  /\ Goto(r, IF Sent(r) \in expired THEN "expire" ELSE "revoke")
  /\ UNCHANGED <<token, aged, rest>>

FindToken(r) ==
  /\ At(r, "refresh", "find")
  /\ IF token[Sent(r)] # "live" THEN End(r)
     ELSE Goto(r, IF Sent(r) \in expired THEN "expire" ELSE "revoke")
  /\ UNCHANGED <<token, aged, rest>>

(* save() of the loaded entity: a row revoked meanwhile is revoked already.*)
SaveRevoked(t) == token' = [token EXCEPT ![t] = "revoked"]

RevokeExpired(r) ==
  /\ At(r, "refresh", "expire")
  /\ SaveRevoked(Sent(r)) /\ End(r)
  /\ UNCHANGED <<aged, rest>>

Revoke(r) ==
  /\ At(r, "refresh", "revoke")
  /\ SaveRevoked(Sent(r)) /\ Goto(r, "issue")
  /\ UNCHANGED <<aged, rest>>

(* Every token of the account but the new one. *)
CleanAll(r) ==
  /\ At(r, "refresh", "clean")
  /\ token' = [t \in Tokens |-> IF owner[t] = Account(r) /\ t # request[r].new
                                 THEN "deleted" ELSE token[t]]
  /\ aged' = {}
  /\ Goto(r, "answer")
  /\ UNCHANGED rest

(* Every refresh deletes the tokens, anybody's, revoked over an hour ago.  *)
Clean(r) ==
  /\ At(r, "refresh", "clean")
  /\ token' = [t \in Tokens |-> IF t \in aged THEN "deleted" ELSE token[t]]
  /\ aged' = {}
  /\ Goto(r, "answer")
  /\ UNCHANGED rest

-----------------------------------------------------------------------------
(* logout.                                                                 *)

LogoutFind(r) ==
  /\ At(r, "logout", "find")
  /\ Goto(r, IF Sent(r) \in Tokens /\ token[Sent(r)] \in {"live", "revoked"}
             THEN "revoke" ELSE "answer")
  /\ UNCHANGED <<token, aged, rest>>

LogoutRevoke(r) ==
  /\ At(r, "logout", "revoke")
  /\ SaveRevoked(Sent(r)) /\ Goto(r, "answer")
  /\ UNCHANGED <<aged, rest>>

-----------------------------------------------------------------------------
(* The answer reaches the browser and sets or clears its cookie.           *)
Answer(r) ==
  /\ request[r].pc = "answer"
  /\ jar' = [jar EXCEPT ![Of(r)] = request[r].new]
  /\ End(r)
  /\ UNCHANGED <<userRows, token, owner, aged, upset, clockVars>>

(* A statement fails: 500 and no cookie changes, what was done before      *)
(* stays done.  A logout answers as if nothing had happened.               *)
Fails(r) ==
  /\ request[r].pc \notin {"idle", "answer"} /\ faults < MaxFaults
  /\ IF request[r].kind = "logout" THEN Goto(r, "answer") ELSE End(r)
  /\ faults' = faults + 1
  /\ upset' = upset \cup {Of(r)}
  /\ UNCHANGED <<userRows, token, owner, expired, aged, jar>>

LoseAnswer(r) ==
  /\ request[r].pc = "answer" /\ faults < MaxFaults
  /\ End(r)
  /\ faults' = faults + 1
  /\ upset' = upset \cup {Of(r)}
  /\ UNCHANGED <<userRows, token, owner, expired, aged, jar>>

(* Two weeks pass for a token.                                             *)
Expire(t) ==
  /\ token[t] # "unissued" /\ t \notin expired
  /\ expired' = expired \cup {t}
  /\ UNCHANGED <<userRows, token, owner, aged, jar, request, upset, faults>>

(* The browser drops a cookie that is two weeks old.                       *)
DropCookie(b) ==
  /\ jar[b] \in expired
  /\ jar' = [jar EXCEPT ![b] = None]
  /\ UNCHANGED <<userRows, token, owner, expired, aged, request, upset, faults>>

(* An hour passes after a token was revoked; no request lasts as long.     *)
Age(t) ==
  /\ token[t] = "revoked" /\ t \notin aged
  /\ \A r \in Requests : Sent(r) # t
  /\ aged' = aged \cup {t}
  /\ UNCHANGED <<userRows, token, owner, expired, jar, request, upset, faults>>

-----------------------------------------------------------------------------
Serve(r) ==
  \/ AskGithub(r) \/ GithubRefuses(r) \/ FindUser(r) \/ InsertUser(r) \/ UpdateUser(r)
  \/ Issue(r) \/ FindToken(r) \/ RevokeExpired(r) \/ Revoke(r) \/ Clean(r)
  \/ LogoutFind(r) \/ LogoutRevoke(r) \/ Answer(r) \/ Fails(r) \/ LoseAnswer(r)

Next ==
  \/ \E r \in Requests :
       Serve(r) \/ \E b \in Browsers : AskLogin(r, b) \/ AskRefresh(r, b) \/ AskLogout(r, b)
  \/ \E t \in Tokens : Expire(t) \/ Age(t)
  \/ \E b \in Browsers : DropCookie(b)

Spec == Init /\ [][Next]_vars

-----------------------------------------------------------------------------
TypeOK ==
  /\ userRows \in [Accounts -> Nat]
  /\ token \in [Tokens -> TokenStates]
  /\ owner \in [Tokens -> Accounts \cup {None}]
  /\ expired \subseteq Tokens /\ aged \subseteq Tokens
  /\ jar \in [Browsers -> Tokens \cup {None}]
  /\ request \in [Requests -> RequestState]
  /\ upset \subseteq Browsers
  /\ faults \in 0..MaxFaults

Quiet(b) == \A r \in Requests : request[r] = Idle \/ Of(r) # b

(* With nothing under way a browser's cookie, if it has one, is a token    *)
(* that refreshes or has expired: overlapping refreshes, sign-ins and      *)
(* sign-outs, in whatever order they are answered, never leave it with a   *)
(* token somebody revoked or the clean-up deleted, unless a statement      *)
(* failed or an answer was lost.                                           *)
CookiesWork ==
  \A b \in Browsers : Quiet(b) /\ b \notin upset =>
    jar[b] = None \/ token[jar[b]] = "live" \/ jar[b] \in expired

(* First sign-ins of one account at once leave one User row, and whoever   *)
(* lost the race has no session: each live token is of an account with     *)
(* exactly one row.                                                        *)
SessionsHaveOneUser ==
  \A t \in Tokens : token[t] = "live" => userRows[owner[t]] = 1

(* Rotation: whoever presents a token after it was exchanged, signed out   *)
(* or found expired gets no new one for it; only refreshes that were all   *)
(* sent before can succeed together.                                       *)
LateRefreshesFail ==
  \A r \in Requests : request[r].kind = "refresh" /\ request[r].late => request[r].new = None

(* "Rotation with grace period": a refresh is not refused because another  *)
(* one of the same browser exchanged the same token a moment before.       *)
GraceHonoured ==
  \A r, s \in Requests :
    At(r, "refresh", "find") /\ r # s /\ Of(r) = Of(s) /\ Sent(r) = Sent(s)
      /\ request[s].kind = "refresh" => token[Sent(r)] = "live" \/ Sent(r) \in expired
=============================================================================
