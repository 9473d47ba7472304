---------------------------- MODULE Sessions_proofs ----------------------------
(* Proofs about module Sessions, for any number of people, browsers, tokens,    *)
(* requests and faults: refreshes sent too late get nothing (LateFail), an      *)
(* account of a live session has one row (OneUserEach), and a browser left in   *)
(* peace holds a cookie that works (CookiesHold).                               *)
(*                                                                              *)
(* The argument: tokens are handed out one by one and known to one browser      *)
(* only (Held, Apart), so that only its own requests revoke the token in its    *)
(* jar, and each that does still owes it an answer (Hope).                      *)
EXTENDS Sessions, TLAPS

(* The token a request has issued and not answered with yet.                    *)
New(r) == request[r].new

(* Whoever holds a token, in a cookie or in a request, has one that was issued  *)
(* to its account; one not answered yet is live.                                *)
Held ==
  /\ \A b \in Browsers : jar[b] \in Tokens =>
       token[jar[b]] # "unissued" /\ owner[jar[b]] = Person[b]
  /\ \A r \in Requests : Sent(r) \in Tokens =>
       token[Sent(r)] # "unissued" /\ owner[Sent(r)] = Account(r)
  /\ \A r \in Requests : New(r) \in Tokens =>
       token[New(r)] = "live" /\ owner[New(r)] = Account(r)

(* What a request holds depends on where it is.                                 *)
Placed ==
  \A r \in Requests : request[r].pc # "idle" =>
    /\ request[r].kind = "refresh" => Sent(r) \in Tokens
    /\ request[r].pc \in {"revoke", "expire"} => Sent(r) \in Tokens
    /\ request[r].pc = "expire" => request[r].kind = "refresh" /\ Sent(r) \in expired
    /\ request[r].pc \notin {"clean", "answer"} \/ request[r].kind = "logout" => New(r) = None

(* No two browsers hold one token.                                              *)
Apart ==
  /\ \A b, c \in Browsers : jar[b] = jar[c] /\ jar[b] \in Tokens => b = c
  /\ \A r \in Requests, b \in Browsers : Sent(r) = jar[b] /\ jar[b] \in Tokens => Of(r) = b
  /\ \A r, s \in Requests : Sent(r) = Sent(s) /\ Sent(r) \in Tokens => Of(r) = Of(s)
  /\ \A r \in Requests, b \in Browsers : New(r) \in Tokens => New(r) # jar[b]
  /\ \A r, s \in Requests : New(r) \in Tokens => New(r) # Sent(s)
  /\ \A r, s \in Requests : New(r) \in Tokens /\ New(r) = New(s) => r = s

(* An account has one row as soon as a request of it is past finding it.        *)
OneUser ==
  /\ \A a \in Accounts : userRows[a] \in {0, 1}
  /\ \A r \in Requests : /\ request[r].pc \in {"updateUser", "revoke", "issue"}
                          /\ request[r].kind # "logout"
                         => userRows[Account(r)] = 1

(* A token that is used up stays so, and a refresh sent too late goes no        *)
(* further than its look at the token.                                          *)
Lateness ==
  /\ \A t \in aged : Dead(t)
  /\ \A r \in Requests : request[r].late =>
       /\ Dead(Sent(r))
       /\ request[r].kind = "refresh" => request[r].pc = "find" /\ New(r) = None

(* The request will answer its browser with a cookie that works, or none.       *)
Promises(r) ==
  \/ request[r].kind = "refresh" /\ request[r].pc \in {"issue", "clean", "answer"}
  \/ request[r].kind = "logout" /\ request[r].pc = "answer"

Hope ==
  \A b \in Browsers :
    \/ jar[b] = None \/ token[jar[b]] = "live" \/ jar[b] \in expired \/ b \in upset
    \/ \E r \in Requests : Of(r) = b /\ Promises(r)
--------------------------------------------------------------------------------
(* Every step keeps the types.                                                  *)
LEMMA TypeStep ==
  ASSUME TypeOK, Placed, Next
  PROVE  TypeOK'
<1>. USE SessionsAssumption DEF TypeOK, RequestState, TokenStates, Idle, Placed, Of, Sent, New, Account
<1>1. ASSUME NEW r \in Requests, Serve(r) PROVE TypeOK'
  <2>1. CASE AskGithub(r)
    BY <2>1 DEF AskGithub, At, Goto, tokenVars, clockVars
  <2>2. CASE GithubRefuses(r)
    BY <2>2 DEF GithubRefuses, At, End, tokenVars, clockVars
  <2>3. CASE FindUser(r)
    BY <2>3 DEF FindUser, At, Goto, tokenVars, clockVars
  <2>4. CASE InsertUser(r)
    BY <2>4 DEF InsertUser, At, Goto, End, tokenVars, clockVars
  <2>5. CASE UpdateUser(r)
    BY <2>5 DEF UpdateUser, At, Goto, tokenVars, clockVars
  <2>6. CASE Issue(r)
    BY <2>6 DEF Issue, clockVars
  <2>7. CASE FindToken(r)
    BY <2>7 DEF FindToken, At, End, Goto, rest, clockVars
  <2>8. CASE RevokeExpired(r)
    BY <2>8 DEF RevokeExpired, At, SaveRevoked, End, rest, clockVars
  <2>9. CASE Revoke(r)
    BY <2>9 DEF Revoke, At, SaveRevoked, Goto, rest, clockVars
  <2>10. CASE Clean(r)
    BY <2>10 DEF Clean, At, Goto, rest, clockVars
  <2>11. CASE LogoutFind(r)
    BY <2>11 DEF LogoutFind, At, Goto, rest, clockVars
  <2>12. CASE LogoutRevoke(r)
    BY <2>12 DEF LogoutRevoke, At, SaveRevoked, Goto, rest, clockVars
  <2>13. CASE Answer(r)
    BY <2>13 DEF Answer, End, clockVars
  <2>14. CASE Fails(r)
    BY <2>14 DEF Fails, Goto, End
  <2>15. CASE LoseAnswer(r)
    BY <2>15 DEF LoseAnswer, End
  <2>. QED
    BY <1>1, <2>1, <2>2, <2>3, <2>4, <2>5, <2>6, <2>7, <2>8, <2>9, <2>10, <2>11,
       <2>12, <2>13, <2>14, <2>15 DEF Serve
<1>2. ASSUME NEW r \in Requests, NEW b \in Browsers, AskLogin(r, b) PROVE TypeOK'
  BY <1>2 DEF AskLogin, Ask, Dead, clockVars
<1>3. ASSUME NEW r \in Requests, NEW b \in Browsers, AskRefresh(r, b) PROVE TypeOK'
  BY <1>3 DEF AskRefresh, Ask, Dead, clockVars
<1>4. ASSUME NEW r \in Requests, NEW b \in Browsers, AskLogout(r, b) PROVE TypeOK'
  BY <1>4 DEF AskLogout, Ask, Dead, clockVars
<1>5. ASSUME NEW t \in Tokens, Expire(t) PROVE TypeOK'
  BY <1>5 DEF Expire
<1>6. ASSUME NEW t \in Tokens, Age(t) PROVE TypeOK'
  BY <1>6 DEF Age
<1>7. ASSUME NEW b \in Browsers, DropCookie(b) PROVE TypeOK'
  BY <1>7 DEF DropCookie
<1>. QED
  BY <1>1, <1>2, <1>3, <1>4, <1>5, <1>6, <1>7 DEF Next

(* Every step leaves its request with what its new place needs.                 *)
LEMMA PlacedStep ==
  ASSUME TypeOK, Placed, Next
  PROVE  Placed'
<1>. USE SessionsAssumption DEF TypeOK, RequestState, TokenStates, Idle, Placed, Of, Sent, New, Account
<1>1. ASSUME NEW r \in Requests, Serve(r) PROVE Placed'
  <2>1. CASE AskGithub(r)
    BY <2>1 DEF AskGithub, At, Goto, tokenVars, clockVars
  <2>2. CASE GithubRefuses(r)
    BY <2>2 DEF GithubRefuses, At, End, tokenVars, clockVars
  <2>3. CASE FindUser(r)
    BY <2>3 DEF FindUser, At, Goto, tokenVars, clockVars
  <2>4. CASE InsertUser(r)
    BY <2>4 DEF InsertUser, At, Goto, End, tokenVars, clockVars
  <2>5. CASE UpdateUser(r)
    BY <2>5 DEF UpdateUser, At, Goto, tokenVars, clockVars
  <2>6. CASE Issue(r)
    BY <2>6 DEF Issue, clockVars
  <2>7. CASE FindToken(r)
    BY <2>7 DEF FindToken, At, End, Goto, rest, clockVars
  <2>8. CASE RevokeExpired(r)
    BY <2>8 DEF RevokeExpired, At, SaveRevoked, End, rest, clockVars
  <2>9. CASE Revoke(r)
    BY <2>9 DEF Revoke, At, SaveRevoked, Goto, rest, clockVars
  <2>10. CASE Clean(r)
    BY <2>10 DEF Clean, At, Goto, rest, clockVars
  <2>11. CASE LogoutFind(r)
    BY <2>11 DEF LogoutFind, At, Goto, rest, clockVars
  <2>12. CASE LogoutRevoke(r)
    BY <2>12 DEF LogoutRevoke, At, SaveRevoked, Goto, rest, clockVars
  <2>13. CASE Answer(r)
    BY <2>13 DEF Answer, End, clockVars
  <2>14. CASE Fails(r)
    BY <2>14 DEF Fails, Goto, End
  <2>15. CASE LoseAnswer(r)
    BY <2>15 DEF LoseAnswer, End
  <2>. QED
    BY <1>1, <2>1, <2>2, <2>3, <2>4, <2>5, <2>6, <2>7, <2>8, <2>9, <2>10, <2>11,
       <2>12, <2>13, <2>14, <2>15 DEF Serve
<1>2. ASSUME NEW r \in Requests, NEW b \in Browsers, AskLogin(r, b) PROVE Placed'
  BY <1>2 DEF AskLogin, Ask, Dead, clockVars
<1>3. ASSUME NEW r \in Requests, NEW b \in Browsers, AskRefresh(r, b) PROVE Placed'
  BY <1>3 DEF AskRefresh, Ask, Dead, clockVars
<1>4. ASSUME NEW r \in Requests, NEW b \in Browsers, AskLogout(r, b) PROVE Placed'
  BY <1>4 DEF AskLogout, Ask, Dead, clockVars
<1>5. ASSUME NEW t \in Tokens, Expire(t) PROVE Placed'
  BY <1>5 DEF Expire
<1>6. ASSUME NEW t \in Tokens, Age(t) PROVE Placed'
  BY <1>6 DEF Age
<1>7. ASSUME NEW b \in Browsers, DropCookie(b) PROVE Placed'
  BY <1>7 DEF DropCookie
<1>. QED
  BY <1>1, <1>2, <1>3, <1>4, <1>5, <1>6, <1>7 DEF Next

(* Every step keeps what is known of the tokens in cookies and requests: a      *)
(* token not answered yet is in no cookie, so nobody can revoke it.             *)
LEMMA HeldStep ==
  ASSUME TypeOK, Placed, Held, Apart, Lateness, Next
  PROVE  Held'
<1>. USE SessionsAssumption DEF TypeOK, RequestState, TokenStates, Idle, Placed, Of, Sent, New, Account
<1>1. ASSUME NEW r \in Requests, Serve(r) PROVE Held'
  <2>1. CASE AskGithub(r)
    BY <2>1 DEF AskGithub, At, Goto, tokenVars, clockVars, Held, Apart,
       Lateness, Dead
  <2>2. CASE GithubRefuses(r)
    BY <2>2 DEF GithubRefuses, At, End, tokenVars, clockVars, Held, Apart,
       Lateness, Dead
  <2>3. CASE FindUser(r)
    BY <2>3 DEF FindUser, At, Goto, tokenVars, clockVars, Held, Apart, Lateness,
       Dead
  <2>4. CASE InsertUser(r)
    <3>1. UNCHANGED <<token, owner, jar>>
      BY <2>4 DEF InsertUser, tokenVars
    <3>2. CASE request' = [request EXCEPT ![r].pc = "issue"]
      BY <3>1, <3>2 DEF Held
    <3>3. CASE request' = [request EXCEPT ![r] = Idle]
      BY <3>1, <3>3 DEF Held
    <3>. QED BY <2>4, <3>2, <3>3 DEF InsertUser, Goto, End
  <2>5. CASE UpdateUser(r)
    BY <2>5 DEF UpdateUser, At, Goto, tokenVars, clockVars, Held, Apart,
       Lateness, Dead
  <2>6. CASE Issue(r)
    BY <2>6 DEF Issue, clockVars, Held, Apart, Lateness, Dead
  <2>7. CASE FindToken(r)
    BY <2>7 DEF FindToken, At, End, Goto, rest, clockVars, Held, Apart,
       Lateness, Dead
  <2>8. CASE RevokeExpired(r)
    BY <2>8 DEF RevokeExpired, At, SaveRevoked, End, rest, clockVars, Held,
       Apart, Lateness, Dead
  <2>9. CASE Revoke(r)
    BY <2>9 DEF Revoke, At, SaveRevoked, Goto, rest, clockVars, Held, Apart,
       Lateness, Dead
  <2>10. CASE Clean(r)
    BY <2>10 DEF Clean, At, Goto, rest, clockVars, Held, Apart, Lateness, Dead
  <2>11. CASE LogoutFind(r)
    BY <2>11 DEF LogoutFind, At, Goto, rest, clockVars, Held, Apart, Lateness,
       Dead
  <2>12. CASE LogoutRevoke(r)
    BY <2>12 DEF LogoutRevoke, At, SaveRevoked, Goto, rest, clockVars, Held,
       Apart, Lateness, Dead
  <2>13. CASE Answer(r)
    BY <2>13 DEF Answer, End, clockVars, Held, Apart, Lateness, Dead
  <2>14. CASE Fails(r)
    BY <2>14 DEF Fails, Goto, End, Held, Apart, Lateness, Dead
  <2>15. CASE LoseAnswer(r)
    BY <2>15 DEF LoseAnswer, End, Held, Apart, Lateness, Dead
  <2>. QED
    BY <1>1, <2>1, <2>2, <2>3, <2>4, <2>5, <2>6, <2>7, <2>8, <2>9, <2>10, <2>11,
       <2>12, <2>13, <2>14, <2>15 DEF Serve
<1>2. ASSUME NEW r \in Requests, NEW b \in Browsers, AskLogin(r, b) PROVE Held'
  BY <1>2 DEF AskLogin, Ask, Dead, clockVars, Held, Apart, Lateness
<1>3. ASSUME NEW r \in Requests, NEW b \in Browsers, AskRefresh(r, b) PROVE Held'
  BY <1>3 DEF AskRefresh, Ask, Dead, clockVars, Held, Apart, Lateness
<1>4. ASSUME NEW r \in Requests, NEW b \in Browsers, AskLogout(r, b) PROVE Held'
  BY <1>4 DEF AskLogout, Ask, Dead, clockVars, Held, Apart, Lateness
<1>5. ASSUME NEW t \in Tokens, Expire(t) PROVE Held'
  BY <1>5 DEF Expire, Held, Apart, Lateness, Dead
<1>6. ASSUME NEW t \in Tokens, Age(t) PROVE Held'
  BY <1>6 DEF Age, Held, Apart, Lateness, Dead
<1>7. ASSUME NEW b \in Browsers, DropCookie(b) PROVE Held'
  BY <1>7 DEF DropCookie, Held, Apart, Lateness, Dead
<1>. QED
  BY <1>1, <1>2, <1>3, <1>4, <1>5, <1>6, <1>7 DEF Next

(* Every step keeps tokens apart: a new one was held by nobody, and an answer   *)
(* hands it to one browser.                                                     *)
LEMMA ApartStep ==
  ASSUME TypeOK, Placed, Held, Apart, Next
  PROVE  Apart'
<1>. USE SessionsAssumption DEF TypeOK, RequestState, TokenStates, Idle, Placed, Of, Sent, New, Account
<1>1. ASSUME NEW r \in Requests, Serve(r) PROVE Apart'
  <2>1. CASE AskGithub(r)
    BY <2>1 DEF AskGithub, At, Goto, tokenVars, clockVars, Held, Apart
  <2>2. CASE GithubRefuses(r)
    BY <2>2 DEF GithubRefuses, At, End, tokenVars, clockVars, Held, Apart
  <2>3. CASE FindUser(r)
    BY <2>3 DEF FindUser, At, Goto, tokenVars, clockVars, Held, Apart
  <2>4. CASE InsertUser(r)
    BY <2>4 DEF InsertUser, At, Goto, End, tokenVars, clockVars, Held, Apart
  <2>5. CASE UpdateUser(r)
    BY <2>5 DEF UpdateUser, At, Goto, tokenVars, clockVars, Held, Apart
  <2>6. CASE Issue(r)
    BY <2>6 DEF Issue, clockVars, Held, Apart
  <2>7. CASE FindToken(r)
    BY <2>7 DEF FindToken, At, End, Goto, rest, clockVars, Held, Apart
  <2>8. CASE RevokeExpired(r)
    BY <2>8 DEF RevokeExpired, At, SaveRevoked, End, rest, clockVars, Held,
       Apart
  <2>9. CASE Revoke(r)
    BY <2>9 DEF Revoke, At, SaveRevoked, Goto, rest, clockVars, Held, Apart
  <2>10. CASE Clean(r)
    BY <2>10 DEF Clean, At, Goto, rest, clockVars, Held, Apart
  <2>11. CASE LogoutFind(r)
    BY <2>11 DEF LogoutFind, At, Goto, rest, clockVars, Held, Apart
  <2>12. CASE LogoutRevoke(r)
    BY <2>12 DEF LogoutRevoke, At, SaveRevoked, Goto, rest, clockVars, Held,
       Apart
  <2>13. CASE Answer(r)
    BY <2>13 DEF Answer, End, clockVars, Held, Apart
  <2>14. CASE Fails(r)
    BY <2>14 DEF Fails, Goto, End, Held, Apart
  <2>15. CASE LoseAnswer(r)
    BY <2>15 DEF LoseAnswer, End, Held, Apart
  <2>. QED
    BY <1>1, <2>1, <2>2, <2>3, <2>4, <2>5, <2>6, <2>7, <2>8, <2>9, <2>10, <2>11,
       <2>12, <2>13, <2>14, <2>15 DEF Serve
<1>2. ASSUME NEW r \in Requests, NEW b \in Browsers, AskLogin(r, b) PROVE Apart'
  BY <1>2 DEF AskLogin, Ask, Dead, clockVars, Held, Apart
<1>3. ASSUME NEW r \in Requests, NEW b \in Browsers, AskRefresh(r, b) PROVE Apart'
  BY <1>3 DEF AskRefresh, Ask, Dead, clockVars, Held, Apart
<1>4. ASSUME NEW r \in Requests, NEW b \in Browsers, AskLogout(r, b) PROVE Apart'
  BY <1>4 DEF AskLogout, Ask, Dead, clockVars, Held, Apart
<1>5. ASSUME NEW t \in Tokens, Expire(t) PROVE Apart'
  BY <1>5 DEF Expire, Held, Apart
<1>6. ASSUME NEW t \in Tokens, Age(t) PROVE Apart'
  BY <1>6 DEF Age, Held, Apart
<1>7. ASSUME NEW b \in Browsers, DropCookie(b) PROVE Apart'
  BY <1>7 DEF DropCookie, Held, Apart
<1>. QED
  BY <1>1, <1>2, <1>3, <1>4, <1>5, <1>6, <1>7 DEF Next

(* Every step keeps the accounts of live sessions with one row; githubId is     *)
(* unique, so the second of two first sign-ins fails.                           *)
LEMMA UserStep ==
  ASSUME TypeOK, Placed, Held, OneUser, SessionsHaveOneUser, Next
  PROVE  OneUser' /\ SessionsHaveOneUser'
<1>. USE SessionsAssumption DEF TypeOK, RequestState, TokenStates, Idle, Placed, Of, Sent, New, Account
<1>1. ASSUME NEW r \in Requests, Serve(r) PROVE OneUser' /\ SessionsHaveOneUser'
  <2>1. CASE AskGithub(r)
    BY <2>1 DEF AskGithub, At, Goto, tokenVars, clockVars, Held, OneUser,
       SessionsHaveOneUser
  <2>2. CASE GithubRefuses(r)
    BY <2>2 DEF GithubRefuses, At, End, tokenVars, clockVars, Held, OneUser,
       SessionsHaveOneUser
  <2>3. CASE FindUser(r)
    BY <2>3 DEF FindUser, At, Goto, tokenVars, clockVars, Held, OneUser,
       SessionsHaveOneUser
  <2>4. CASE InsertUser(r)
    <3>1. UNCHANGED <<token, owner, jar>> /\ request[r].pc = "insertUser"
      BY <2>4 DEF InsertUser, tokenVars, At
    <3>2. CASE userRows[Account(r)] = 0
      <4>1. /\ userRows' = [userRows EXCEPT ![Account(r)] = 1]
            /\ request' = [request EXCEPT ![r].pc = "issue"]
        BY <2>4, <3>2 DEF InsertUser, Goto
      <4>2. Account(r) \in Accounts
        BY <3>1
      <4>3. OneUser'
        BY <3>1, <3>2, <4>1, <4>2 DEF OneUser
      <4>4. SessionsHaveOneUser'
        BY <3>1, <3>2, <4>1, <4>2 DEF SessionsHaveOneUser
      <4>. QED BY <4>3, <4>4
    <3>3. CASE userRows[Account(r)] # 0
      BY <2>4, <3>1, <3>3 DEF InsertUser, End, OneUser, SessionsHaveOneUser
    <3>. QED BY <3>2, <3>3
  <2>5. CASE UpdateUser(r)
    BY <2>5 DEF UpdateUser, At, Goto, tokenVars, clockVars, Held, OneUser,
       SessionsHaveOneUser
  <2>6. CASE Issue(r)
    BY <2>6 DEF Issue, clockVars, Held, OneUser, SessionsHaveOneUser
  <2>7. CASE FindToken(r)
    BY <2>7 DEF FindToken, At, End, Goto, rest, clockVars, Held, OneUser,
       SessionsHaveOneUser
  <2>8. CASE RevokeExpired(r)
    BY <2>8 DEF RevokeExpired, At, SaveRevoked, End, rest, clockVars, Held,
       OneUser, SessionsHaveOneUser
  <2>9. CASE Revoke(r)
    BY <2>9 DEF Revoke, At, SaveRevoked, Goto, rest, clockVars, Held, OneUser,
       SessionsHaveOneUser
  <2>10. CASE Clean(r)
    BY <2>10 DEF Clean, At, Goto, rest, clockVars, Held, OneUser,
       SessionsHaveOneUser
  <2>11. CASE LogoutFind(r)
    BY <2>11 DEF LogoutFind, At, Goto, rest, clockVars, Held, OneUser,
       SessionsHaveOneUser
  <2>12. CASE LogoutRevoke(r)
    BY <2>12 DEF LogoutRevoke, At, SaveRevoked, Goto, rest, clockVars, Held,
       OneUser, SessionsHaveOneUser
  <2>13. CASE Answer(r)
    BY <2>13 DEF Answer, End, clockVars, Held, OneUser, SessionsHaveOneUser
  <2>14. CASE Fails(r)
    BY <2>14 DEF Fails, Goto, End, Held, OneUser, SessionsHaveOneUser
  <2>15. CASE LoseAnswer(r)
    BY <2>15 DEF LoseAnswer, End, Held, OneUser, SessionsHaveOneUser
  <2>. QED
    BY <1>1, <2>1, <2>2, <2>3, <2>4, <2>5, <2>6, <2>7, <2>8, <2>9, <2>10, <2>11,
       <2>12, <2>13, <2>14, <2>15 DEF Serve
<1>2. ASSUME NEW r \in Requests, NEW b \in Browsers, AskLogin(r, b) PROVE OneUser' /\ SessionsHaveOneUser'
  BY <1>2 DEF AskLogin, Ask, Dead, clockVars, Held, OneUser, SessionsHaveOneUser
<1>3. ASSUME NEW r \in Requests, NEW b \in Browsers, AskRefresh(r, b) PROVE OneUser' /\ SessionsHaveOneUser'
  BY <1>3 DEF AskRefresh, Ask, Dead, clockVars, Held, OneUser, SessionsHaveOneUser
<1>4. ASSUME NEW r \in Requests, NEW b \in Browsers, AskLogout(r, b) PROVE OneUser' /\ SessionsHaveOneUser'
  BY <1>4 DEF AskLogout, Ask, Dead, clockVars, Held, OneUser, SessionsHaveOneUser
<1>5. ASSUME NEW t \in Tokens, Expire(t) PROVE OneUser' /\ SessionsHaveOneUser'
  BY <1>5 DEF Expire, Held, OneUser, SessionsHaveOneUser
<1>6. ASSUME NEW t \in Tokens, Age(t) PROVE OneUser' /\ SessionsHaveOneUser'
  BY <1>6 DEF Age, Held, OneUser, SessionsHaveOneUser
<1>7. ASSUME NEW b \in Browsers, DropCookie(b) PROVE OneUser' /\ SessionsHaveOneUser'
  BY <1>7 DEF DropCookie, Held, OneUser, SessionsHaveOneUser
<1>. QED
  BY <1>1, <1>2, <1>3, <1>4, <1>5, <1>6, <1>7 DEF Next

(* Every step keeps used tokens used: findOne refuses a refresh that was sent   *)
(* with one.                                                                    *)
LEMMA LateStep ==
  ASSUME TypeOK, Placed, Lateness, Next
  PROVE  Lateness'
<1>. USE SessionsAssumption DEF TypeOK, RequestState, TokenStates, Idle, Placed, Of, Sent, New, Account
<1>1. ASSUME NEW r \in Requests, Serve(r) PROVE Lateness'
  <2>1. CASE AskGithub(r)
    BY <2>1 DEF AskGithub, At, Goto, tokenVars, clockVars, Lateness, Dead
  <2>2. CASE GithubRefuses(r)
    BY <2>2 DEF GithubRefuses, At, End, tokenVars, clockVars, Lateness, Dead
  <2>3. CASE FindUser(r)
    BY <2>3 DEF FindUser, At, Goto, tokenVars, clockVars, Lateness, Dead
  <2>4. CASE InsertUser(r)
    BY <2>4 DEF InsertUser, At, Goto, End, tokenVars, clockVars, Lateness, Dead
  <2>5. CASE UpdateUser(r)
    BY <2>5 DEF UpdateUser, At, Goto, tokenVars, clockVars, Lateness, Dead
  <2>6. CASE Issue(r)
    BY <2>6 DEF Issue, clockVars, Lateness, Dead
  <2>7. CASE FindToken(r)
    BY <2>7 DEF FindToken, At, End, Goto, rest, clockVars, Lateness, Dead
  <2>8. CASE RevokeExpired(r)
    BY <2>8 DEF RevokeExpired, At, SaveRevoked, End, rest, clockVars, Lateness,
       Dead
  <2>9. CASE Revoke(r)
    BY <2>9 DEF Revoke, At, SaveRevoked, Goto, rest, clockVars, Lateness, Dead
  <2>10. CASE Clean(r)
    BY <2>10 DEF Clean, At, Goto, rest, clockVars, Lateness, Dead
  <2>11. CASE LogoutFind(r)
    BY <2>11 DEF LogoutFind, At, Goto, rest, clockVars, Lateness, Dead
  <2>12. CASE LogoutRevoke(r)
    BY <2>12 DEF LogoutRevoke, At, SaveRevoked, Goto, rest, clockVars, Lateness,
       Dead
  <2>13. CASE Answer(r)
    BY <2>13 DEF Answer, End, clockVars, Lateness, Dead
  <2>14. CASE Fails(r)
    BY <2>14 DEF Fails, Goto, End, Lateness, Dead
  <2>15. CASE LoseAnswer(r)
    BY <2>15 DEF LoseAnswer, End, Lateness, Dead
  <2>. QED
    BY <1>1, <2>1, <2>2, <2>3, <2>4, <2>5, <2>6, <2>7, <2>8, <2>9, <2>10, <2>11,
       <2>12, <2>13, <2>14, <2>15 DEF Serve
<1>2. ASSUME NEW r \in Requests, NEW b \in Browsers, AskLogin(r, b) PROVE Lateness'
  BY <1>2 DEF AskLogin, Ask, Dead, clockVars, Lateness
<1>3. ASSUME NEW r \in Requests, NEW b \in Browsers, AskRefresh(r, b) PROVE Lateness'
  BY <1>3 DEF AskRefresh, Ask, Dead, clockVars, Lateness
<1>4. ASSUME NEW r \in Requests, NEW b \in Browsers, AskLogout(r, b) PROVE Lateness'
  BY <1>4 DEF AskLogout, Ask, Dead, clockVars, Lateness
<1>5. ASSUME NEW t \in Tokens, Expire(t) PROVE Lateness'
  BY <1>5 DEF Expire, Lateness, Dead
<1>6. ASSUME NEW t \in Tokens, Age(t) PROVE Lateness'
  BY <1>6 DEF Age, Lateness, Dead
<1>7. ASSUME NEW b \in Browsers, DropCookie(b) PROVE Lateness'
  BY <1>7 DEF DropCookie, Lateness, Dead
<1>. QED
  BY <1>1, <1>2, <1>3, <1>4, <1>5, <1>6, <1>7 DEF Next

(* Every step keeps each browser with a cookie that works or an answer to come: *)
(* whoever revokes the token in its jar answers it.                             *)
LEMMA HopeStep ==
  ASSUME TypeOK, Placed, Held, Apart, Lateness, Hope, Next
  PROVE  Hope'
<1>. USE SessionsAssumption DEF TypeOK, RequestState, TokenStates, Idle, Placed, Of, Sent, New, Account
<1>1. ASSUME NEW r \in Requests, Serve(r) PROVE Hope'
  <2>1. CASE AskGithub(r)
    BY <2>1 DEF AskGithub, At, Goto, tokenVars, clockVars, Held, Apart,
       Lateness, Dead, Hope, Promises
  <2>2. CASE GithubRefuses(r)
    BY <2>2 DEF GithubRefuses, At, End, tokenVars, clockVars, Held, Apart,
       Lateness, Dead, Hope, Promises
  <2>3. CASE FindUser(r)
    BY <2>3 DEF FindUser, At, Goto, tokenVars, clockVars, Held, Apart, Lateness,
       Dead, Hope, Promises
  <2>4. CASE InsertUser(r)
    BY <2>4 DEF InsertUser, At, Goto, End, tokenVars, clockVars, Held, Apart,
       Lateness, Dead, Hope, Promises
  <2>5. CASE UpdateUser(r)
    BY <2>5 DEF UpdateUser, At, Goto, tokenVars, clockVars, Held, Apart,
       Lateness, Dead, Hope, Promises
  <2>6. CASE Issue(r)
    BY <2>6 DEF Issue, clockVars, Held, Apart, Lateness, Dead, Hope, Promises
  <2>7. CASE FindToken(r)
    BY <2>7 DEF FindToken, At, End, Goto, rest, clockVars, Held, Apart,
       Lateness, Dead, Hope, Promises
  <2>8. CASE RevokeExpired(r)
    BY <2>8 DEF RevokeExpired, At, SaveRevoked, End, rest, clockVars, Held,
       Apart, Lateness, Dead, Hope, Promises
  <2>9. CASE Revoke(r)
    BY <2>9 DEF Revoke, At, SaveRevoked, Goto, rest, clockVars, Held, Apart,
       Lateness, Dead, Hope, Promises
  <2>10. CASE Clean(r)
    BY <2>10 DEF Clean, At, Goto, rest, clockVars, Held, Apart, Lateness, Dead,
       Hope, Promises
  <2>11. CASE LogoutFind(r)
    BY <2>11 DEF LogoutFind, At, Goto, rest, clockVars, Held, Apart, Lateness,
       Dead, Hope, Promises
  <2>12. CASE LogoutRevoke(r)
    BY <2>12 DEF LogoutRevoke, At, SaveRevoked, Goto, rest, clockVars, Held,
       Apart, Lateness, Dead, Hope, Promises
  <2>13. CASE Answer(r)
    BY <2>13 DEF Answer, End, clockVars, Held, Apart, Lateness, Dead, Hope,
       Promises
  <2>14. CASE Fails(r)
    BY <2>14 DEF Fails, Goto, End, Held, Apart, Lateness, Dead, Hope, Promises
  <2>15. CASE LoseAnswer(r)
    BY <2>15 DEF LoseAnswer, End, Held, Apart, Lateness, Dead, Hope, Promises
  <2>. QED
    BY <1>1, <2>1, <2>2, <2>3, <2>4, <2>5, <2>6, <2>7, <2>8, <2>9, <2>10, <2>11,
       <2>12, <2>13, <2>14, <2>15 DEF Serve
<1>2. ASSUME NEW r \in Requests, NEW b \in Browsers, AskLogin(r, b) PROVE Hope'
  BY <1>2 DEF AskLogin, Ask, Dead, clockVars, Held, Apart, Lateness, Hope,
     Promises
<1>3. ASSUME NEW r \in Requests, NEW b \in Browsers, AskRefresh(r, b) PROVE Hope'
  BY <1>3 DEF AskRefresh, Ask, Dead, clockVars, Held, Apart, Lateness, Hope,
     Promises
<1>4. ASSUME NEW r \in Requests, NEW b \in Browsers, AskLogout(r, b) PROVE Hope'
  BY <1>4 DEF AskLogout, Ask, Dead, clockVars, Held, Apart, Lateness, Hope,
     Promises
<1>5. ASSUME NEW t \in Tokens, Expire(t) PROVE Hope'
  BY <1>5 DEF Expire, Held, Apart, Lateness, Dead, Hope, Promises
<1>6. ASSUME NEW t \in Tokens, Age(t) PROVE Hope'
  BY <1>6 DEF Age, Held, Apart, Lateness, Dead, Hope, Promises
<1>7. ASSUME NEW b \in Browsers, DropCookie(b) PROVE Hope'
  BY <1>7 DEF DropCookie, Held, Apart, Lateness, Dead, Hope, Promises
<1>. QED
  BY <1>1, <1>2, <1>3, <1>4, <1>5, <1>6, <1>7 DEF Next

(* What every reachable state satisfies, part by part.                          *)
IInv ==
  /\ TypeOK /\ Placed /\ Held /\ Apart
  /\ OneUser /\ SessionsHaveOneUser /\ Lateness /\ Hope

(* It holds before anybody has signed in.                                       *)
THEOREM InitInv == Init => IInv
<1>. SUFFICES ASSUME Init PROVE IInv
  OBVIOUS
<1>. USE SessionsAssumption DEF Init
<1>1. \A r \in Requests : request[r] = Idle
  OBVIOUS
<1>2. \A r \in Requests : Sent(r) = None /\ New(r) = None /\ ~request[r].late
                           /\ request[r].pc = "idle"
  BY <1>1 DEF Idle, Sent, New
<1>3. TypeOK
  BY DEF TypeOK, RequestState, TokenStates
<1>4. Placed
  BY <1>2 DEF Placed
<1>5. Held /\ Apart
  BY <1>2 DEF Held, Apart
<1>6. OneUser /\ SessionsHaveOneUser
  BY <1>2 DEF OneUser, SessionsHaveOneUser
<1>7. Lateness /\ Hope
  BY <1>2 DEF Lateness, Hope
<1>. QED BY <1>3, <1>4, <1>5, <1>6, <1>7 DEF IInv

(* Every step of AuthService, of the browsers and of time keeps it.             *)
THEOREM StepInv == IInv /\ [Next]_vars => IInv'
<1>. SUFFICES ASSUME IInv, [Next]_vars PROVE IInv'
  OBVIOUS
<1>1. CASE Next
  BY <1>1, TypeStep, PlacedStep, HeldStep, ApartStep, UserStep, LateStep, HopeStep DEF IInv
<1>2. CASE UNCHANGED vars
  BY <1>2 DEF vars, IInv, TypeOK, Placed, Held, Apart, OneUser, SessionsHaveOneUser, Lateness,
     Hope, Promises, Dead, Sent, New, Of, Account
<1>. QED BY <1>1, <1>2

(* Every variable has its type in every reachable state.                        *)
THEOREM TypeCorrect == Spec => []TypeOK
<1>. QED BY InitInv, StepInv, PTL DEF Spec, IInv

(* loginByRefresh gives no new token for one that was used up before it was     *)
(* sent.                                                                        *)
THEOREM LateFail == Spec => []LateRefreshesFail
<1>1. IInv => LateRefreshesFail
  BY DEF IInv, Lateness, LateRefreshesFail, New
<1>. QED BY <1>1, InitInv, StepInv, PTL DEF Spec

(* createOrUpdateGithubUser leaves each account that has a live session with    *)
(* exactly one User row.                                                        *)
THEOREM OneUserEach == Spec => []SessionsHaveOneUser
<1>. QED BY InitInv, StepInv, PTL DEF Spec, IInv

(* With nothing under way, a browser's cookie works or has expired, unless a    *)
(* statement failed or an answer was lost.                                      *)
THEOREM CookiesHold == Spec => []CookiesWork
<1>1. IInv => CookiesWork
  <2>. SUFFICES ASSUME IInv, NEW b \in Browsers, Quiet(b), b \notin upset
                PROVE  jar[b] = None \/ token[jar[b]] = "live" \/ jar[b] \in expired
    BY DEF CookiesWork
  <2>1. ASSUME NEW r \in Requests, Of(r) = b PROVE ~Promises(r)
    BY <2>1 DEF Quiet, Promises, Idle
  <2>. QED BY <2>1 DEF IInv, Hope
<1>. QED BY <1>1, InitInv, StepInv, PTL DEF Spec
================================================================================
