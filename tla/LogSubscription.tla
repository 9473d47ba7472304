---------------------------- MODULE LogSubscription ----------------------------
(***************************************************************************)
(* LogsGateway: sockets join the room of an execution, get the buffer, get *)
(* the history, and every log added from then on.  The poller stores logs  *)
(* first and adds them to the buffer of LogBuffer afterwards, whose        *)
(* 'logs.new' is broadcast.  Handlers of one socket overlap: each awaits   *)
(* the database.                                                           *)
(*                                                                         *)
(* The lines EventBridge handlers broadcast about phases and results are   *)
(* neither stored nor buffered and are not in here.                        *)
(***************************************************************************)
EXTENDS LogBuffer, FiniteSets

CONSTANTS
  Clients,       \* sockets
  Handlers,      \* message handlers under way at once
  HistoryLimit,  \* rows handleSubscribe reads (1000 in the code)
  Development,   \* NODE_ENV = development
  MaxLogs,       \* bound: logs ever written
  MaxRestarts    \* bound

ASSUME SubscriptionAssumption ==
  /\ Logs = 1..MaxLogs
  /\ HistoryLimit \in Nat \ {0} /\ MaxLogs \in Nat /\ MaxRestarts \in Nat
  /\ Development \in BOOLEAN
  /\ None \notin Clients \cup {"subscribed", "unsubscribed", "error"}

VARIABLES
  stored,    \* the rows of execution_log, by timestamp
  saving,    \* logs a poll has stored and not yet added to the buffer
  online,    \* sockets connected
  rooms,     \* sockets in the room of each execution
  handler,   \* what each handler is at
  seen,      \* the logs each socket was sent
  told,      \* the last answer each socket got
  since,     \* how many rows there were when a socket's history was read
  hasty,     \* sockets that did not wait for an answer about an execution
  restarts

socketVars       == <<online, rooms, handler, seen, told, since, hasty>>
storeVars        == <<stored, saving>>
subscriptionVars == <<vars, storeVars, socketVars, restarts>>

NotSaving   == [execution |-> None, logs |-> <<>>]
IdleHandler == [pc |-> "idle", client |-> None, execution |-> None]
HandlerState == {IdleHandler} \cup
  [pc : {"access", "buffered", "history", "answer"}, client : Clients, execution : Executions]
Answers == {None, "subscribed", "unsubscribed", "error"}

NothingPer(value) == [c \in Clients |-> [x \in Executions |-> value]]
Elements(s) == {s[i] : i \in DOMAIN s}

SubscriptionInit ==
  /\ Init
  /\ stored = [x \in Executions |-> <<>>] /\ saving = NotSaving
  /\ online = {} /\ rooms = [x \in Executions |-> {}]
  /\ handler = [h \in Handlers |-> IdleHandler]
  /\ seen = NothingPer({}) /\ told = NothingPer(None) /\ since = NothingPer(0)
  /\ hasty = {} /\ restarts = 0

(* addLogs and its broadcast run to their end: nothing else moves then.    *)
Calm == pending = <<>>

-----------------------------------------------------------------------------
(* Connections.  A token in the handshake is used even when only the       *)
(* cookie holds a valid one.                                               *)

Credentials == {None, "valid", "expired"}

Token(auth, cookie) == IF auth # None THEN auth ELSE cookie
Accepted(auth, cookie) == Development \/ Token(auth, cookie) = "valid"

HandleConnection(c, auth, cookie) ==
  /\ Calm /\ c \notin online /\ Accepted(auth, cookie)
  /\ \A h \in Handlers : handler[h].client # c
  /\ \A x \in Executions : c \notin rooms[x]
  /\ online' = online \cup {c}
  /\ seen' = [seen EXCEPT ![c] = [x \in Executions |-> {}]]
  /\ told' = [told EXCEPT ![c] = [x \in Executions |-> None]]
  /\ since' = [since EXCEPT ![c] = [x \in Executions |-> 0]]
  /\ hasty' = {p \in hasty : p[1] # c}
  /\ UNCHANGED <<vars, storeVars, rooms, handler, restarts>>

(* The socket leaves its rooms; its handlers go on.                        *)
HandleDisconnect(c) ==
  /\ Calm /\ c \in online
  /\ online' = online \ {c}
  /\ rooms' = [x \in Executions |-> rooms[x] \ {c}]
  /\ UNCHANGED <<vars, storeVars, handler, seen, told, since, hasty, restarts>>

-----------------------------------------------------------------------------
(* Messages.  What is emitted to a socket that is gone is dropped.         *)

gatewayRest == <<vars, storeVars, online, restarts>>

Of(h)   == handler[h].client
Room(h) == handler[h].execution

Emit(c, x, logs) ==
  seen' = [seen EXCEPT ![c][x] = IF c \in online THEN @ \cup logs ELSE @]
AnswerWith(h, answer) ==
  /\ told' = [told EXCEPT ![Of(h)][Room(h)] = IF Of(h) \in online THEN answer ELSE @]
  /\ handler' = [handler EXCEPT ![h] = IdleHandler]

Busy(c, x) == \E h \in Handlers : Of(h) = c /\ Room(h) = x

Arrives(h, c, x, pc) ==
  /\ Calm /\ handler[h] = IdleHandler /\ c \in online
  /\ handler' = [handler EXCEPT ![h] = [pc |-> pc, client |-> c, execution |-> x]]
  /\ hasty' = IF Busy(c, x) THEN hasty \cup {<<c, x>>} ELSE hasty

HandleSubscribe(h, c, x) ==
  /\ Arrives(h, c, x, "access")
  /\ UNCHANGED <<gatewayRest, rooms, seen, told, since>>

(* Access denied, or the execution is not found.                           *)
Refuse(h) ==
  /\ Calm /\ handler[h].pc = "access" /\ AnswerWith(h, "error")
  /\ UNCHANGED <<gatewayRest, rooms, seen, since, hasty>>

JoinRoom(h) ==
  /\ Calm /\ handler[h].pc = "access"
  /\ rooms' = [rooms EXCEPT ![Room(h)] = @ \cup {Of(h)}]
  /\ handler' = [handler EXCEPT ![h].pc = "buffered"]
  /\ UNCHANGED <<gatewayRest, seen, told, since, hasty>>

(* Nothing of the buffer. *)
SkipBuffered(h) ==
  /\ Calm /\ handler[h].pc = "buffered"
  /\ handler' = [handler EXCEPT ![h].pc = "history"]
  /\ UNCHANGED <<gatewayRest, rooms, seen, told, since, hasty>>

SendBuffered(h) ==
  /\ Calm /\ handler[h].pc = "buffered"
  /\ Emit(Of(h), Room(h), Elements(GetRecentLogs(Room(h), 0)))
  /\ handler' = [handler EXCEPT ![h].pc = "history"]
  /\ UNCHANGED <<gatewayRest, rooms, told, since, hasty>>

(* getExecutionLogs: the first rows by timestamp, not the last.            *)
History(x) == SubSeq(stored[x], 1, IF Len(stored[x]) <= HistoryLimit
                                   THEN Len(stored[x]) ELSE HistoryLimit)

SendHistory(h) ==
  /\ Calm /\ handler[h].pc = "history"
  /\ Emit(Of(h), Room(h), Elements(History(Room(h))))
  /\ since' = [since EXCEPT ![Of(h)][Room(h)] = Len(stored[Room(h)])]
  /\ AnswerWith(h, "subscribed")
  /\ UNCHANGED <<gatewayRest, rooms, hasty>>

(* The socket stays in the room it has joined.                             *)
SubscribeFails(h) ==
  /\ Calm /\ handler[h].pc = "history" /\ AnswerWith(h, "error")
  /\ UNCHANGED <<gatewayRest, rooms, seen, since, hasty>>

(* Some other room left. *)
LeaveNothing(h, c, x) ==
  /\ Arrives(h, c, x, "answer")
  /\ UNCHANGED <<gatewayRest, rooms, seen, told, since>>

HandleUnsubscribe(h, c, x) ==
  /\ Arrives(h, c, x, "answer")
  /\ rooms' = [rooms EXCEPT ![x] = @ \ {c}]
  /\ UNCHANGED <<gatewayRest, seen, told, since>>

Unsubscribed(h) ==
  /\ Calm /\ handler[h].pc = "answer" /\ AnswerWith(h, "unsubscribed")
  /\ UNCHANGED <<gatewayRest, rooms, seen, since, hasty>>

-----------------------------------------------------------------------------
(* Logs.                                                                   *)

Written  == (UNION {Elements(stored[x]) : x \in Executions}) \cup Elements(saving.logs)
Fresh(n) == [i \in 1..n |-> Cardinality(Written) + i]
Sizes    == {n \in 1..MaxBatch : Cardinality(Written) + n <= MaxLogs}

(* A poll's saveLogs commits; when it is rolled back nothing is added.     *)
SaveLogs(x) ==
  /\ Calm /\ saving = NotSaving
  /\ \E n \in Sizes :
       /\ stored' = [stored EXCEPT ![x] = @ \o Fresh(n)]
       /\ saving' = [execution |-> x, logs |-> Fresh(n)]
  /\ UNCHANGED <<vars, socketVars, restarts>>

(* A recovery job stores logs it adds to no buffer.                        *)
RecoverLogs(x) ==
  /\ Calm
  /\ \E n \in Sizes : stored' = [stored EXCEPT ![x] = @ \o Fresh(n)]
  /\ UNCHANGED <<vars, saving, socketVars, restarts>>

AddSaved ==
  /\ saving # NotSaving
  /\ AddLogs(saving.execution, saving.logs)
  /\ saving' = NotSaving
  /\ UNCHANGED <<stored, socketVars, restarts>>

(* A log into the ring; 'logs.new' sends it to the room.                   *)
HandleNewLogs ==
  /\ PushLog
  /\ seen' = [c \in Clients |->
       IF c \in rooms[target] \cap online
       THEN [seen[c] EXCEPT ![target] = @ \cup {Head(pending)}] ELSE seen[c]]
  /\ UNCHANGED <<storeVars, online, rooms, handler, told, since, hasty, restarts>>

(* The process restarts: buffers, rooms, sockets and handlers are gone.    *)
Restart ==
  /\ restarts < MaxRestarts
  /\ restarts' = restarts + 1
  /\ buffers' = [x \in Executions |-> None] /\ pending' = <<>>
  /\ saving' = NotSaving
  /\ online' = {} /\ rooms' = [x \in Executions |-> {}]
  /\ handler' = [h \in Handlers |-> IdleHandler]
  /\ UNCHANGED <<target, stored, seen, told, since, hasty>>

-----------------------------------------------------------------------------
Gateway(h) ==
  \/ Refuse(h) \/ JoinRoom(h) \/ SendBuffered(h) \/ SendHistory(h) \/ SubscribeFails(h)
  \/ Unsubscribed(h)
  \/ \E c \in Clients, x \in Executions : HandleSubscribe(h, c, x) \/ HandleUnsubscribe(h, c, x)

SubscriptionNext ==
  \/ \E c \in Clients : \/ \E auth, cookie \in Credentials : HandleConnection(c, auth, cookie)
                        \/ HandleDisconnect(c)
  \/ \E h \in Handlers : Gateway(h)
  \/ \E x \in Executions : SaveLogs(x) \/ RecoverLogs(x)
  \/ AddSaved \/ HandleNewLogs \/ Restart

SubscriptionSpec == SubscriptionInit /\ [][SubscriptionNext]_subscriptionVars

-----------------------------------------------------------------------------
SubscriptionTypeOK ==
  /\ TypeOK
  /\ stored \in [Executions -> Seq(Logs)]
  /\ saving \in {NotSaving} \cup [execution : Executions, logs : Seq(Logs)]
  /\ online \subseteq Clients
  /\ rooms \in [Executions -> SUBSET Clients]
  /\ handler \in [Handlers -> HandlerState]
  /\ seen \in [Clients -> [Executions -> SUBSET Logs]]
  /\ told \in [Clients -> [Executions -> Answers]]
  /\ since \in [Clients -> [Executions -> Nat]]
  /\ hasty \subseteq Clients \X Executions
  /\ restarts \in 0..MaxRestarts

Subscribed(c, x) == c \in rooms[x] \cap online /\ told[c][x] = "subscribed" /\ ~Busy(c, x)

(* Joining, buffer and history leave no gap, however logs are stored and   *)
(* added between them: a subscriber was sent every log that is in the ring *)
(* or enters it, and of the rows there were when the history was read the  *)
(* first HistoryLimit.                                                     *)
SubscribersMissOnlyOld ==
  \A c \in Clients, x \in Executions : Subscribed(c, x) /\ <<c, x>> \notin hasty =>
    /\ Elements(GetRecentLogs(x, 0)) \subseteq seen[c][x]
    /\ \A i \in 1..since[c][x] : i <= HistoryLimit => stored[x][i] \in seen[c][x]

(* The last answer a connected socket got is true of it, as long as it     *)
(* waits for each answer: subscribed, and in the room; unsubscribed, and   *)
(* out of it.                                                              *)
ToldIsTrue ==
  \A c \in online, x \in Executions : <<c, x>> \notin hasty /\ ~Busy(c, x) =>
    /\ told[c][x] = "subscribed" => c \in rooms[x]
    /\ told[c][x] = "unsubscribed" => c \notin rooms[x]
=============================================================================
