------------------------------- MODULE LogBuffer -------------------------------
(***************************************************************************)
(* LogBufferService: a ring of the last Capacity logs per execution, made  *)
(* by the first addLogs and removed by clearBuffer.  A call runs to its    *)
(* end before another one starts (they do not await), so between the steps *)
(* of addLogs's forEach, one log each, nothing else happens.               *)
(***************************************************************************)
EXTENDS Naturals, Sequences

CONSTANTS
  Executions,
  Logs,
  Capacity,   \* of a ring (1000 in the code)
  MaxBatch,   \* bound: logs of one addLogs call
  None

ASSUME CapacityIsPositive == Capacity \in Nat \ {0}
ASSUME BatchIsNat         == MaxBatch \in Nat
ASSUME NoneIsNoLog        == None \notin Logs

VARIABLES
  buffers,   \* executionId -> CircularBuffer
  pending,   \* the logs addLogs has still to push
  target     \* the execution it pushes them for

vars == <<buffers, pending, target>>

Ring == [slots : [0..(Capacity - 1) -> Logs \cup {None}],
         pointer : 0..(Capacity - 1), size : 0..Capacity]

ASSUME NoneIsNoRing == None \notin Ring

Batches == UNION {[1..n -> Logs] : n \in 1..MaxBatch}

EmptyRing == [slots |-> [i \in 0..(Capacity - 1) |-> None], pointer |-> 0, size |-> 0]

(* CircularBuffer.push, over the oldest log once the ring is full.         *)
Push(ring, log) ==
  [slots   |-> [ring.slots EXCEPT ![ring.pointer] = log],
   pointer |-> (ring.pointer + 1) % Capacity,
   size    |-> IF ring.size + 1 <= Capacity THEN ring.size + 1 ELSE Capacity]

(* Array.prototype.slice(from, to) of the slots.                           *)
Slice(ring, from, to) == [i \in 1..(to - from) |-> ring.slots[from + i - 1]]

(* The slots in the order they lie in memory. *)
ToArrayUnrotated(ring) == Slice(ring, 0, ring.size)

(* CircularBuffer.toArray: from the pointer on and around when it is full. *)
ToArray(ring) ==
  IF ring.size < Capacity
  THEN Slice(ring, 0, ring.size)
  ELSE Slice(ring, ring.pointer, Capacity) \o Slice(ring, 0, ring.pointer)

(* slice(-limit - 1). *)
GetOneMore(x, limit) ==
  LET logs == IF buffers[x] = None THEN <<>> ELSE ToArray(buffers[x])
  IN IF limit > 0 /\ limit < Len(logs)
     THEN SubSeq(logs, Len(logs) - limit, Len(logs)) ELSE logs

(* getRecentLogs: everything, or the last limit; a limit of 0 is no limit. *)
GetRecentLogs(x, limit) ==
  LET logs == IF buffers[x] = None THEN <<>> ELSE ToArray(buffers[x])
  IN IF limit > 0 /\ limit < Len(logs)
     THEN SubSeq(logs, Len(logs) - limit + 1, Len(logs)) ELSE logs

-----------------------------------------------------------------------------
Init ==
  /\ buffers = [x \in Executions |-> None]
  /\ pending = <<>> /\ target = None

(* The first addLogs of an execution makes its ring.                       *)
AddLogs(x, batch) ==
  /\ pending = <<>>
  /\ pending' = batch /\ target' = x
  /\ buffers' = IF buffers[x] = None THEN [buffers EXCEPT ![x] = EmptyRing] ELSE buffers

PushLog ==
  /\ pending # <<>>
  /\ buffers' = [buffers EXCEPT ![target] = Push(@, Head(pending))]
  /\ pending' = Tail(pending)
  /\ UNCHANGED target

ClearBuffer(x) ==
  /\ pending = <<>> /\ buffers[x] # None
  /\ buffers' = [buffers EXCEPT ![x] = None]
  /\ UNCHANGED <<pending, target>>

ClearAllBuffers ==
  /\ pending = <<>>
  /\ buffers' = [x \in Executions |-> None]
  /\ UNCHANGED <<pending, target>>

Next ==
  \/ \E x \in Executions, batch \in Batches : AddLogs(x, batch)
  \/ PushLog
  \/ \E x \in Executions : ClearBuffer(x)
  \/ ClearAllBuffers

Spec == Init /\ [][Next]_vars

-----------------------------------------------------------------------------
TypeOK ==
  /\ buffers \in [Executions -> Ring \cup {None}]
  /\ pending \in Seq(Logs)
  /\ target \in Executions \cup {None}
  /\ pending # <<>> => target \in Executions /\ buffers[target] # None

(* The logs an execution's ring shows. *)
windows == [x \in Executions |-> IF buffers[x] = None THEN <<>> ELSE ToArray(buffers[x])]

Window == INSTANCE LogWindow WITH window <- windows

(* The ring implements the window of the last Capacity logs: through any   *)
(* number of wraps, clears and refills, readers see the newest logs in the *)
(* order they were added, none twice and none of before a clear.           *)
ImplementsWindow == Window!Spec

(* getRecentLogs answers the last logs of the window, and never a slot     *)
(* that was not written, for every limit a client asks for.                *)
RecentLogsAreLast ==
  \A x \in Executions, limit \in 1..(Capacity + 1) :
    LET recent == GetRecentLogs(x, limit) IN
    /\ recent = Window!LastOf(GetRecentLogs(x, 0), limit)
    /\ \A i \in 1..Len(recent) : recent[i] \in Logs
=============================================================================
