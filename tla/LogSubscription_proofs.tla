------------------------- MODULE LogSubscription_proofs -------------------------
(***************************************************************************)
(* The ring of LogBuffer implements LogWindow for every capacity, every    *)
(* set of executions and logs, and batches of any length; it still does    *)
(* with the gateway of LogSubscription around it, for any number of        *)
(* sockets and handlers, and then the gateway leaves no gap in what a      *)
(* socket sees and answers what is true.                                   *)
(***************************************************************************)
EXTENDS LogSubscription, SequenceTheorems, FiniteSetTheorems, TLAPS

(* A ring that is not full lies unrotated, and the slots that count have   *)
(* been written.                                                           *)
RingOK(ring) ==
  /\ ring \in Ring
  /\ ring.size < Capacity => ring.pointer = ring.size
  /\ \A i \in 0..(ring.size - 1) : ring.slots[i] \in Logs

(* The inductive invariant of the rings.                                   *)
IInv == /\ TypeOK
        /\ \A x \in Executions : buffers[x] # None => RingOK(buffers[x])

-----------------------------------------------------------------------------
(* The pointer wraps to 0 behind the last slot.                            *)
LEMMA PointerWraps ==
  ASSUME NEW p \in 0..(Capacity - 1)
  PROVE  (p + 1) % Capacity = IF p + 1 = Capacity THEN 0 ELSE p + 1
  BY CapacityIsPositive, SMTT(60)

(* The i-th oldest log of a ring.                                          *)
At(ring, i) ==
  IF ring.size < Capacity THEN ring.slots[i - 1]
  ELSE IF ring.pointer + i - 1 < Capacity THEN ring.slots[ring.pointer + i - 1]
  ELSE ring.slots[ring.pointer + i - 1 - Capacity]

(* toArray puts the logs of a ring in the order of their age.              *)
LEMMA ToArrayIsOrdered ==
  ASSUME NEW ring, RingOK(ring)
  PROVE  /\ ToArray(ring) \in Seq(Logs)
         /\ Len(ToArray(ring)) = ring.size
         /\ \A i \in 1..ring.size : ToArray(ring)[i] = At(ring, i)
<1>0. /\ ring.size \in 0..Capacity /\ ring.pointer \in 0..(Capacity - 1)
      /\ \A i \in 0..(ring.size - 1) : ring.slots[i] \in Logs
  BY DEF RingOK, Ring
<1>1. CASE ring.size < Capacity
  <2>1. ToArray(ring) = [i \in 1..ring.size |-> ring.slots[i - 1]]
    BY <1>0, <1>1, CapacityIsPositive DEF ToArray, Slice
  <2>2. \A i \in 1..ring.size : ring.slots[i - 1] \in Logs
    BY <1>0, CapacityIsPositive
  <2>. QED BY <1>0, <1>1, <2>1, <2>2, CapacityIsPositive DEF At
<1>2. CASE ring.size = Capacity
  <2> DEFINE old == Slice(ring, ring.pointer, Capacity)
             new == Slice(ring, 0, ring.pointer)
  <2>1. old = [i \in 1..(Capacity - ring.pointer) |-> ring.slots[ring.pointer + i - 1]]
    BY DEF Slice
  <2>2. new = [i \in 1..ring.pointer |-> ring.slots[i - 1]]
    BY <1>0, CapacityIsPositive DEF Slice
  <2>3. old \in Seq(Logs) /\ Len(old) = Capacity - ring.pointer
    BY <1>0, <1>2, <2>1, CapacityIsPositive
  <2>4. new \in Seq(Logs) /\ Len(new) = ring.pointer
    BY <1>0, <1>2, <2>2, CapacityIsPositive
  <2>5. ToArray(ring) = old \o new
    BY <1>0, <1>2, CapacityIsPositive DEF ToArray
  <2> HIDE DEF old, new
  <2>6. Len(old \o new) = Capacity /\ old \o new \in Seq(Logs)
    <3>1. old \o new \in Seq(Logs) /\ Len(old \o new) = Len(old) + Len(new)
      BY <2>3, <2>4
    <3>. QED BY <1>0, <2>3, <2>4, <3>1, CapacityIsPositive
  <2>7. ASSUME NEW i \in 1..Capacity PROVE (old \o new)[i] = At(ring, i)
    <3>1. CASE i <= Capacity - ring.pointer
      <4>1. (old \o new)[i] = old[i]
        BY <1>0, <2>3, <2>4, <3>1, CapacityIsPositive
      <4>2. old[i] = ring.slots[ring.pointer + i - 1]
        BY <1>0, <2>1, <3>1, CapacityIsPositive
      <4>. QED BY <1>0, <1>2, <3>1, <4>1, <4>2, CapacityIsPositive DEF At
    <3>2. CASE i > Capacity - ring.pointer
      <4> DEFINE k == i - (Capacity - ring.pointer)
      <4>1. (old \o new)[i] = new[k]
        BY <1>0, <2>3, <2>4, <3>2, CapacityIsPositive
      <4>2. k \in 1..ring.pointer
        BY <1>0, <3>2, CapacityIsPositive
      <4>3. new[k] = ring.slots[k - 1]
        BY <2>2, <4>2
      <4>4. k - 1 = ring.pointer + i - 1 - Capacity
        BY <1>0, CapacityIsPositive
      <4>5. At(ring, i) = ring.slots[ring.pointer + i - 1 - Capacity]
        BY <1>0, <1>2, <3>2, CapacityIsPositive DEF At
      <4> HIDE DEF k
      <4>. QED BY <4>1, <4>3, <4>4, <4>5
    <3>3. i <= Capacity - ring.pointer \/ i > Capacity - ring.pointer
      BY <1>0, CapacityIsPositive
    <3>. QED BY <3>1, <3>2, <3>3
  <2>. QED BY <1>2, <2>5, <2>6, <2>7
<1>. QED BY <1>0, <1>1, <1>2, CapacityIsPositive

(* A push keeps a ring in order ...                                        *)
LEMMA PushKeepsRing ==
  ASSUME NEW ring, RingOK(ring), NEW log \in Logs
  PROVE  RingOK(Push(ring, log))
<1> DEFINE next == Push(ring, log)
<1>0. /\ ring.size \in 0..Capacity /\ ring.pointer \in 0..(Capacity - 1)
      /\ ring.slots \in [0..(Capacity - 1) -> Logs \cup {None}]
      /\ ring.size < Capacity => ring.pointer = ring.size
      /\ \A i \in 0..(ring.size - 1) : ring.slots[i] \in Logs
  BY DEF RingOK, Ring
<1>1. next.pointer = IF ring.pointer + 1 = Capacity THEN 0 ELSE ring.pointer + 1
  BY <1>0, PointerWraps DEF Push
<1>2. next.size = IF ring.size < Capacity THEN ring.size + 1 ELSE ring.size
  BY <1>0, CapacityIsPositive DEF Push
<1>3. next.slots = [ring.slots EXCEPT ![ring.pointer] = log]
  BY DEF Push
<1>4. next \in Ring
  <2>1. next.pointer \in 0..(Capacity - 1) /\ next.size \in 0..Capacity
    BY <1>0, <1>1, <1>2, CapacityIsPositive
  <2>2. next.slots \in [0..(Capacity - 1) -> Logs \cup {None}]
    BY <1>0, <1>3
  <2>. QED BY <2>1, <2>2 DEF Push, Ring
<1> HIDE DEF next
<1>5. next.size < Capacity => next.pointer = next.size
  BY <1>0, <1>1, <1>2, CapacityIsPositive
<1>6. ASSUME NEW i \in 0..(next.size - 1) PROVE next.slots[i] \in Logs
  <2>1. i \in 0..(Capacity - 1) /\ (i # ring.pointer => i \in 0..(ring.size - 1))
    BY <1>0, <1>2, CapacityIsPositive
  <2>. QED BY <1>0, <1>3, <2>1
<1>. QED BY <1>4, <1>5, <1>6 DEF RingOK, next

(* ... and adds the log to the window, dropping the oldest of a full one.  *)
LEMMA PushAdds ==
  ASSUME NEW ring, RingOK(ring), NEW log \in Logs
  PROVE  ToArray(Push(ring, log)) = Window!LastOf(Append(ToArray(ring), log), Capacity)
<1> DEFINE next == Push(ring, log)
           old == ToArray(ring)
           all == Append(old, log)
           last == Window!LastOf(all, Capacity)
<1>0. /\ ring.size \in 0..Capacity /\ ring.pointer \in 0..(Capacity - 1)
      /\ ring.slots \in [0..(Capacity - 1) -> Logs \cup {None}]
      /\ ring.size < Capacity => ring.pointer = ring.size
  BY DEF RingOK, Ring
<1>1. next.pointer = IF ring.pointer + 1 = Capacity THEN 0 ELSE ring.pointer + 1
  BY <1>0, PointerWraps DEF Push
<1>2. next.size = IF ring.size < Capacity THEN ring.size + 1 ELSE ring.size
  BY <1>0, CapacityIsPositive DEF Push
<1>3. next.slots = [ring.slots EXCEPT ![ring.pointer] = log]
  BY DEF Push
<1>4. old \in Seq(Logs) /\ Len(old) = ring.size /\ \A i \in 1..ring.size : old[i] = At(ring, i)
  BY ToArrayIsOrdered
<1>5. /\ ToArray(next) \in Seq(Logs) /\ Len(ToArray(next)) = next.size
      /\ \A i \in 1..next.size : ToArray(next)[i] = At(next, i)
  BY PushKeepsRing, ToArrayIsOrdered
<1> HIDE DEF old, next
<1>6. /\ all \in Seq(Logs) /\ Len(all) = ring.size + 1 /\ all[ring.size + 1] = log
      /\ \A i \in 1..ring.size : all[i] = old[i]
  BY <1>0, <1>4
<1> HIDE DEF all
<1>7. CASE ring.size < Capacity
  <2>1. last = all
    BY <1>0, <1>6, <1>7, CapacityIsPositive DEF Window!LastOf
  <2>2. ASSUME NEW i \in 1..next.size PROVE ToArray(next)[i] = all[i]
    <3>1. At(next, i) = next.slots[i - 1]
      BY <1>0, <1>1, <1>2, <1>7, CapacityIsPositive DEF At
    <3>2. CASE i = ring.size + 1
      BY <1>0, <1>3, <1>5, <1>6, <1>7, <3>1, <3>2, CapacityIsPositive
    <3>3. CASE i \in 1..ring.size
      <4>1. next.slots[i - 1] = ring.slots[i - 1]
        BY <1>0, <1>3, <1>7, <3>3, CapacityIsPositive
      <4>2. At(ring, i) = ring.slots[i - 1]
        BY <1>7 DEF At
      <4>. QED BY <1>4, <1>5, <1>6, <3>1, <3>3, <4>1, <4>2
    <3>4. i = ring.size + 1 \/ i \in 1..ring.size
      BY <1>0, <1>2, <1>7
    <3>. QED BY <3>2, <3>3, <3>4
  <2>3. Len(all) = next.size
    BY <1>2, <1>6, <1>7
  <2>4. ToArray(next) = all
    BY <1>5, <1>6, <2>2, <2>3, SeqEqual
  <2>. QED BY <2>1, <2>4 DEF next, all, old
<1>8. CASE ring.size = Capacity
  <2>1. last = [i \in 1..Capacity |-> all[i + 1]]
    <3>1. ~(Len(all) <= Capacity) /\ \A i \in 1..Capacity : Len(all) - Capacity + i = i + 1
      BY <1>0, <1>6, <1>8, CapacityIsPositive
    <3>. QED BY <3>1 DEF Window!LastOf
  <2>2. next.size = Capacity
    BY <1>2, <1>8, CapacityIsPositive
  <2>3. last \in Seq(Logs) /\ Len(last) = Capacity
    <3>1. \A i \in 1..Capacity : all[i + 1] \in Logs
      BY <1>6, <1>8, CapacityIsPositive
    <3>. QED BY <2>1, <3>1, CapacityIsPositive
  <2>4. ASSUME NEW i \in 1..Capacity PROVE ToArray(next)[i] = all[i + 1]
    <3>1. CASE i = Capacity
      <4>1. At(next, i) = next.slots[ring.pointer]
        BY <1>0, <1>1, <2>2, <3>1, CapacityIsPositive DEF At
      <4>2. next.slots[ring.pointer] = log
        BY <1>0, <1>3
      <4>. QED BY <1>5, <1>6, <1>8, <2>2, <3>1, <4>1, <4>2
    <3>2. CASE i < Capacity
      <4>1. i + 1 \in 1..ring.size
        BY <1>8, <3>2, CapacityIsPositive
      <4> DEFINE k == IF ring.pointer + i < Capacity THEN ring.pointer + i
                      ELSE ring.pointer + i - Capacity
      <4>2. At(ring, i + 1) = ring.slots[k]
        BY <1>0, <1>8, CapacityIsPositive DEF At
      <4>3. At(next, i) = next.slots[k]
        BY <1>0, <1>1, <2>2, <3>2, CapacityIsPositive DEF At
      <4>4. k \in 0..(Capacity - 1) /\ k # ring.pointer
        BY <1>0, <3>2, CapacityIsPositive
      <4> HIDE DEF k
      <4>5. next.slots[k] = ring.slots[k]
        BY <1>0, <1>3, <4>4
      <4>. QED BY <1>4, <1>5, <1>6, <2>2, <4>1, <4>2, <4>3, <4>5
    <3>3. i = Capacity \/ i < Capacity
      BY CapacityIsPositive
    <3>. QED BY <3>1, <3>2, <3>3
  <2>5. \A i \in 1..Capacity : ToArray(next)[i] = last[i]
    BY <2>1, <2>4
  <2>6. ToArray(next) = last
    <3> HIDE DEF last
    <3>. QED BY <1>5, <2>2, <2>3, <2>5, SeqEqual
  <2>. QED BY <2>6 DEF next, all, old
<1>. QED BY <1>0, <1>7, <1>8, CapacityIsPositive

(* A new ring is empty.                                                    *)
LEMMA EmptyRingOK ==
  /\ RingOK(EmptyRing)
  /\ ToArray(EmptyRing) = <<>>
<1>1. EmptyRing \in Ring
  <2>1. 0 \in 0..(Capacity - 1) /\ 0 \in 0..Capacity
    BY CapacityIsPositive
  <2>. QED BY <2>1 DEF EmptyRing, Ring
<1>2. RingOK(EmptyRing)
  BY <1>1 DEF RingOK, EmptyRing
<1>3. ToArray(EmptyRing) \in Seq(Logs) /\ Len(ToArray(EmptyRing)) = 0
  BY <1>2, ToArrayIsOrdered DEF EmptyRing
<1>. QED BY <1>2, <1>3

(* There are no rings at first.                                            *)
LEMMA InitInv == Init => IInv
  BY DEF Init, IInv, TypeOK

(* addLogs makes a ring that shows nothing, and leaves the others.          *)
LEMMA AddKeeps ==
  ASSUME IInv, NEW x \in Executions, NEW batch \in Seq(Logs), AddLogs(x, batch)
  PROVE  IInv' /\ UNCHANGED windows
<1>0. TypeOK /\ \A y \in Executions : buffers[y] # None => RingOK(buffers[y])
  BY DEF IInv
<1>1. EmptyRing \in Ring /\ EmptyRing # None
  BY EmptyRingOK, NoneIsNoRing DEF RingOK
<1>2. TypeOK'
  BY <1>0, <1>1 DEF AddLogs, TypeOK
<1>3. ASSUME NEW y \in Executions, buffers'[y] # None PROVE RingOK(buffers'[y])
  BY <1>0, <1>3, EmptyRingOK DEF AddLogs, TypeOK
<1>4. \A y \in Executions :
        (IF buffers'[y] = None THEN <<>> ELSE ToArray(buffers'[y]))
          = (IF buffers[y] = None THEN <<>> ELSE ToArray(buffers[y]))
  BY <1>0, <1>1, EmptyRingOK DEF AddLogs, TypeOK
<1>. QED BY <1>2, <1>3, <1>4 DEF IInv, RingOK, windows

(* Every push of its forEach adds a log to the window.                     *)
LEMMA PushLogKeeps ==
  ASSUME IInv, PushLog
  PROVE  /\ IInv' /\ target \in Executions /\ Head(pending) \in Logs
         /\ Window!Add(target, Head(pending))
<1>. DEFINE ring == buffers[target]
            next == Push(ring, Head(pending))
<1>0. TypeOK /\ \A x \in Executions : buffers[x] # None => RingOK(buffers[x])
  BY DEF IInv
<1>1. /\ target \in Executions /\ ring # None /\ RingOK(ring)
      /\ Head(pending) \in Logs /\ Tail(pending) \in Seq(Logs)
  BY <1>0 DEF PushLog, TypeOK
<1>2. /\ RingOK(next) /\ next \in Ring /\ next # None
      /\ ToArray(next) = Window!LastOf(Append(ToArray(ring), Head(pending)), Capacity)
  BY <1>1, PushAdds, PushKeepsRing, NoneIsNoRing DEF RingOK
<1>3. buffers' = [buffers EXCEPT ![target] = next]
  BY DEF PushLog
<1>. HIDE DEF next
<1>4. TypeOK'
  BY <1>0, <1>1, <1>2, <1>3 DEF PushLog, TypeOK
<1>5. ASSUME NEW y \in Executions, buffers'[y] # None PROVE RingOK(buffers'[y])
  BY <1>0, <1>1, <1>2, <1>3, <1>5 DEF TypeOK
<1>6. windows[target] = ToArray(ring)
  BY <1>1 DEF windows
<1>7. windows' = [windows EXCEPT ![target] = ToArray(next)]
  BY <1>0, <1>1, <1>2, <1>3 DEF windows, TypeOK
<1>8. Window!Add(target, Head(pending))
  BY <1>2, <1>6, <1>7 DEF Window!Add
<1>. QED BY <1>1, <1>4, <1>5, <1>8 DEF IInv, RingOK

(* The invariant is inductive, and every step of the rings is a step of    *)
(* the windows, or none.                                                   *)
LEMMA StepRefines ==
  ASSUME IInv, [Next]_vars
  PROVE  IInv' /\ [Window!Next]_windows
<1>0. TypeOK /\ \A x \in Executions : buffers[x] # None => RingOK(buffers[x])
  BY DEF IInv
<1>1. ASSUME NEW x \in Executions, NEW batch \in Batches, AddLogs(x, batch)
      PROVE  IInv' /\ UNCHANGED windows
  <2>1. batch \in Seq(Logs)
    BY BatchIsNat DEF Batches
  <2>. QED BY <1>1, <2>1, AddKeeps
<1>2. CASE PushLog
  BY <1>2, PushLogKeeps DEF Window!Next
<1>3. ASSUME (\E x \in Executions : ClearBuffer(x)) \/ ClearAllBuffers
      PROVE  IInv'
  <2>1. TypeOK'
    BY <1>0, <1>3 DEF ClearBuffer, ClearAllBuffers, TypeOK
  <2>2. ASSUME NEW y \in Executions, buffers'[y] # None PROVE RingOK(buffers'[y])
    BY <1>0, <1>3, <2>2 DEF ClearBuffer, ClearAllBuffers, TypeOK
  <2>. QED BY <2>1, <2>2 DEF IInv, RingOK
<1>4. ASSUME NEW x \in Executions, ClearBuffer(x) PROVE Window!Clear(x)
  <2>1. windows' = [windows EXCEPT ![x] = <<>>]
    BY <1>0, <1>4 DEF ClearBuffer, windows, TypeOK
  <2>. QED BY <2>1 DEF Window!Clear
<1>5. ASSUME ClearAllBuffers PROVE Window!ClearAll
  BY <1>0, <1>5 DEF ClearAllBuffers, windows, TypeOK, Window!ClearAll
<1>6. CASE UNCHANGED vars
  BY <1>0, <1>6 DEF vars, IInv, TypeOK, RingOK, windows
<1>. QED BY <1>1, <1>2, <1>3, <1>4, <1>5, <1>6 DEF Next, Window!Next

(* Every ring stays rotated at its pointer, whatever is added or cleared.  *)
THEOREM Invariant == Spec => []IInv
<1>1. IInv /\ [Next]_vars => IInv'
  BY StepRefines
<1>. QED BY <1>1, InitInv, PTL DEF Spec

(* Every variable of LogBuffer keeps its type.                             *)
THEOREM TypeCorrect == Spec => []TypeOK
<1>1. IInv => TypeOK
  BY DEF IInv
<1>. QED BY <1>1, Invariant, PTL

-----------------------------------------------------------------------------
(* The ring buffer implements the window of the last Capacity logs.        *)
THEOREM RingIsWindow == Spec => ImplementsWindow
<1>1. Init => Window!Init
  BY DEF Init, windows, Window!Init
<1>2. IInv /\ [Next]_vars => [Window!Next]_windows
  BY StepRefines
<1>. QED BY <1>1, <1>2, Invariant, PTL DEF Spec, ImplementsWindow, Window!Spec

(* getRecentLogs answers the last logs of the window, all of them written. *)
LEMMA RecentOfInv == IInv => RecentLogsAreLast
<1> SUFFICES ASSUME IInv, NEW x \in Executions, NEW limit \in 1..(Capacity + 1)
    PROVE  LET recent == GetRecentLogs(x, limit) IN
           /\ recent = Window!LastOf(GetRecentLogs(x, 0), limit)
           /\ \A i \in 1..Len(recent) : recent[i] \in Logs
  BY DEF RecentLogsAreLast
<1> DEFINE logs == IF buffers[x] = None THEN <<>> ELSE ToArray(buffers[x])
<1>1. logs \in Seq(Logs)
  BY ToArrayIsOrdered DEF IInv
<1>2. GetRecentLogs(x, 0) = logs
  BY DEF GetRecentLogs
<1>3. GetRecentLogs(x, limit) = IF limit < Len(logs)
                                THEN SubSeq(logs, Len(logs) - limit + 1, Len(logs)) ELSE logs
  BY CapacityIsPositive DEF GetRecentLogs
<1> HIDE DEF logs
<1>4. CASE limit < Len(logs)
  <2> DEFINE recent == SubSeq(logs, Len(logs) - limit + 1, Len(logs))
  <2>1. limit \in Nat /\ Len(logs) \in Nat
    BY <1>1, CapacityIsPositive
  <2>2. recent \in Seq(Logs) /\ Len(recent) = limit
        /\ \A i \in 1..limit : recent[i] = logs[Len(logs) - limit + i]
    BY <1>1, <1>4, <2>1
  <2>3. Window!LastOf(logs, limit) = [i \in 1..limit |-> logs[Len(logs) - limit + i]]
    BY <1>4, <2>1 DEF Window!LastOf
  <2>4. \A i \in 1..limit : logs[Len(logs) - limit + i] \in Logs
    BY <1>1, <1>4, <2>1
  <2> HIDE DEF recent
  <2>5. Window!LastOf(logs, limit) \in Seq(Logs) /\ Len(Window!LastOf(logs, limit)) = limit
    BY <2>1, <2>3, <2>4
  <2>6. recent = Window!LastOf(logs, limit)
    <3> DEFINE last == Window!LastOf(logs, limit)
    <3>1. \A i \in 1..limit : last[i] = recent[i]
      BY <2>2, <2>3
    <3>2. last \in Seq(Logs) /\ Len(last) = limit
      BY <2>5
    <3> HIDE DEF last
    <3>3. recent = last
      BY <2>1, <2>2, <3>1, <3>2, SeqEqual
    <3>. QED BY <3>3 DEF last
  <2>7. GetRecentLogs(x, limit) = recent
    BY <1>3, <1>4 DEF recent
  <2>8. \A i \in 1..Len(recent) : recent[i] \in Logs
    BY <2>2
  <2>. QED BY <1>2, <2>6, <2>7, <2>8
<1>5. CASE ~(limit < Len(logs))
  <2>1. Len(logs) <= limit
    BY <1>1, <1>5, CapacityIsPositive
  <2>2. Window!LastOf(logs, limit) = logs /\ GetRecentLogs(x, limit) = logs
    BY <1>3, <1>5, <2>1 DEF Window!LastOf
  <2>3. \A i \in 1..Len(logs) : logs[i] \in Logs
    BY <1>1
  <2>. QED BY <1>2, <2>2, <2>3
<1>. QED BY <1>4, <1>5

(* Readers get the last logs of the window, whatever limit they ask for.   *)
THEOREM RecentLogs == Spec => []RecentLogsAreLast
  BY RecentOfInv, Invariant, PTL

-----------------------------------------------------------------------------
(* The gateway.                                                            *)

(* A handler of the socket about the execution.                            *)
Works(h, c, x) == Of(h) = c /\ Room(h) = x

(* A socket was sent what the ring shows.                                  *)
Shown(c, x)  == Elements(windows[x]) \subseteq seen[c][x]
(* It was sent the rows of the history that was read.                      *)
Taught(c, x) == \A i \in 1..since[c][x] : i <= HistoryLimit => stored[x][i] \in seen[c][x]

(* A patient socket has one handler about an execution, and is in the room *)
(* or out of it as the handler wants it; with none, as it was told.        *)
Patient(c, x) ==
  /\ \A h, g \in Handlers : Works(h, c, x) /\ Works(g, c, x) => h = g
  /\ \A h \in Handlers : Works(h, c, x) =>
       /\ handler[h].pc \in {"buffered", "history"} => c \in rooms[x]
       /\ handler[h].pc = "history" => Shown(c, x)
       /\ handler[h].pc = "answer" => c \notin rooms[x]
  /\ ~Busy(c, x) =>
       /\ told[c][x] = "subscribed" => c \in rooms[x] /\ Shown(c, x) /\ Taught(c, x)
       /\ told[c][x] = "unsubscribed" => c \notin rooms[x]

(* A socket that waited for its answers is a patient one.                  *)
Pair(c, x) == c \in online /\ <<c, x>> \notin hasty => Patient(c, x)

(* A history is never longer than the rows.                                *)
Stamps == \A c \in Clients, x \in Executions : since[c][x] <= Len(stored[x])

(* The inductive invariant of the gateway.                                 *)
SInv ==
  /\ IInv /\ SubscriptionTypeOK /\ Stamps
  /\ \A c \in Clients, x \in Executions : Pair(c, x)

(* The logs a ring shows are those of its window.                          *)
LEMMA RingShows ==
  ASSUME NEW x \in Executions
  PROVE  GetRecentLogs(x, 0) = windows[x]
BY DEF GetRecentLogs, windows

(* What rings show are sequences of logs.                                  *)
LEMMA Rings ==
  ASSUME IInv
  PROVE  windows \in [Executions -> Seq(Logs)]
BY ToArrayIsOrdered DEF windows, IInv

(* A handler under way has a socket and an execution.                      *)
LEMMA Handles ==
  ASSUME SubscriptionTypeOK, NEW h \in Handlers, handler[h] # IdleHandler
  PROVE  /\ Of(h) \in Clients /\ Room(h) \in Executions
         /\ handler[h].pc \in {"access", "buffered", "history", "answer"}
BY DEF SubscriptionTypeOK, HandlerState, Of, Room

(* What an idle one has not.                                               *)
LEMMA IdleWorksNot ==
  ASSUME NEW h \in Handlers, handler[h] = IdleHandler, NEW c \in Clients, NEW x
  PROVE  ~Works(h, c, x)
BY SubscriptionAssumption DEF Works, Of, IdleHandler

(* A step that leaves a socket's matters with an execution alone, or sends *)
(* what it adds to the ring, leaves the socket patient.                    *)
LEMMA PairKept ==
  ASSUME NEW c \in Clients, NEW x \in Executions, Pair(c, x),
         c \in online' => c \in online,
         <<c, x>> \in hasty => <<c, x>> \in hasty',
         c \in online' => (c \in rooms'[x] <=> c \in rooms[x]),
         \A h \in Handlers : Works(h, c, x)' <=> Works(h, c, x),
         \A h \in Handlers : Works(h, c, x) => handler'[h].pc = handler[h].pc,
         told'[c][x] = told[c][x],
         c \in rooms[x] /\ c \in online /\ Shown(c, x) => Shown(c, x)',
         Taught(c, x) => Taught(c, x)'
  PROVE  Pair(c, x)'
<1>. SUFFICES ASSUME c \in online', <<c, x>> \notin hasty' PROVE Patient(c, x)'
  BY DEF Pair
<1>1. Patient(c, x) /\ c \in online /\ (c \in rooms'[x] <=> c \in rooms[x])
  BY DEF Pair
<1>2. Busy(c, x)' <=> Busy(c, x)
  BY DEF Busy, Works
<1>3. \A h, g \in Handlers : Works(h, c, x)' /\ Works(g, c, x)' => h = g
  BY <1>1 DEF Patient
<1>4. ASSUME NEW h \in Handlers, Works(h, c, x)'
      PROVE  /\ handler'[h].pc \in {"buffered", "history"} => c \in rooms'[x]
             /\ handler'[h].pc = "history" => Shown(c, x)'
             /\ handler'[h].pc = "answer" => c \notin rooms'[x]
  <2>1. Works(h, c, x) /\ handler'[h].pc = handler[h].pc
    BY <1>4
  <2>. QED BY <1>1, <2>1 DEF Patient
<1>5. ASSUME ~Busy(c, x)'
      PROVE  /\ told'[c][x] = "subscribed" => c \in rooms'[x] /\ Shown(c, x)' /\ Taught(c, x)'
             /\ told'[c][x] = "unsubscribed" => c \notin rooms'[x]
  BY <1>1, <1>2, <1>5 DEF Patient
<1>. QED BY <1>3, <1>4, <1>5 DEF Patient

-----------------------------------------------------------------------------
(* What the handlers' steps leave alone.                                   *)
LEMMA GatewayRest ==
  ASSUME SInv, UNCHANGED gatewayRest
  PROVE  /\ IInv' /\ UNCHANGED <<online, stored, windows>>
         /\ TypeOK'
         /\ stored' \in [Executions -> Seq(Logs)]
         /\ saving' \in {NotSaving} \cup [execution : Executions, logs : Seq(Logs)]
         /\ online' \subseteq Clients /\ restarts' \in 0..MaxRestarts
<1>1. UNCHANGED <<buffers, pending, target, stored, saving, online, restarts>>
  BY DEF gatewayRest, vars, storeVars
<1>2. UNCHANGED windows /\ IInv'
  BY <1>1 DEF windows, SInv, IInv, TypeOK
<1>. QED BY <1>1, <1>2 DEF SInv, IInv, SubscriptionTypeOK

(* A handler ends or goes on; the socket's last answer may change.         *)
LEMMA HandlerEnds ==
  ASSUME SInv, NEW h \in Handlers, handler[h] # IdleHandler, NEW answer \in Answers,
         AnswerWith(h, answer)
  PROVE  /\ handler' \in [Handlers -> HandlerState] /\ handler'[h] = IdleHandler
         /\ \A g \in Handlers \ {h} : handler'[g] = handler[g]
         /\ told' \in [Clients -> [Executions -> Answers]]
         /\ Of(h) \in online => told'[Of(h)][Room(h)] = answer
         /\ \A c \in Clients, x \in Executions :
              c # Of(h) \/ x # Room(h) => told'[c][x] = told[c][x]
<1>1. Of(h) \in Clients /\ Room(h) \in Executions
  BY Handles DEF SInv
<1>2. /\ handler \in [Handlers -> HandlerState] /\ told \in [Clients -> [Executions -> Answers]]
      /\ IdleHandler \in HandlerState
  BY DEF SInv, SubscriptionTypeOK, HandlerState
<1>3. handler' = [handler EXCEPT ![h] = IdleHandler]
  BY DEF AnswerWith
<1>. DEFINE value == IF Of(h) \in online THEN answer ELSE told[Of(h)][Room(h)]
<1>4. told' = [told EXCEPT ![Of(h)] = [told[Of(h)] EXCEPT ![Room(h)] = value]]
  BY <1>1, <1>2 DEF AnswerWith
<1>5. value \in Answers
  BY <1>1, <1>2
<1>. HIDE DEF value
<1>6. told[Of(h)] \in [Executions -> Answers]
  BY <1>1, <1>2
<1>7. /\ told' \in [Clients -> [Executions -> Answers]]
      /\ told'[Of(h)][Room(h)] = value
      /\ \A c \in Clients, x \in Executions : c # Of(h) \/ x # Room(h) => told'[c][x] = told[c][x]
  BY <1>1, <1>2, <1>4, <1>5, <1>6
<1>. QED BY <1>1, <1>2, <1>3, <1>7 DEF value

(* A handler that goes on to its next await keeps what is true of its      *)
(* socket.                                                                 *)
LEMMA HandlerGoesOn ==
  ASSUME SInv, NEW h \in Handlers, handler[h] # IdleHandler,
         NEW pc \in {"access", "buffered", "history", "answer"},
         handler' = [handler EXCEPT ![h].pc = pc]
  PROVE  /\ handler' \in [Handlers -> HandlerState] /\ handler'[h].pc = pc
         /\ handler'[h].client = Of(h) /\ handler'[h].execution = Room(h)
         /\ \A g \in Handlers \ {h} : handler'[g] = handler[g]
         /\ handler'[h] # IdleHandler
BY DEF SInv, SubscriptionTypeOK, HandlerState, IdleHandler, Of, Room

(* Logs sent to a socket.                                                  *)
LEMMA Emitted ==
  ASSUME SInv, NEW c \in Clients, NEW x \in Executions, NEW logs \in SUBSET Logs, Emit(c, x, logs)
  PROVE  /\ seen' \in [Clients -> [Executions -> SUBSET Logs]]
         /\ \A d \in Clients, y \in Executions : seen[d][y] \subseteq seen'[d][y]
         /\ c \in online => logs \subseteq seen'[c][x]
<1>1. seen \in [Clients -> [Executions -> SUBSET Logs]]
  BY DEF SInv, SubscriptionTypeOK
<1>. DEFINE value == IF c \in online THEN seen[c][x] \cup logs ELSE seen[c][x]
<1>2. seen' = [seen EXCEPT ![c] = [seen[c] EXCEPT ![x] = value]]
  BY <1>1 DEF Emit
<1>3. value \in SUBSET Logs /\ seen[c][x] \subseteq value /\ (c \in online => logs \subseteq value)
  BY <1>1
<1>. HIDE DEF value
<1>4. seen[c] \in [Executions -> SUBSET Logs]
  BY <1>1
<1>5. /\ seen' \in [Clients -> [Executions -> SUBSET Logs]]
      /\ seen'[c][x] = value
      /\ \A d \in Clients, y \in Executions : d # c \/ y # x => seen'[d][y] = seen[d][y]
  BY <1>1, <1>2, <1>3, <1>4
<1>. QED BY <1>3, <1>5

(* Handler h moves, and touches only its own socket's matters with its own  *)
(* execution.                                                              *)
Touches(h, c, x) ==
  /\ \A g \in Handlers \ {h} : handler'[g] = handler[g]
  /\ handler[h] # IdleHandler => Of(h) = c /\ Room(h) = x
  /\ handler'[h] # IdleHandler => handler'[h].client = c /\ handler'[h].execution = x
  /\ hasty \subseteq hasty'
  /\ \A d \in Clients, y \in Executions : seen[d][y] \subseteq seen'[d][y]
  /\ \A d \in Clients, y \in Executions : d # c \/ y # x =>
       /\ d \in rooms'[y] <=> d \in rooms[y]
       /\ told'[d][y] = told[d][y] /\ since'[d][y] = since[d][y]

(* That leaves the others patient.                                         *)
LEMMA OtherPairs ==
  ASSUME SInv, UNCHANGED gatewayRest, NEW h \in Handlers,
         NEW c \in Clients, NEW x \in Executions, Touches(h, c, x)
  PROVE  \A d \in Clients, y \in Executions : d # c \/ y # x => Pair(d, y)'
<1>. SUFFICES ASSUME NEW d \in Clients, NEW y \in Executions, d # c \/ y # x
              PROVE  Pair(d, y)'
  OBVIOUS
<1>1. \A g \in Handlers : /\ Works(g, d, y)' <=> Works(g, d, y)
                          /\ Works(g, d, y) => g # h
  BY SubscriptionAssumption DEF Touches, Works, Of, Room, IdleHandler
<1>2. \A g \in Handlers : Works(g, d, y) => handler'[g].pc = handler[g].pc
  BY <1>1 DEF Touches
<1>3. Shown(d, y) => Shown(d, y)'
  <2>1. UNCHANGED windows /\ seen[d][y] \subseteq seen'[d][y]
    BY GatewayRest DEF Touches
  <2>2. Elements(windows[y])' = Elements(windows[y])
    BY <2>1 DEF Elements
  <2>. QED BY <2>1, <2>2 DEF Shown
<1>4. Taught(d, y) => Taught(d, y)'
  BY GatewayRest DEF Taught, Touches
<1>5. /\ Pair(d, y) /\ UNCHANGED online
      /\ told'[d][y] = told[d][y] /\ (d \in rooms'[y] <=> d \in rooms[y])
      /\ <<d, y>> \in hasty => <<d, y>> \in hasty'
  BY GatewayRest DEF SInv, Touches
<1>. QED BY <1>1, <1>2, <1>3, <1>4, <1>5, PairKept

-----------------------------------------------------------------------------
(* Each step of a handler keeps the invariant.                             *)

(* What is left to show of a handler's step: types, and its own socket.    *)
LEMMA HandlerKeeps ==
  ASSUME SInv, UNCHANGED gatewayRest, NEW h \in Handlers,
         NEW c \in Clients, NEW x \in Executions, Touches(h, c, x),
         hasty' \subseteq Clients \X Executions,
         handler' \in [Handlers -> HandlerState],
         rooms' \in [Executions -> SUBSET Clients],
         seen' \in [Clients -> [Executions -> SUBSET Logs]],
         told' \in [Clients -> [Executions -> Answers]],
         since' \in [Clients -> [Executions -> Nat]],
         since'[c][x] <= Len(stored[x]),
         c \in online /\ <<c, x>> \notin hasty' => Patient(c, x)'
  PROVE  SInv'
<1>1. /\ IInv' /\ UNCHANGED <<online, stored>>
      /\ SubscriptionTypeOK'
  BY GatewayRest DEF SubscriptionTypeOK
<1>2. Stamps'
  BY <1>1 DEF SInv, Stamps, Touches
<1>3. \A d \in Clients, y \in Executions : d # c \/ y # x => Pair(d, y)'
  BY OtherPairs
<1>4. Pair(c, x)'
  BY <1>1 DEF Pair
<1>. QED BY <1>1, <1>2, <1>3, <1>4 DEF SInv

(* Of a patient socket a handler is the only one.                          *)
LEMMA OnlyOne ==
  ASSUME SInv, NEW h \in Handlers, handler[h] # IdleHandler,
         Of(h) \in online, <<Of(h), Room(h)>> \notin hasty
  PROVE  /\ \A g \in Handlers : Works(g, Of(h), Room(h)) => g = h
         /\ handler[h].pc \in {"buffered", "history"} => Of(h) \in rooms[Room(h)]
         /\ handler[h].pc = "history" => Shown(Of(h), Room(h))
         /\ handler[h].pc = "answer" => Of(h) \notin rooms[Room(h)]
<1>1. Patient(Of(h), Room(h)) /\ Of(h) \in Clients /\ Room(h) \in Executions
  BY Handles DEF SInv, Pair
<1>2. Works(h, Of(h), Room(h))
  BY DEF Works
<1>. QED BY <1>1, <1>2 DEF Patient

(* A handler that ends with an error leaves a socket nobody promised       *)
(* anything; with another answer, one to which it is true.                 *)
LEMMA EndKeeps ==
  ASSUME SInv, UNCHANGED gatewayRest, NEW h \in Handlers, handler[h] # IdleHandler,
         NEW c \in Clients, NEW x \in Executions, c = Of(h), x = Room(h),
         NEW answer \in Answers, AnswerWith(h, answer),
         UNCHANGED <<rooms, hasty>>,
         seen' \in [Clients -> [Executions -> SUBSET Logs]],
         \A d \in Clients, y \in Executions : seen[d][y] \subseteq seen'[d][y],
         since' \in [Clients -> [Executions -> Nat]],
         since'[c][x] <= Len(stored[x]),
         \A d \in Clients, y \in Executions : d # c \/ y # x => since'[d][y] = since[d][y],
         answer = "subscribed" => handler[h].pc = "history" /\ (c \in online => Taught(c, x)'),
         answer = "unsubscribed" => handler[h].pc = "answer"
  PROVE  SInv'
<1>1. /\ handler' \in [Handlers -> HandlerState] /\ handler'[h] = IdleHandler
      /\ \A g \in Handlers \ {h} : handler'[g] = handler[g]
      /\ told' \in [Clients -> [Executions -> Answers]]
      /\ c \in online => told'[c][x] = answer
      /\ \A d \in Clients, y \in Executions : d # c \/ y # x => told'[d][y] = told[d][y]
  BY HandlerEnds
<1>2. UNCHANGED <<online, stored, windows>>
  BY GatewayRest
<1>3. ASSUME c \in online, <<c, x>> \notin hasty'
      PROVE  Patient(c, x)'
  <2>1. \A g \in Handlers : Works(g, c, x) => g = h
    BY <1>3, OnlyOne
  <2>2. \A g \in Handlers : ~Works(g, c, x)'
    <3>1. ~Works(h, c, x)'
      BY <1>1, SubscriptionAssumption DEF Works, Of, IdleHandler
    <3>2. \A g \in Handlers \ {h} : Works(g, c, x)' <=> Works(g, c, x)
      BY <1>1 DEF Works, Of, Room
    <3>. QED BY <2>1, <3>1, <3>2
  <2>3. answer = "subscribed" => c \in rooms'[x] /\ Shown(c, x)
    BY <1>3, OnlyOne
  <2>4. Shown(c, x) => Shown(c, x)'
    <3>1. Elements(windows[x])' = Elements(windows[x])
      BY <1>2 DEF Elements
    <3>. QED BY <3>1 DEF Shown
  <2>5. answer = "unsubscribed" => c \notin rooms'[x]
    BY <1>3, OnlyOne
  <2>6. answer = "subscribed" => Taught(c, x)'
    BY <1>3
  <2>. QED BY <1>1, <1>3, <2>2, <2>3, <2>4, <2>5, <2>6 DEF Patient
<1>4. /\ rooms' \in [Executions -> SUBSET Clients] /\ hasty' \subseteq Clients \X Executions
      /\ hasty \subseteq hasty'
  BY DEF SInv, SubscriptionTypeOK
<1>5. \A d \in Clients, y \in Executions : d # c \/ y # x =>
        /\ d \in rooms'[y] <=> d \in rooms[y]
        /\ told'[d][y] = told[d][y] /\ since'[d][y] = since[d][y]
  BY <1>1
<1>6. Touches(h, c, x)
  BY <1>1, <1>4, <1>5 DEF Touches
<1>. QED BY <1>1, <1>3, <1>4, <1>5, <1>6, HandlerKeeps

(* Being refused, failing, and leaving.                                    *)
LEMMA AnswersKeep ==
  ASSUME SInv, NEW h \in Handlers, Refuse(h) \/ SubscribeFails(h) \/ Unsubscribed(h)
  PROVE  SInv'
<1>1. PICK answer \in {"error", "unsubscribed"} :
        /\ AnswerWith(h, answer) /\ UNCHANGED <<gatewayRest, rooms, seen, since, hasty>>
        /\ handler[h].pc \in {"access", "history", "answer"}
        /\ answer = "unsubscribed" => handler[h].pc = "answer"
  BY DEF Refuse, SubscribeFails, Unsubscribed
<1>2. /\ handler[h] # IdleHandler /\ answer \in Answers
      /\ seen' \in [Clients -> [Executions -> SUBSET Logs]]
      /\ since' \in [Clients -> [Executions -> Nat]]
  BY <1>1 DEF IdleHandler, Answers, SInv, SubscriptionTypeOK
<1>3. PICK c \in Clients, x \in Executions : c = Of(h) /\ x = Room(h)
  BY <1>2, Handles DEF SInv
<1>4. since'[c][x] <= Len(stored[x]) /\ answer # "subscribed"
  BY <1>1 DEF SInv, Stamps
<1>5. \A d \in Clients, y \in Executions :
        seen[d][y] \subseteq seen'[d][y] /\ since'[d][y] = since[d][y]
  BY <1>1
<1>. QED BY <1>1, <1>2, <1>3, <1>4, <1>5, EndKeeps

(* The history, read and sent.                                             *)
LEMMA HistoryKeeps ==
  ASSUME SInv, NEW h \in Handlers, SendHistory(h)
  PROVE  SInv'
<1>1. /\ handler[h] # IdleHandler /\ handler[h].pc = "history"
      /\ AnswerWith(h, "subscribed") /\ UNCHANGED <<gatewayRest, rooms, hasty>>
  BY DEF SendHistory, IdleHandler
<1>2. PICK c \in Clients, x \in Executions : c = Of(h) /\ x = Room(h)
  BY <1>1, Handles DEF SInv
<1>3. stored[x] \in Seq(Logs) /\ Len(stored[x]) \in Nat
  BY <1>2 DEF SInv, SubscriptionTypeOK
<1>. DEFINE n == IF Len(stored[x]) <= HistoryLimit THEN Len(stored[x]) ELSE HistoryLimit
<1>4. /\ n \in Nat /\ n <= Len(stored[x])
      /\ \A i \in 1..Len(stored[x]) : i <= HistoryLimit => i <= n
  BY <1>3, SubscriptionAssumption
<1>. HIDE DEF n
<1>5. /\ DOMAIN History(x) = 1..n
      /\ \A i \in 1..n : History(x)[i] = stored[x][i] /\ stored[x][i] \in Logs
  <2>1. History(x) = SubSeq(stored[x], 1, n)
    BY DEF History, n
  <2>2. \A i \in 1..n : i \in 1..Len(stored[x])
    BY <1>3, <1>4
  <2>. QED BY <1>3, <1>4, <2>1, <2>2
<1>6. Elements(History(x)) \in SUBSET Logs
  BY <1>5 DEF Elements
<1>7. /\ seen' \in [Clients -> [Executions -> SUBSET Logs]]
      /\ \A d \in Clients, y \in Executions : seen[d][y] \subseteq seen'[d][y]
      /\ c \in online => Elements(History(x)) \subseteq seen'[c][x]
  BY <1>2, <1>6, Emitted DEF SendHistory
<1>8. /\ since' \in [Clients -> [Executions -> Nat]]
      /\ since'[c][x] = Len(stored[x])
      /\ \A d \in Clients, y \in Executions : d # c \/ y # x => since'[d][y] = since[d][y]
  <2>1. since \in [Clients -> [Executions -> Nat]]
    BY DEF SInv, SubscriptionTypeOK
  <2>2. since' = [since EXCEPT ![c] = [since[c] EXCEPT ![x] = Len(stored[x])]]
    BY <1>2, <2>1 DEF SendHistory
  <2>3. since[c] \in [Executions -> Nat]
    BY <2>1
  <2>. QED BY <1>3, <2>1, <2>2, <2>3
<1>9. c \in online => Taught(c, x)'
  <2>. SUFFICES ASSUME c \in online, NEW i \in 1..since'[c][x], i <= HistoryLimit
                PROVE  stored'[x][i] \in seen'[c][x]
    BY DEF Taught
  <2>1. i \in 1..n /\ stored' = stored
    BY <1>1, <1>3, <1>4, <1>8, GatewayRest
  <2>. QED BY <1>5, <1>7, <2>1 DEF Elements
<1>10. "subscribed" \in Answers
  BY DEF Answers
<1>11. UNCHANGED <<rooms, hasty>> /\ UNCHANGED gatewayRest /\ since'[c][x] <= Len(stored[x])
  BY <1>1, <1>3, <1>8
<1>. QED BY <1>1, <1>2, <1>7, <1>8, <1>9, <1>10, <1>11, EndKeeps

(* The ring, read and sent.                                                *)
LEMMA BufferedKeeps ==
  ASSUME SInv, NEW h \in Handlers, SendBuffered(h)
  PROVE  SInv'
<1>1. /\ handler[h] # IdleHandler /\ handler[h].pc = "buffered"
      /\ handler' = [handler EXCEPT ![h].pc = "history"]
      /\ UNCHANGED <<gatewayRest, rooms, told, since, hasty>>
  BY DEF SendBuffered, IdleHandler
<1>2. PICK c \in Clients, x \in Executions : c = Of(h) /\ x = Room(h)
  BY <1>1, Handles DEF SInv
<1>3. Elements(windows[x]) \in SUBSET Logs /\ GetRecentLogs(x, 0) = windows[x]
  BY Rings, RingShows DEF SInv, Elements
<1>4. /\ seen' \in [Clients -> [Executions -> SUBSET Logs]]
      /\ \A d \in Clients, y \in Executions : seen[d][y] \subseteq seen'[d][y]
      /\ c \in online => Elements(windows[x]) \subseteq seen'[c][x]
  BY <1>2, <1>3, Emitted DEF SendBuffered
<1>5. /\ handler' \in [Handlers -> HandlerState] /\ handler'[h].pc = "history"
      /\ handler'[h].client = c /\ handler'[h].execution = x
      /\ \A g \in Handlers \ {h} : handler'[g] = handler[g]
  BY <1>1, <1>2, HandlerGoesOn
<1>6. ASSUME c \in online, <<c, x>> \notin hasty'
      PROVE  Patient(c, x)'
  <2>1. \A g \in Handlers : Works(g, c, x) => g = h
    BY <1>1, <1>2, <1>6, OnlyOne
  <2>2. \A g \in Handlers : Works(g, c, x)' <=> g = h
    BY <1>2, <1>5, <2>1 DEF Works, Of, Room
  <2>3. c \in rooms'[x]
    BY <1>1, <1>2, <1>6, OnlyOne
  <2>4. Shown(c, x)'
    <3>1. UNCHANGED windows
      BY <1>1, GatewayRest
    <3>. QED BY <1>4, <1>6, <3>1 DEF Shown, Elements
  <2>5. Busy(c, x)'
    BY <2>2 DEF Busy, Works
  <2>. QED BY <1>5, <2>2, <2>3, <2>4, <2>5 DEF Patient
<1>7. /\ rooms' \in [Executions -> SUBSET Clients] /\ hasty' \subseteq Clients \X Executions
      /\ told' \in [Clients -> [Executions -> Answers]]
      /\ since' \in [Clients -> [Executions -> Nat]] /\ since'[c][x] <= Len(stored[x])
  BY <1>1 DEF SInv, SubscriptionTypeOK, Stamps
<1>8. Touches(h, c, x)
  BY <1>1, <1>2, <1>4, <1>5 DEF Touches
<1>. QED BY <1>1, <1>2, <1>4, <1>5, <1>6, <1>7, <1>8, HandlerKeeps

(* A handler joins.                                                        *)
LEMMA JoinKeeps ==
  ASSUME SInv, NEW h \in Handlers, JoinRoom(h)
  PROVE  SInv'
<1>1. /\ handler[h] # IdleHandler /\ handler[h].pc = "access"
      /\ handler' = [handler EXCEPT ![h].pc = "buffered"]
      /\ UNCHANGED <<gatewayRest, seen, told, since, hasty>>
  BY DEF JoinRoom, IdleHandler
<1>2. PICK c \in Clients, x \in Executions : c = Of(h) /\ x = Room(h)
  BY <1>1, Handles DEF SInv
<1>3. /\ rooms' \in [Executions -> SUBSET Clients] /\ c \in rooms'[x]
      /\ \A d \in Clients, y \in Executions :
           d # c \/ y # x => (d \in rooms'[y] <=> d \in rooms[y])
  BY <1>2 DEF JoinRoom, SInv, SubscriptionTypeOK
<1>4. /\ handler' \in [Handlers -> HandlerState] /\ handler'[h].pc = "buffered"
      /\ handler'[h].client = c /\ handler'[h].execution = x
      /\ \A g \in Handlers \ {h} : handler'[g] = handler[g]
  BY <1>1, <1>2, HandlerGoesOn
<1>5. ASSUME c \in online, <<c, x>> \notin hasty'
      PROVE  Patient(c, x)'
  <2>1. \A g \in Handlers : Works(g, c, x) => g = h
    BY <1>1, <1>2, <1>5, OnlyOne
  <2>2. \A g \in Handlers : Works(g, c, x)' <=> g = h
    BY <1>2, <1>4, <2>1 DEF Works, Of, Room
  <2>3. Busy(c, x)'
    BY <2>2 DEF Busy, Works
  <2>. QED BY <1>3, <1>4, <2>2, <2>3 DEF Patient
<1>6. /\ hasty' \subseteq Clients \X Executions
      /\ seen' \in [Clients -> [Executions -> SUBSET Logs]]
      /\ told' \in [Clients -> [Executions -> Answers]]
      /\ since' \in [Clients -> [Executions -> Nat]] /\ since'[c][x] <= Len(stored[x])
  BY <1>1 DEF SInv, SubscriptionTypeOK, Stamps
<1>7. \A d \in Clients, y \in Executions :
        /\ seen[d][y] \subseteq seen'[d][y]
        /\ told'[d][y] = told[d][y] /\ since'[d][y] = since[d][y]
  BY <1>1
<1>8. Touches(h, c, x)
  BY <1>1, <1>2, <1>3, <1>4, <1>7 DEF Touches
<1>. QED BY <1>1, <1>2, <1>3, <1>4, <1>5, <1>6, <1>7, <1>8, HandlerKeeps

(* A message arrives: a second one about the same makes the socket hasty.  *)
LEMMA ArrivalKeeps ==
  ASSUME SInv, NEW h \in Handlers, NEW c \in Clients, NEW x \in Executions,
         HandleSubscribe(h, c, x) \/ HandleUnsubscribe(h, c, x)
  PROVE  SInv'
<1>1. PICK pc \in {"access", "answer"} :
        /\ Arrives(h, c, x, pc) /\ UNCHANGED <<gatewayRest, seen, told, since>>
        /\ rooms' \in [Executions -> SUBSET Clients]
        /\ pc = "answer" => c \notin rooms'[x]
        /\ \A d \in Clients, y \in Executions :
             d # c \/ y # x => (d \in rooms'[y] <=> d \in rooms[y])
  <2>1. rooms \in [Executions -> SUBSET Clients]
    BY DEF SInv, SubscriptionTypeOK
  <2>. QED BY <2>1 DEF HandleSubscribe, HandleUnsubscribe
<1>2. handler[h] = IdleHandler /\ handler \in [Handlers -> HandlerState]
  BY <1>1 DEF Arrives, SInv, SubscriptionTypeOK
<1>3. /\ handler'[h] = [pc |-> pc, client |-> c, execution |-> x]
      /\ \A g \in Handlers \ {h} : handler'[g] = handler[g]
      /\ handler' \in [Handlers -> HandlerState]
  BY <1>1, <1>2 DEF Arrives, HandlerState
<1>4. /\ hasty \subseteq hasty' /\ hasty' \subseteq Clients \X Executions
      /\ <<c, x>> \notin hasty' => ~Busy(c, x)
  BY <1>1 DEF Arrives, SInv, SubscriptionTypeOK
<1>5. ASSUME <<c, x>> \notin hasty'
      PROVE  Patient(c, x)'
  <2>1. \A g \in Handlers : Works(g, c, x)' <=> g = h
    BY <1>3, <1>4, <1>5 DEF Works, Of, Room, Busy
  <2>2. Busy(c, x)'
    BY <2>1 DEF Busy, Works
  <2>3. handler'[h].pc = pc
    BY <1>3
  <2>. QED BY <1>1, <2>1, <2>2, <2>3 DEF Patient
<1>6. /\ seen' \in [Clients -> [Executions -> SUBSET Logs]]
      /\ told' \in [Clients -> [Executions -> Answers]]
      /\ since' \in [Clients -> [Executions -> Nat]] /\ since'[c][x] <= Len(stored[x])
  BY <1>1 DEF SInv, SubscriptionTypeOK, Stamps
<1>7. handler'[h].client = c /\ handler'[h].execution = x
  BY <1>3
<1>8. \A d \in Clients, y \in Executions :
        /\ seen[d][y] \subseteq seen'[d][y]
        /\ told'[d][y] = told[d][y] /\ since'[d][y] = since[d][y]
  BY <1>1
<1>9. UNCHANGED gatewayRest
  BY <1>1
<1>10. Touches(h, c, x)
  BY <1>1, <1>2, <1>3, <1>4, <1>7, <1>8 DEF Touches
<1>. QED BY <1>1, <1>2, <1>3, <1>4, <1>5, <1>6, <1>7, <1>8, <1>9, <1>10, HandlerKeeps

-----------------------------------------------------------------------------
(* Every other step keeps the invariant.                                   *)

(* A new connection has no handlers and was told nothing.                  *)
LEMMA ConnectionKeeps ==
  ASSUME SInv, NEW c \in Clients, NEW auth, NEW cookie, HandleConnection(c, auth, cookie)
  PROVE  SInv'
<1>1. /\ UNCHANGED <<vars, storeVars, rooms, handler, restarts>>
      /\ online' = online \cup {c} /\ \A h \in Handlers : Of(h) # c
      /\ hasty' = {p \in hasty : p[1] # c}
  BY DEF HandleConnection, Of
<1>2. /\ seen' \in [Clients -> [Executions -> SUBSET Logs]]
      /\ \A d \in Clients \ {c} : seen'[d] = seen[d]
  BY DEF HandleConnection, SInv, SubscriptionTypeOK
<1>3. /\ told' \in [Clients -> [Executions -> Answers]]
      /\ \A d \in Clients \ {c} : told'[d] = told[d]
      /\ \A x \in Executions : told'[c][x] = None
  BY DEF HandleConnection, SInv, SubscriptionTypeOK, Answers
<1>4. /\ since' \in [Clients -> [Executions -> Nat]]
      /\ \A d \in Clients \ {c} : since'[d] = since[d]
      /\ \A x \in Executions : since'[c][x] = 0
  BY DEF HandleConnection, SInv, SubscriptionTypeOK
<1>5. UNCHANGED windows /\ IInv'
  BY <1>1 DEF vars, windows, SInv, IInv, TypeOK
<1>6. SubscriptionTypeOK'
  <2>1. hasty' \subseteq Clients \X Executions /\ online' \subseteq Clients
    BY <1>1 DEF SInv, SubscriptionTypeOK
  <2>. QED BY <1>1, <1>2, <1>3, <1>4, <1>5, <2>1 DEF SInv, SubscriptionTypeOK, IInv, storeVars
<1>7. Stamps'
  <2>1. \A x \in Executions : Len(stored[x]) \in Nat /\ stored' = stored
    BY <1>1 DEF SInv, SubscriptionTypeOK, storeVars
  <2>. QED BY <1>4, <2>1 DEF SInv, Stamps
<1>8. ASSUME NEW x \in Executions PROVE Pair(c, x)'
  <2>1. \A h \in Handlers : ~Works(h, c, x)'
    BY <1>1 DEF Works, Of
  <2>2. told'[c][x] # "subscribed" /\ told'[c][x] # "unsubscribed"
    BY <1>3, SubscriptionAssumption
  <2>. QED BY <2>1, <2>2 DEF Pair, Patient
<1>9. ASSUME NEW d \in Clients \ {c}, NEW x \in Executions PROVE Pair(d, x)'
  <2>1. /\ Pair(d, x) /\ (d \in online' => d \in online)
        /\ <<d, x>> \in hasty => <<d, x>> \in hasty'
        /\ d \in rooms'[x] <=> d \in rooms[x]
        /\ told'[d][x] = told[d][x]
    BY <1>1, <1>3 DEF SInv
  <2>2. \A h \in Handlers : (Works(h, d, x)' <=> Works(h, d, x)) /\ handler'[h].pc = handler[h].pc
    BY <1>1 DEF Works, Of, Room
  <2>3. Shown(d, x) => Shown(d, x)'
    <3>1. Elements(windows[x])' = Elements(windows[x])
      BY <1>5 DEF Elements
    <3>. QED BY <1>2, <3>1 DEF Shown
  <2>4. Taught(d, x) => Taught(d, x)'
    BY <1>1, <1>2, <1>4 DEF Taught, storeVars
  <2>. QED BY <2>1, <2>2, <2>3, <2>4, PairKept
<1>. QED BY <1>5, <1>6, <1>7, <1>8, <1>9 DEF SInv

(* Steps that leave handlers, answers and the rooms of sockets online      *)
(* alone.                                                                  *)
LEMMA QuietKeeps ==
  ASSUME SInv, UNCHANGED <<handler, told, since, hasty>>,
         IInv', SubscriptionTypeOK', online' \subseteq online,
         \A c \in Clients, x \in Executions : c \in online' => (c \in rooms'[x] <=> c \in rooms[x]),
         \A c \in Clients, x \in Executions : seen[c][x] \subseteq seen'[c][x],
         \A c \in Clients, x \in Executions : c \in rooms[x] \cap online /\ Shown(c, x) => Shown(c, x)',
         \A x \in Executions : /\ Len(stored[x]) <= Len(stored'[x])
                               /\ \A i \in 1..Len(stored[x]) : stored'[x][i] = stored[x][i]
  PROVE  SInv'
<1>1. Stamps'
  <2>1. \A x \in Executions : Len(stored[x]) \in Nat /\ Len(stored'[x]) \in Nat
    BY DEF SInv, SubscriptionTypeOK
  <2>2. \A c \in Clients, x \in Executions : since[c][x] \in Nat
    BY DEF SInv, SubscriptionTypeOK
  <2>. QED BY <2>1, <2>2 DEF SInv, Stamps
<1>2. ASSUME NEW c \in Clients, NEW x \in Executions PROVE Pair(c, x)'
  <2>1. Pair(c, x) /\ since[c][x] <= Len(stored[x]) /\ since[c][x] \in Nat /\ Len(stored[x]) \in Nat
    BY DEF SInv, Stamps, SubscriptionTypeOK
  <2>2. \A h \in Handlers : (Works(h, c, x)' <=> Works(h, c, x)) /\ handler'[h].pc = handler[h].pc
    BY DEF Works, Of, Room
  <2>3. Taught(c, x) => Taught(c, x)'
    <3>1. \A i \in 1..since[c][x] : i \in 1..Len(stored[x])
      BY <2>1
    <3>. QED BY <3>1 DEF Taught
  <2>. QED BY <2>1, <2>2, <2>3, PairKept
<1>. QED BY <1>1, <1>2 DEF SInv

(* A socket that is gone has left its rooms; nothing is said of it any     *)
(* more.                                                                   *)
LEMMA DisconnectKeeps ==
  ASSUME SInv, NEW c \in Clients, HandleDisconnect(c)
  PROVE  SInv'
<1>1. /\ UNCHANGED <<vars, storeVars, handler, seen, told, since, hasty, restarts>>
      /\ online' = online \ {c} /\ rooms' = [x \in Executions |-> rooms[x] \ {c}]
  BY DEF HandleDisconnect
<1>2. UNCHANGED windows /\ IInv'
  BY <1>1 DEF vars, windows, SInv, IInv, TypeOK
<1>3. SubscriptionTypeOK'
  BY <1>1, <1>2 DEF SInv, SubscriptionTypeOK, IInv, storeVars
<1>4. ASSUME NEW d \in Clients, NEW x \in Executions, Shown(d, x)
      PROVE  Shown(d, x)'
  <2>1. Elements(windows[x])' = Elements(windows[x])
    BY <1>2 DEF Elements
  <2>. QED BY <1>1, <1>4, <2>1 DEF Shown
<1>5. \A d \in Clients, x \in Executions : d \in online' => (d \in rooms'[x] <=> d \in rooms[x])
  BY <1>1
<1>6. \A x \in Executions : /\ Len(stored[x]) <= Len(stored'[x])
                            /\ \A i \in 1..Len(stored[x]) : stored'[x][i] = stored[x][i]
  BY <1>1 DEF SInv, SubscriptionTypeOK, storeVars
<1>. QED BY <1>1, <1>2, <1>3, <1>4, <1>5, <1>6, QuietKeeps

(* Fresh logs are logs: there are MaxLogs of them.                         *)
LEMMA FreshLogs ==
  ASSUME SInv, NEW n \in Sizes
  PROVE  Fresh(n) \in Seq(Logs) /\ Len(Fresh(n)) = n /\ n \in Nat
<1>1. Written \subseteq Logs
  <2>1. \A s \in Seq(Logs) : Elements(s) \subseteq Logs
    BY DEF Elements
  <2>2. \A x \in Executions : Elements(stored[x]) \subseteq Logs
    BY <2>1 DEF SInv, SubscriptionTypeOK
  <2>3. saving.logs \in Seq(Logs)
    <3>1. CASE saving = NotSaving
      BY <3>1 DEF NotSaving
    <3>2. CASE saving \in [execution : Executions, logs : Seq(Logs)]
      BY <3>2
    <3>. QED BY <3>1, <3>2 DEF SInv, SubscriptionTypeOK
  <2>. QED BY <2>1, <2>2, <2>3 DEF Written
<1>2. IsFiniteSet(Logs)
  BY FS_Interval, SubscriptionAssumption
<1>3. Cardinality(Written) \in Nat
  BY <1>1, <1>2, FS_Subset, FS_CardinalityType
<1>. DEFINE k == Cardinality(Written)
<1>4. n \in Nat /\ k + n <= MaxLogs
  BY BatchIsNat DEF Sizes
<1>. HIDE DEF k
<1>5. \A i \in 1..n : k + i \in Logs
  BY <1>3, <1>4, SubscriptionAssumption DEF k
<1>6. Fresh(n) = [i \in 1..n |-> k + i]
  BY DEF Fresh, k
<1>. QED BY <1>4, <1>5, <1>6

(* Rows are appended.                                                      *)
LEMMA StoreKeeps ==
  ASSUME SInv, NEW x \in Executions, NEW n \in Sizes,
         stored' = [stored EXCEPT ![x] = @ \o Fresh(n)],
         saving' \in {NotSaving} \cup [execution : Executions, logs : Seq(Logs)],
         UNCHANGED <<vars, socketVars, restarts>>
  PROVE  SInv'
<1>1. UNCHANGED <<windows, online, rooms, handler, seen, told, since, hasty>> /\ IInv'
  BY DEF vars, windows, SInv, IInv, TypeOK, socketVars
<1>2. stored \in [Executions -> Seq(Logs)] /\ Fresh(n) \in Seq(Logs)
  BY FreshLogs DEF SInv, SubscriptionTypeOK
<1>3. /\ stored[x] \o Fresh(n) \in Seq(Logs)
      /\ Len(stored[x]) <= Len(stored[x] \o Fresh(n))
      /\ \A i \in 1..Len(stored[x]) : (stored[x] \o Fresh(n))[i] = stored[x][i]
  <2>1. stored[x] \in Seq(Logs)
    BY <1>2
  <2>. QED BY <1>2, <2>1, ConcatProperties
<1>4. /\ stored' \in [Executions -> Seq(Logs)]
      /\ \A y \in Executions : /\ Len(stored[y]) <= Len(stored'[y])
                               /\ \A i \in 1..Len(stored[y]) : stored'[y][i] = stored[y][i]
  BY <1>2, <1>3
<1>5. SubscriptionTypeOK'
  BY <1>1, <1>4 DEF SInv, SubscriptionTypeOK, IInv
<1>6. ASSUME NEW d \in Clients, NEW y \in Executions, Shown(d, y)
      PROVE  Shown(d, y)'
  <2>1. Elements(windows[y])' = Elements(windows[y])
    BY <1>1 DEF Elements
  <2>. QED BY <1>1, <1>6, <2>1 DEF Shown
<1>. QED BY <1>1, <1>4, <1>5, <1>6, QuietKeeps

(* Rows that are stored come behind those of any history.                  *)
LEMMA SavesKeep ==
  ASSUME SInv, NEW x \in Executions, SaveLogs(x) \/ RecoverLogs(x)
  PROVE  SInv'
<1>1. CASE SaveLogs(x)
  <2>1. PICK n \in Sizes : /\ stored' = [stored EXCEPT ![x] = @ \o Fresh(n)]
                           /\ saving' = [execution |-> x, logs |-> Fresh(n)]
    BY <1>1 DEF SaveLogs
  <2>2. saving' \in [execution : Executions, logs : Seq(Logs)]
    BY <2>1, FreshLogs
  <2>. QED BY <1>1, <2>1, <2>2, StoreKeeps DEF SaveLogs
<1>2. CASE RecoverLogs(x)
  <2>1. PICK n \in Sizes : stored' = [stored EXCEPT ![x] = @ \o Fresh(n)]
    BY <1>2 DEF RecoverLogs
  <2>2. saving' \in {NotSaving} \cup [execution : Executions, logs : Seq(Logs)]
    BY <1>2 DEF RecoverLogs, SInv, SubscriptionTypeOK
  <2>. QED BY <1>2, <2>1, <2>2, StoreKeeps DEF RecoverLogs
<1>. QED BY <1>1, <1>2

(* What a poll stored is handed to the ring.                               *)
LEMMA AddSavedKeeps ==
  ASSUME SInv, AddSaved
  PROVE  SInv' /\ UNCHANGED windows
<1>1. /\ saving \in [execution : Executions, logs : Seq(Logs)]
      /\ AddLogs(saving.execution, saving.logs)
      /\ saving' = NotSaving /\ UNCHANGED <<stored, socketVars, restarts>>
  BY DEF AddSaved, SInv, SubscriptionTypeOK
<1>2. IInv' /\ UNCHANGED windows
  BY <1>1, AddKeeps DEF SInv
<1>3. UNCHANGED <<online, rooms, handler, seen, told, since, hasty>>
  BY <1>1 DEF socketVars
<1>4. SubscriptionTypeOK'
  BY <1>1, <1>2, <1>3 DEF SInv, SubscriptionTypeOK, IInv
<1>5. ASSUME NEW d \in Clients, NEW y \in Executions, Shown(d, y)
      PROVE  Shown(d, y)'
  <2>1. Elements(windows[y])' = Elements(windows[y])
    BY <1>2 DEF Elements
  <2>. QED BY <1>3, <1>5, <2>1 DEF Shown
<1>6. \A x \in Executions : /\ Len(stored[x]) <= Len(stored'[x])
                            /\ \A i \in 1..Len(stored[x]) : stored'[x][i] = stored[x][i]
  BY <1>1 DEF SInv, SubscriptionTypeOK
<1>. QED BY <1>2, <1>3, <1>4, <1>5, <1>6, QuietKeeps

(* What is in the last elements of a sequence is in it, or was appended.   *)
LEMMA LastElements ==
  ASSUME NEW s \in Seq(Logs), NEW log \in Logs
  PROVE  Elements(Window!LastOf(Append(s, log), Capacity)) \subseteq Elements(s) \cup {log}
<1>1. /\ Append(s, log) \in Seq(Logs) /\ Len(Append(s, log)) = Len(s) + 1
      /\ \A i \in 1..(Len(s) + 1) : Append(s, log)[i] \in Elements(s) \cup {log}
  BY DEF Elements
<1>. DEFINE all == Append(s, log)
<1>. HIDE DEF all
<1>2. CASE Len(all) <= Capacity
  BY <1>1, <1>2 DEF Window!LastOf, Elements, all
<1>3. CASE ~(Len(all) <= Capacity)
  <2>1. Window!LastOf(all, Capacity) = [i \in 1..Capacity |-> all[Len(all) - Capacity + i]]
    BY <1>3 DEF Window!LastOf
  <2>2. \A i \in 1..Capacity : Len(all) - Capacity + i \in 1..(Len(s) + 1)
    BY <1>1, <1>3, CapacityIsPositive DEF all
  <2>. QED BY <1>1, <2>1, <2>2 DEF Elements, all
<1>. QED BY <1>2, <1>3 DEF all

(* A log into the ring goes to the room as well.                           *)
LEMMA NewLogsKeep ==
  ASSUME SInv, HandleNewLogs
  PROVE  SInv' /\ Window!Add(target, Head(pending)) /\ target \in Executions /\ Head(pending) \in Logs
<1>1. /\ PushLog
      /\ UNCHANGED <<storeVars, online, rooms, handler, told, since, hasty, restarts>>
  BY DEF HandleNewLogs
<1>2. /\ IInv' /\ target \in Executions /\ Head(pending) \in Logs
      /\ Window!Add(target, Head(pending))
  BY <1>1, PushLogKeeps DEF SInv
<1>3. seen \in [Clients -> [Executions -> SUBSET Logs]]
  BY DEF SInv, SubscriptionTypeOK
<1>. DEFINE log == Head(pending)
<1>4. \A c \in Clients : seen'[c] = IF c \in rooms[target] \cap online
                                   THEN [seen[c] EXCEPT ![target] = @ \cup {log}] ELSE seen[c]
  BY DEF HandleNewLogs
<1>5. DOMAIN seen' = Clients /\ seen' = [c \in Clients |-> seen'[c]]
  BY DEF HandleNewLogs
<1>. HIDE DEF log
<1>6. ASSUME NEW c \in Clients
      PROVE  /\ seen'[c] \in [Executions -> SUBSET Logs]
             /\ \A x \in Executions : seen[c][x] \subseteq seen'[c][x]
             /\ c \in rooms[target] \cap online => log \in seen'[c][target]
  <2>1. seen[c] \in [Executions -> SUBSET Logs] /\ log \in Logs
    BY <1>2, <1>3 DEF log
  <2>2. CASE c \in rooms[target] \cap online
    <3>1. seen'[c] = [seen[c] EXCEPT ![target] = @ \cup {log}]
      BY <1>4, <2>2
    <3>. QED BY <1>2, <2>1, <3>1
  <2>3. CASE c \notin rooms[target] \cap online
    <3>1. seen'[c] = seen[c]
      BY <1>4, <2>3
    <3>. QED BY <2>1, <2>3, <3>1
  <2>. QED BY <2>2, <2>3
<1>7. SubscriptionTypeOK'
  BY <1>1, <1>2, <1>5, <1>6 DEF SInv, SubscriptionTypeOK, IInv, storeVars
<1>8. ASSUME NEW c \in Clients, NEW x \in Executions, c \in rooms[x] \cap online, Shown(c, x)
      PROVE  Shown(c, x)'
  <2>1. windows \in [Executions -> Seq(Logs)]
    BY Rings DEF SInv
  <2>2. CASE x = target
    <3>1. windows'[x] = Window!LastOf(Append(windows[x], log), Capacity)
      BY <1>2, <2>1, <2>2 DEF Window!Add, log
    <3>2. Elements(windows'[x]) \subseteq Elements(windows[x]) \cup {log}
      BY <1>2, <2>1, <3>1, LastElements DEF log
    <3>. QED BY <1>6, <1>8, <2>2, <3>2 DEF Shown, Elements
  <2>3. CASE x # target
    <3>1. windows'[x] = windows[x]
      BY <1>2, <2>1, <2>3 DEF Window!Add
    <3>. QED BY <1>6, <1>8, <3>1 DEF Shown, Elements
  <2>. QED BY <2>2, <2>3
<1>9. \A x \in Executions : /\ Len(stored[x]) <= Len(stored'[x])
                            /\ \A i \in 1..Len(stored[x]) : stored'[x][i] = stored[x][i]
  BY <1>1 DEF SInv, SubscriptionTypeOK, storeVars
<1>10. SInv'
  BY <1>1, <1>2, <1>6, <1>7, <1>8, <1>9, QuietKeeps
<1>. QED BY <1>2, <1>10

(* After a restart nobody is online.                                       *)
LEMMA RestartKeeps ==
  ASSUME SInv, Restart
  PROVE  SInv' /\ Window!ClearAll
<1>1. /\ restarts' = restarts + 1 /\ restarts < MaxRestarts
      /\ buffers' = [x \in Executions |-> None] /\ pending' = <<>>
      /\ saving' = NotSaving /\ online' = {} /\ rooms' = [x \in Executions |-> {}]
      /\ handler' = [h \in Handlers |-> IdleHandler]
      /\ UNCHANGED <<target, stored, seen, told, since, hasty>>
  BY DEF Restart
<1>2. Window!ClearAll
  BY <1>1 DEF Window!ClearAll, windows
<1>3. IInv'
  BY <1>1 DEF SInv, IInv, TypeOK
<1>4. SubscriptionTypeOK'
  <2>1. handler' \in [Handlers -> HandlerState]
    BY <1>1 DEF HandlerState
  <2>2. restarts' \in 0..MaxRestarts
    BY <1>1, SubscriptionAssumption DEF SInv, SubscriptionTypeOK
  <2>. QED BY <1>1, <1>3, <2>1, <2>2 DEF SInv, SubscriptionTypeOK, IInv
<1>5. Stamps' /\ \A c \in Clients, x \in Executions : Pair(c, x)'
  BY <1>1 DEF SInv, Stamps, Pair
<1>. QED BY <1>2, <1>3, <1>4, <1>5 DEF SInv

-----------------------------------------------------------------------------
(* So every step keeps the invariant, and adds a log to a window or clears *)
(* them all.                                                               *)
LEMMA SubscriptionStep ==
  ASSUME SInv, [SubscriptionNext]_subscriptionVars
  PROVE  SInv' /\ [Window!Next]_windows
<1>1. ASSUME UNCHANGED vars PROVE UNCHANGED windows
  BY <1>1 DEF vars, windows
<1>2. ASSUME NEW c \in Clients, NEW auth \in Credentials, NEW cookie \in Credentials,
             HandleConnection(c, auth, cookie)
      PROVE  SInv' /\ UNCHANGED windows
  BY <1>1, <1>2, ConnectionKeeps DEF HandleConnection
<1>3. ASSUME NEW c \in Clients, HandleDisconnect(c)
      PROVE  SInv' /\ UNCHANGED windows
  BY <1>1, <1>3, DisconnectKeeps DEF HandleDisconnect
<1>4. ASSUME NEW h \in Handlers, Gateway(h)
      PROVE  SInv' /\ UNCHANGED windows
  <2>1. UNCHANGED gatewayRest
    BY <1>4 DEF Gateway, Refuse, JoinRoom, SendBuffered, SendHistory, SubscribeFails,
                Unsubscribed, HandleSubscribe, HandleUnsubscribe
  <2>2. SInv'
    BY <1>4, AnswersKeep, JoinKeeps, BufferedKeeps, HistoryKeeps, ArrivalKeeps DEF Gateway
  <2>. QED BY <2>1, <2>2, GatewayRest
<1>5. ASSUME NEW x \in Executions, SaveLogs(x) \/ RecoverLogs(x)
      PROVE  SInv' /\ UNCHANGED windows
  BY <1>1, <1>5, SavesKeep DEF SaveLogs, RecoverLogs
<1>6. ASSUME AddSaved PROVE SInv' /\ UNCHANGED windows
  BY <1>6, AddSavedKeeps
<1>7. CASE HandleNewLogs
  BY <1>7, NewLogsKeep DEF Window!Next
<1>8. CASE Restart
  BY <1>8, RestartKeeps DEF Window!Next
<1>9. CASE UNCHANGED subscriptionVars
  <2>1. UNCHANGED <<vars, storeVars, socketVars, restarts>>
    BY <1>9 DEF subscriptionVars
  <2>2. UNCHANGED <<windows, stored, saving, online, rooms, handler, seen, told, since, hasty>> /\ IInv'
    BY <2>1 DEF vars, windows, storeVars, socketVars, SInv, IInv, TypeOK
  <2>3. SubscriptionTypeOK'
    BY <2>1, <2>2 DEF SInv, SubscriptionTypeOK, IInv
  <2>4. \A c \in Clients, x \in Executions : Shown(c, x) => Shown(c, x)'
    BY <2>2 DEF Shown, Elements
  <2>5. \A x \in Executions : /\ Len(stored[x]) <= Len(stored'[x])
                              /\ \A i \in 1..Len(stored[x]) : stored'[x][i] = stored[x][i]
    BY <2>2 DEF SInv, SubscriptionTypeOK
  <2>. QED BY <2>2, <2>3, <2>4, <2>5, QuietKeeps
<1>. QED BY <1>2, <1>3, <1>4, <1>5, <1>6, <1>7, <1>8, <1>9 DEF SubscriptionNext

(* No socket is connected at first.                                        *)
LEMMA SubscriptionStart == SubscriptionInit => SInv /\ Window!Init
<1>. SUFFICES ASSUME SubscriptionInit PROVE SInv /\ Window!Init
  OBVIOUS
<1>1. Init
  BY DEF SubscriptionInit
<1>2. IInv /\ Window!Init
  BY <1>1, InitInv DEF Init, windows, Window!Init
<1>3. SubscriptionTypeOK
  BY <1>2, SubscriptionAssumption DEF SubscriptionInit, SubscriptionTypeOK, IInv, HandlerState,
     NothingPer, Answers
<1>4. Stamps /\ \A c \in Clients, x \in Executions : Pair(c, x)
  BY DEF SubscriptionInit, Stamps, Pair, NothingPer
<1>. QED BY <1>2, <1>3, <1>4 DEF SInv

(* The invariant holds of every behaviour.                                 *)
LEMMA SubscriptionInv == SubscriptionSpec => []SInv
<1>1. SInv /\ [SubscriptionNext]_subscriptionVars => SInv'
  BY SubscriptionStep
<1>. QED BY <1>1, SubscriptionStart, PTL DEF SubscriptionSpec

(* The ring stays a window with sockets, polls and restarts beside it.     *)
THEOREM SubscriptionWindow == SubscriptionSpec => ImplementsWindow
<1>1. SInv /\ [SubscriptionNext]_subscriptionVars => [Window!Next]_windows
  BY SubscriptionStep
<1>. QED BY <1>1, SubscriptionStart, SubscriptionInv, PTL DEF SubscriptionSpec, ImplementsWindow, Window!Spec

(* Every variable of LogSubscription keeps its type.                       *)
THEOREM SubscriptionTypes == SubscriptionSpec => []SubscriptionTypeOK
<1>1. SInv => SubscriptionTypeOK
  BY DEF SInv
<1>. QED BY <1>1, SubscriptionInv, PTL

(* handleSubscribe leaves no gap between room, buffer and history.         *)
THEOREM SubscribersCaughtUp == SubscriptionSpec => []SubscribersMissOnlyOld
<1>1. SInv => SubscribersMissOnlyOld
  <2>. SUFFICES ASSUME SInv, NEW c \in Clients, NEW x \in Executions,
                       Subscribed(c, x), <<c, x>> \notin hasty
                PROVE  /\ Elements(GetRecentLogs(x, 0)) \subseteq seen[c][x]
                       /\ \A i \in 1..since[c][x] : i <= HistoryLimit => stored[x][i] \in seen[c][x]
    BY DEF SubscribersMissOnlyOld
  <2>1. Patient(c, x)
    BY DEF SInv, Pair, Subscribed
  <2>. QED BY <2>1, RingShows DEF Patient, Subscribed, Shown, Taught
<1>. QED BY <1>1, SubscriptionInv, PTL

(* The last answer of the gateway is true of the socket it went to.        *)
THEOREM AnswersAreTrue == SubscriptionSpec => []ToldIsTrue
<1>1. SInv => ToldIsTrue
  <2>1. SInv => online \subseteq Clients
    BY DEF SInv, SubscriptionTypeOK
  <2>. QED BY <2>1 DEF SInv, Pair, Patient, ToldIsTrue
<1>. QED BY <1>1, SubscriptionInv, PTL

(* getRecentLogs answers readers beside all that as well.                  *)
THEOREM SubscriptionRecent == SubscriptionSpec => []RecentLogsAreLast
<1>1. SInv => RecentLogsAreLast
  BY RecentOfInv DEF SInv
<1>. QED BY <1>1, SubscriptionInv, PTL
=============================================================================
