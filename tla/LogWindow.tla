------------------------------- MODULE LogWindow -------------------------------
(***************************************************************************)
(* What the log buffer promises its readers: per execution, the last       *)
(* Capacity logs added since it was cleared, oldest first.                 *)
(***************************************************************************)
EXTENDS Naturals, Sequences

CONSTANTS Executions, Logs, Capacity

VARIABLE window

Init == window = [x \in Executions |-> <<>>]

(* The last n elements of s. *)
LastOf(s, n) == IF Len(s) <= n THEN s ELSE [i \in 1..n |-> s[Len(s) - n + i]]

Add(x, log) == window' = [window EXCEPT ![x] = LastOf(Append(@, log), Capacity)]

Clear(x) == window' = [window EXCEPT ![x] = <<>>]
ClearAll == window' = [x \in Executions |-> <<>>]

Next == \/ \E x \in Executions, log \in Logs : Add(x, log)
        \/ \E x \in Executions : Clear(x)
        \/ ClearAll

Spec == Init /\ [][Next]_window
=============================================================================
