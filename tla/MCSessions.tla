------------------------------ MODULE MCSessions ------------------------------
(* Model values for the runs of Sessions; two browsers of one person. *)
EXTENDS Sessions, TLC

CONSTANTS a1, b1, b2, t1, t2, t3, r1, r2, r3

OnePerson == [b \in Browsers |-> a1]
Interchangeable == Permutations(Tokens) \cup Permutations(Requests)
=============================================================================
