----------------------------- MODULE MCLogPolling -----------------------------
(* Model values for the runs of LogPolling. *)
EXTENDS LogPolling

CONSTANTS p1, p2, t1, t2, t3, j1, j2
=============================================================================
