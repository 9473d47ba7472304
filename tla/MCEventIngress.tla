---------------------------- MODULE MCEventIngress ----------------------------
(* Model values for the runs of EventIngress. *)
EXTENDS EventIngress

CONSTANTS e1, e2, l1, l2, r1, r2, r3
=============================================================================
