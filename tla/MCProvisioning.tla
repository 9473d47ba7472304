---------------------------- MODULE MCProvisioning ----------------------------
(* Model values for the runs of Provisioning. *)
EXTENDS Provisioning

CONSTANTS u1, u2, i1, p1, p2, h1, h2, r1, r2
=============================================================================
