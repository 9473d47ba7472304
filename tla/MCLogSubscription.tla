--------------------------- MODULE MCLogSubscription ---------------------------
(* Model values for the run of LogSubscription. *)
EXTENDS LogSubscription

CONSTANTS x1, x2, c1, c2, h1, h2

UpToMaxLogs == 1..MaxLogs
=============================================================================
