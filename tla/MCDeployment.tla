----------------------------- MODULE MCDeployment -----------------------------
(* Model values for the runs of Deployment. *)
EXTENDS Deployment

CONSTANT t1
=============================================================================
