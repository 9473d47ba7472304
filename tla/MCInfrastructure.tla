--------------------------- MODULE MCInfrastructure ---------------------------
(* Two pipelines of one account.                                                *)
EXTENDS Infrastructure, TLC

Symmetry == Permutations(Pipelines)
================================================================================
