--------------------------- MODULE MCBuildTracking ---------------------------
(* Model values and symmetry for the runs of BuildTracking. *)
EXTENDS BuildTracking, TLC

CONSTANTS b1, b2, x1, p1, p2, h1, h2, c1

HandlerSymmetry  == Permutations(Handlers)
PipelineSymmetry == Permutations(Pipelines) \cup Permutations(Builds)
=============================================================================
