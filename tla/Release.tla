--------------------------------- MODULE Release -------------------------------
(* What the tracking of builds promises of one build, whatever events reach it, *)
(* how often and in which order, and whatever is checked, patched, edited or    *)
(* restarted meanwhile: the build is deployed only after CodeBuild reported it  *)
(* SUCCEEDED; once at most, while Redis answers.                                *)
EXTENDS Naturals

CONSTANTS Endings,  \* the statuses a build ends with
          Once      \* whether a second deployment is ruled out

VARIABLES reported,    \* the status CodeBuild reports of the build
          deployments  \* the deployments started for it

releaseState == <<reported, deployments>>

ReleaseInit == reported = "NOT_STARTED" /\ deployments = 0

Start == reported = "NOT_STARTED" /\ reported' = "IN_PROGRESS" /\ UNCHANGED deployments

End(outcome) == reported = "IN_PROGRESS" /\ reported' = outcome /\ UNCHANGED deployments

Deploy ==
  /\ reported = "SUCCEEDED"
  /\ Once => deployments = 0
  /\ deployments' = deployments + 1
  /\ UNCHANGED reported

ReleaseNext == Start \/ (\E outcome \in Endings : End(outcome)) \/ Deploy

ReleaseSpec == ReleaseInit /\ [][ReleaseNext]_releaseState
================================================================================
