----------------------- MODULE Infrastructure_proofs ---------------------------
(* Proofs about module Infrastructure, for any number of pipelines, priorities, *)
(* zones and faults: the state keeps its types (TypeCorrect), a deployment that *)
(* ends well can be reached (DoneServed), only a fault leaves the security      *)
(* group without rules (GroupOpened), a zone set up by hand is cleaned          *)
(* (ZoneCleaned), and an undisturbed deployment ends well (LonersEndWell).      *)
(*                                                                              *)
(* The argument is the same each time: what a step does to the pipeline that    *)
(* takes it, one case per action, and what it leaves alone of the others        *)
(* (StepKeeps), once for all.                                                   *)
EXTENDS Infrastructure, TLAPS

(* A step of one pipeline's deployment or clean-up.                             *)
Step(p) == InfrastructureStep(p) \/ DeployStep(p) \/ CleanUpStep(p)

USE DEF Manual

(* Each change that a call makes to the account gives an account.               *)
LEMMA AccountParts ==
  ASSUME NEW a \in Account, NEW p \in Pipelines
  PROVE  /\ \A g \in {"bare", "open"} : [a EXCEPT !.group = g] \in Account
         /\ [a EXCEPT !.cluster = TRUE] \in Account
         /\ \A b \in {"otto", "hard"} : [a EXCEPT !.balancer = b] \in Account
         /\ [a EXCEPT !.listener = TRUE] \in Account
         /\ [a EXCEPT !.targets = @ \cup {p}] \in Account
         /\ [a EXCEPT !.targets = @ \ {p}] \in Account
         /\ \A k \in Priorities \cup {None} : [a EXCEPT !.rules[p] = k] \in Account
         /\ [a EXCEPT !.logs = @ \cup {p}] \in Account
         /\ [a EXCEPT !.services = @ \cup {p}] \in Account
         /\ [a EXCEPT !.services = @ \ {p}] \in Account
         /\ \A z \in Zones : [a EXCEPT !.zones = @ \cup {z}] \in Account
         /\ \A z \in Zones : [a EXCEPT !.records = @ \cup {<<p, z>>}] \in Account
         /\ \A z : [a EXCEPT !.records = @ \ {<<p, z>>}] \in Account
<1>1. \A g \in {"bare", "open"} : [a EXCEPT !.group = g] \in Account
  BY DEF Account
<1>2. [a EXCEPT !.cluster = TRUE] \in Account
  BY DEF Account
<1>3. \A b \in {"otto", "hard"} : [a EXCEPT !.balancer = b] \in Account
  BY DEF Account
<1>4. [a EXCEPT !.listener = TRUE] \in Account
  BY DEF Account
<1>5. [a EXCEPT !.targets = @ \cup {p}] \in Account /\ [a EXCEPT !.targets = @ \ {p}] \in Account
  BY DEF Account
<1>6. \A k \in Priorities \cup {None} : [a EXCEPT !.rules[p] = k] \in Account
  BY DEF Account
<1>7. [a EXCEPT !.logs = @ \cup {p}] \in Account
  BY DEF Account
<1>8. [a EXCEPT !.services = @ \cup {p}] \in Account /\ [a EXCEPT !.services = @ \ {p}] \in Account
  BY DEF Account
<1>9. \A z \in Zones : [a EXCEPT !.zones = @ \cup {z}] \in Account
  BY DEF Account
<1>10. \A z \in Zones : [a EXCEPT !.records = @ \cup {<<p, z>>}] \in Account
  BY DEF Account
<1>11. \A z : [a EXCEPT !.records = @ \ {<<p, z>>}] \in Account
  BY DEF Account
<1>. QED BY <1>1, <1>2, <1>3, <1>4, <1>5, <1>6, <1>7, <1>8, <1>9, <1>10, <1>11

(* Starting a deployment or a clean-up gives states of the right type.          *)
LEMMA Begun ==
  ASSUME TypeOK, NEW p \in Pipelines, NEW pc \in Catching \cup Deploying, Begin(p, pc)
  PROVE  deploy' \in [Pipelines -> Call]
<1>1. Idle \in Call
  BY BoundsAreNat DEF Idle, Call, Catching, Ended, Zones
<1>2. [Idle EXCEPT !.pc = pc, !.alone = (UnderWay = {}), !.since = faults] \in Call
  BY <1>1, BoundsAreNat DEF TypeOK, Call
<1>3. ASSUME NEW q \in Pipelines PROVE [deploy[q] EXCEPT !.alone = @ /\ q \notin UnderWay] \in Call
  BY <1>3 DEF TypeOK, Call
<1>. QED BY <1>2, <1>3 DEF Begin

(* So does going on to another call, and failing.                               *)
LEMMA Moved ==
  ASSUME TypeOK, NEW p \in Pipelines, NEW pc \in Catching \cup Deploying
  PROVE  /\ MoveTo(p, pc) => deploy' \in [Pipelines -> Call]
         /\ \A why \in {"call", "listener", "priority", "service"} :
              Fail(p, why) => deploy' \in [Pipelines -> Call]
BY DEF TypeOK, Call, MoveTo, Fail, Catching, Ended

(* So does a phase of cleanupPipelineResources, whether its call throws or not. *)
LEMMA PhaseTyped ==
  ASSUME TypeOK, NEW p \in Pipelines, NEW pc, NEW to \in Catching \cup Deploying,
         NEW result \in Account, Phase(p, pc, to, result)
  PROVE  TypeOK'
BY BoundsAreNat, Moved DEF Phase, TypeOK, Fault

(* Every step of a deployment or clean-up keeps the types; writing a record     *)
(* needs the zone to be one, which ServedInv knows.                             *)
LEMMA Typed ==
  ASSUME TypeOK, NEW p \in Pipelines, At(p, "record") => deploy[p].zone \in Zones, Step(p)
  PROVE  TypeOK'
<1>. USE BoundsAreNat, NoneIsNothing
<1>1. CASE Ask(p)
  BY <1>1 DEF Ask, Asking, After, At, MoveTo, rest, TypeOK, Account, Call,
     Discovering, Ended, Catching, Deploying, Zones, Priorities
<1>2. CASE DiscoverNetwork(p)
  BY <1>2 DEF DiscoverNetwork, At, MoveTo, rest, TypeOK, Account, Call,
     Asking, Discovering, Ended, Catching, Deploying, Zones, Priorities
<1>3. CASE FindGroup(p)
  BY <1>3, Moved, BoundsAreNat DEF FindGroup, Discovering, rest, TypeOK, Catching, Deploying
<1>4. CASE CreateGroup(p)
  BY <1>4, AccountParts, Moved DEF CreateGroup, At, rest, TypeOK, Catching,
     Discovering, Deploying, Asking, Ended
<1>5. CASE Authorize(p)
  BY <1>5, AccountParts, Moved DEF Authorize, At, rest, TypeOK, Catching,
     Discovering, Deploying, Asking, Ended
<1>6. CASE FindCluster(p)
  BY <1>6, Moved, BoundsAreNat DEF FindCluster, Discovering, rest, TypeOK, Catching, Deploying
<1>7. CASE CreateCluster(p)
  BY <1>7, AccountParts, Moved DEF CreateCluster, At, rest, TypeOK, Catching,
     Discovering, Deploying, Asking, Ended
<1>8. CASE DiscoverZones(p)
  BY <1>8 DEF DiscoverZones, ZonesFound, Fault, After, At, MoveTo, rest,
     TypeOK, Account, Call, Asking, Discovering, Ended, Catching, Deploying,
     Zones, Priorities
<1>9. CASE DiscoveryFails(p)
  BY <1>9 DEF DiscoveryFails, FallBack, Discovering, Fail, Fault, After, At,
     MoveTo, rest, TypeOK, Account, Call, Asking, Ended, Catching, Deploying,
     Zones, Priorities
<1>10. CASE Start(p)
  BY <1>10, Begun DEF Start, At, rest, TypeOK, Catching, Deploying, Asking
<1>11. CASE FindBalancer(p)
  BY <1>11, Moved DEF FindBalancer, Fault, At, rest, TypeOK, Catching,
     Discovering, Deploying, Asking, Ended
<1>12. CASE DescribeListeners(p)
  BY <1>12, Moved, BoundsAreNat DEF DescribeListeners, rest, TypeOK, Catching, Deploying
<1>13. CASE CreateLoadBalancer(p)
  BY <1>13, AccountParts, Moved DEF CreateLoadBalancer, GroupsOf, At, rest,
     TypeOK, Catching, Discovering, Deploying, Asking, Ended
<1>14. CASE CreateListener(p)
  BY <1>14, AccountParts, Moved DEF CreateListener, At, rest, TypeOK,
     Catching, Discovering, Deploying, Asking, Ended
<1>15. CASE ListTargetGroups(p)
  BY <1>15, Moved, BoundsAreNat DEF ListTargetGroups, rest, TypeOK, Catching, Deploying
<1>16. CASE CreateTargetGroup(p)
  BY <1>16, AccountParts, Moved DEF CreateTargetGroup, At, rest, TypeOK,
     Catching, Discovering, Deploying, Asking, Ended
<1>17. CASE FindRulesByHostHeader(p)
  BY <1>17, Moved, BoundsAreNat DEF FindRulesByHostHeader, rest, TypeOK, Catching, Deploying
<1>18. CASE ModifyRule(p)
  BY <1>18, Moved, BoundsAreNat DEF ModifyRule, rest, TypeOK, Catching, Deploying
<1>19. CASE CreateListenerRule(p)
  <2>1. PICK k \in Drawn :
           IF \E q \in Pipelines : aws.rules[q] = k
           THEN Fail(p, "priority") /\ UNCHANGED aws
           ELSE aws' = [aws EXCEPT !.rules[p] = k] /\ MoveTo(p, "logs")
    BY <1>19 DEF CreateListenerRule
  <2>2. [aws EXCEPT !.rules[p] = k] \in Account
    BY AccountParts DEF Drawn, TypeOK
  <2>3. aws' \in Account
    BY <2>1, <2>2 DEF TypeOK
  <2>4. deploy' \in [Pipelines -> Call]
    BY <2>1, Moved DEF Deploying
  <2>. QED BY <1>19, <2>3, <2>4 DEF CreateListenerRule, TypeOK, rest
<1>20. CASE EnsureLogGroupExists(p)
  BY <1>20, AccountParts, Moved DEF EnsureLogGroupExists, At, rest, TypeOK,
     Catching, Discovering, Deploying, Asking, Ended
<1>21. CASE RegisterTaskDefinition(p)
  BY <1>21, Moved, BoundsAreNat DEF RegisterTaskDefinition, rest, TypeOK, Catching, Deploying
<1>22. CASE DescribeServices(p)
  BY <1>22, Moved, BoundsAreNat DEF DescribeServices, Fault, rest, TypeOK, Catching, Deploying
<1>23. CASE UpdateService(p)
  BY <1>23, Moved, BoundsAreNat DEF UpdateService, rest, TypeOK, Catching, Deploying
<1>24. CASE CreateService(p)
  BY <1>24 DEF CreateService, Fail, At, MoveTo, rest, TypeOK, Account, Call,
     Asking, Discovering, Ended, Catching, Deploying, Zones, Priorities
<1>25. CASE FindHostedZone(p)
  BY <1>25 DEF FindHostedZone, ZonesFound, At, MoveTo, rest, TypeOK, Account,
     Call, Asking, Discovering, Ended, Catching, Deploying, Zones, Priorities
<1>26. CASE CreateHostedZone(p)
  BY <1>26 DEF CreateHostedZone, At, MoveTo, rest, TypeOK, Account, Call,
     Asking, Discovering, Ended, Catching, Deploying, Zones, Priorities
<1>27. CASE CreateRecord(p)
  BY <1>27, AccountParts, Moved DEF CreateRecord, At, rest, TypeOK, Catching,
     Discovering, Deploying, Asking, Ended, Priorities, Call
<1>28. CASE Throws(p)
  BY <1>28, Moved DEF Throws, Fault, Catching, Asking, Discovering, Ended,
     At, rest, TypeOK, Deploying
<1>29. CASE CleanUp(p)
  BY <1>29, Begun DEF CleanUp, At, rest, TypeOK, Catching, Deploying, Asking
<1>30. CASE DeleteService(p)
  BY <1>30, AccountParts, PhaseTyped DEF DeleteService, TypeOK, Catching,
     Deploying
<1>31. CASE DeleteRule(p)
  BY <1>31, AccountParts, PhaseTyped DEF DeleteRule, TypeOK, Catching,
     Deploying
<1>32. CASE DeleteTargetGroup(p)
  BY <1>32, AccountParts, PhaseTyped DEF DeleteTargetGroup, TypeOK, Catching,
     Deploying, Asking
<1>33. CASE DeleteRecord(p)
  BY <1>33, AccountParts, PhaseTyped DEF DeleteRecord, TypeOK, Catching,
     Deploying, Ended
<1>. QED
  BY <1>1, <1>2, <1>3, <1>4, <1>5, <1>6, <1>7, <1>8, <1>9, <1>10, <1>11,
     <1>12, <1>13, <1>14, <1>15, <1>16, <1>17, <1>18, <1>19, <1>20, <1>21,
     <1>22, <1>23, <1>24, <1>25, <1>26, <1>27, <1>28, <1>29, <1>30, <1>31,
     <1>32, <1>33 DEF Step, InfrastructureStep, DeployStep, CleanUpStep
--------------------------------------------------------------------------------
(* Where a deployment is in its own course: a discovery belongs to the place    *)
(* that asked for it.                                                           *)
Discovery == Discovering \cup {"hostedZones"}
Where(p) == IF deploy[p].pc \in Discovery THEN deploy[p].ret ELSE deploy[p].pc

(* The places from which on each thing has been made or found.                  *)
Final      == {"last", "done"}
Serviced   == {"findZone", "createZone", "record"} \cup Final
Registered == {"register", "describe", "createService", "updateService"} \cup Serviced
Logged     == {"ecs"} \cup Registered
Ruled      == {"modifyRule", "logs"} \cup Logged
Targeted   == {"findRules", "createRule"} \cup Ruled
Listening  == {"listTargets", "createTarget"} \cup Targeted
Balanced   == {"listeners", "createListener"} \cup Listening

(* What a deployment has passed exists.                                         *)
Progress(p) ==
  /\ Where(p) \in Balanced => aws.balancer # None
  /\ Where(p) \in Listening => aws.listener
  /\ Where(p) \in Targeted => p \in aws.targets
  /\ Where(p) \in Ruled => aws.rules[p] # None
  /\ Where(p) \in Logged => p \in aws.logs
  /\ Where(p) \in Registered => aws.cluster
  /\ Where(p) \in Serviced \cup {"updateService"} => p \in aws.services
  /\ Where(p) = "record" => deploy[p].zone \in aws.zones
  /\ Where(p) \in Final => \E z \in aws.zones : <<p, z>> \in aws.records

(* So does what a discovery has found.                                          *)
Found(p) ==
  /\ deploy[p].pc \in Discovery => deploy[p].ret \in Asking
  /\ deploy[p].pc \in {"authorize", "findCluster", "createCluster", "hostedZones"}
       => aws.group # "none"
  /\ deploy[p].pc = "hostedZones" => aws.cluster

ServedInv ==
  /\ CachedExists
  /\ \A p \in Pipelines : Progress(p) /\ Found(p)

(* With a zone set up by hand and no fault yet, the zone is the only one, the   *)
(* cache holds it from the first service on, and every record is in it.         *)
Cleaning == {"cleanService", "removeService", "removeRule", "removeTarget", "cleanZone",
             "removeRecord", "cleaned"}

ZoneOK(p) ==
  /\ deploy[p].pc # "createZone"
  /\ deploy[p].pc = "record" => deploy[p].zone = 1
  /\ deploy[p].pc \in Discovery => deploy[p].ret \in {"subnets", "groups", "ecs"}
  /\ deploy[p].pc \in Registered \cup Cleaning => cache # None
  /\ \A z \in Zones : <<p, z>> \in aws.records => z = 1 /\ deploy[p].pc # "cleaned"

ZoneInv ==
  manual /\ faults = 0 =>
    /\ aws.zones = {1} /\ cache \in {None, 1}
    /\ \A p \in Pipelines : ZoneOK(p)

(* A deployment alone since it began, with no fault since.                      *)
Lonely(p) == deploy[p].alone /\ deploy[p].since = faults

Making == {"subnets", "groups", "createBalancer"}

(* The balancer is there without its listener, and nobody is to make one.       *)
Stuck ==
  /\ aws.balancer # None /\ ~aws.listener /\ faults > 0
  /\ \A q \in Pipelines : Where(q) \notin Making \cup {"createListener"}

(* What such a deployment meets while under way.                                *)
Quiet(p) ==
  /\ deploy[p].hard = {}
  /\ Where(p) \in Making => aws.balancer = None
  /\ At(p, "createGroup") => aws.group = "none"
  /\ At(p, "createZone") => aws.zones = {}
  /\ At(p, "createService") => p \notin aws.services

LonerOK(p) ==
  /\ deploy[p].since <= faults
  /\ deploy[p].alone /\ p \in UnderWay => UnderWay = {p}
  /\ Lonely(p) /\ p \in UnderWay => Quiet(p)
  /\ Lonely(p) /\ At(p, "failed") =>
       deploy[p].why = "priority" \/ (deploy[p].why = "listener" /\ Stuck)

LonerInv ==
  /\ \A p \in Pipelines : LonerOK(p)
  /\ aws.balancer # None /\ ~aws.listener
       => faults > 0 \/ \E q \in Pipelines : At(q, "createListener")

(* What a step of another deployment leaves alone of q's, and what it never     *)
(* takes away from anybody.                                                     *)
Keeps(q) ==
  /\ deploy'[q].pc = deploy[q].pc /\ deploy'[q].ret = deploy[q].ret
  /\ deploy'[q].hard = deploy[q].hard /\ deploy'[q].zone = deploy[q].zone
  /\ deploy'[q].since = deploy[q].since /\ deploy'[q].why = deploy[q].why
  /\ deploy'[q].alone => deploy[q].alone
  /\ q \in aws'.targets <=> q \in aws.targets
  /\ q \in aws'.logs <=> q \in aws.logs
  /\ q \in aws'.services <=> q \in aws.services
  /\ aws'.rules[q] = aws.rules[q]
  /\ \A z : <<q, z>> \in aws'.records <=> <<q, z>> \in aws.records

Grows ==
  /\ aws.balancer # None => aws'.balancer # None
  /\ aws.listener => aws'.listener
  /\ aws.cluster => aws'.cluster
  /\ aws.group # "none" => aws'.group # "none"
  /\ aws.zones \subseteq aws'.zones

(* Starting a deployment changes nothing of another's but whether it is alone.  *)
LEMMA BegunKeeps ==
  ASSUME TypeOK, NEW p \in Pipelines, NEW pc, Begin(p, pc), aws' = aws
  PROVE  Grows /\ \A q \in Pipelines \ {p} : Keeps(q)
<1>1. Grows
  BY DEF Grows
<1>2. ASSUME NEW q \in Pipelines \ {p} PROVE Keeps(q)
  <2>1. deploy'[q] = [deploy[q] EXCEPT !.alone = @ /\ q \notin UnderWay]
    BY <1>2 DEF Begin
  <2>2. deploy[q] \in Call
    BY <1>2 DEF TypeOK
  <2>3. /\ deploy'[q].pc = deploy[q].pc /\ deploy'[q].ret = deploy[q].ret
        /\ deploy'[q].hard = deploy[q].hard /\ deploy'[q].zone = deploy[q].zone
        /\ deploy'[q].since = deploy[q].since /\ deploy'[q].why = deploy[q].why
    BY <2>1, <2>2 DEF Call
  <2>4. deploy'[q].alone = (deploy[q].alone /\ q \notin UnderWay)
    BY <2>1, <2>2 DEF Call
  <2>. QED BY <2>3, <2>4 DEF Keeps
<1>. QED BY <1>1, <1>2

(* A step of one deployment leaves another's own parts alone, and takes none of *)
(* the shared parts away.                                                       *)
LEMMA StepKeeps ==
  ASSUME TypeOK, NEW p \in Pipelines, Step(p)
  PROVE  Grows /\ \A q \in Pipelines \ {p} : Keeps(q)
<1>. USE NoneIsNothing
<1>1. CASE Ask(p)
  BY <1>1 DEF Ask, MoveTo, rest, Keeps, Grows, TypeOK, Account, Call
<1>2. CASE DiscoverNetwork(p)
  BY <1>2 DEF DiscoverNetwork, MoveTo, rest, Keeps, Grows, TypeOK, Account,
     Call
<1>3. CASE FindGroup(p)
  BY <1>3 DEF FindGroup, MoveTo, rest, Keeps, Grows, TypeOK, Account, Call
<1>4. CASE CreateGroup(p)
  BY <1>4 DEF CreateGroup, MoveTo, rest, Keeps, Grows, TypeOK, Account, Call
<1>5. CASE Authorize(p)
  BY <1>5 DEF Authorize, MoveTo, rest, Keeps, Grows, TypeOK, Account, Call
<1>6. CASE FindCluster(p)
  BY <1>6 DEF FindCluster, MoveTo, rest, Keeps, Grows, TypeOK, Account, Call
<1>7. CASE CreateCluster(p)
  BY <1>7 DEF CreateCluster, MoveTo, rest, Keeps, Grows, TypeOK, Account,
     Call
<1>8. CASE DiscoverZones(p)
  BY <1>8 DEF DiscoverZones, Fault, MoveTo, rest, Keeps, Grows, TypeOK,
     Account, Call
<1>9. CASE DiscoveryFails(p)
  BY <1>9 DEF DiscoveryFails, FallBack, Fail, Fault, MoveTo, rest, Keeps,
     Grows, TypeOK, Account, Call
<1>10. CASE Start(p)
  BY <1>10, BegunKeeps DEF Start
<1>11. CASE FindBalancer(p)
  BY <1>11 DEF FindBalancer, Fault, MoveTo, rest, Keeps, Grows, TypeOK,
     Account, Call
<1>12. CASE DescribeListeners(p)
  BY <1>12 DEF DescribeListeners, Fail, MoveTo, rest, Keeps, Grows, TypeOK,
     Account, Call
<1>13. CASE CreateLoadBalancer(p)
  BY <1>13 DEF CreateLoadBalancer, GroupsOf, MoveTo, rest, Keeps, Grows,
     TypeOK, Account, Call
<1>14. CASE CreateListener(p)
  BY <1>14 DEF CreateListener, MoveTo, rest, Keeps, Grows, TypeOK, Account,
     Call
<1>15. CASE ListTargetGroups(p)
  BY <1>15 DEF ListTargetGroups, MoveTo, rest, Keeps, Grows, TypeOK, Account,
     Call
<1>16. CASE CreateTargetGroup(p)
  BY <1>16 DEF CreateTargetGroup, MoveTo, rest, Keeps, Grows, TypeOK,
     Account, Call
<1>17. CASE FindRulesByHostHeader(p)
  BY <1>17 DEF FindRulesByHostHeader, MoveTo, rest, Keeps, Grows, TypeOK,
     Account, Call
<1>18. CASE ModifyRule(p)
  BY <1>18 DEF ModifyRule, MoveTo, rest, Keeps, Grows, TypeOK, Account, Call
<1>19. CASE CreateListenerRule(p)
  <2>1. PICK k \in Drawn :
           IF \E q \in Pipelines : aws.rules[q] = k
           THEN Fail(p, "priority") /\ UNCHANGED aws
           ELSE aws' = [aws EXCEPT !.rules[p] = k] /\ MoveTo(p, "logs")
    BY <1>19 DEF CreateListenerRule
  <2>2. CASE \E q \in Pipelines : aws.rules[q] = k
    BY <2>1, <2>2 DEF Fail, Keeps, Grows, TypeOK, Call
  <2>3. CASE ~ \E q \in Pipelines : aws.rules[q] = k
    <3>1. aws' = [aws EXCEPT !.rules[p] = k] /\ MoveTo(p, "logs")
      BY <2>1, <2>3
    <3>. QED BY <3>1 DEF MoveTo, Keeps, Grows, TypeOK, Account, Call
  <2>. QED BY <2>2, <2>3
<1>20. CASE EnsureLogGroupExists(p)
  BY <1>20 DEF EnsureLogGroupExists, MoveTo, rest, Keeps, Grows, TypeOK,
     Account, Call
<1>21. CASE RegisterTaskDefinition(p)
  BY <1>21 DEF RegisterTaskDefinition, MoveTo, rest, Keeps, Grows, TypeOK,
     Account, Call
<1>22. CASE DescribeServices(p)
  BY <1>22 DEF DescribeServices, Fault, MoveTo, rest, Keeps, Grows, TypeOK,
     Account, Call
<1>23. CASE UpdateService(p)
  BY <1>23 DEF UpdateService, MoveTo, rest, Keeps, Grows, TypeOK, Account,
     Call
<1>24. CASE CreateService(p)
  <2>1. CASE p \in aws.services
    BY <1>24, <2>1 DEF CreateService, Fail, rest, Keeps, Grows, TypeOK, Call
  <2>2. CASE p \notin aws.services
    <3>1. aws' = [aws EXCEPT !.services = @ \cup {p}] /\ MoveTo(p, "findZone")
      BY <1>24, <2>2 DEF CreateService
    <3>. QED BY <3>1 DEF MoveTo, Keeps, Grows, TypeOK, Account, Call
  <2>. QED BY <2>1, <2>2
<1>25. CASE FindHostedZone(p)
  BY <1>25 DEF FindHostedZone, MoveTo, rest, Keeps, Grows, TypeOK, Account,
     Call
<1>26. CASE CreateHostedZone(p)
  BY <1>26 DEF CreateHostedZone, MoveTo, rest, Keeps, Grows, TypeOK, Account,
     Call
<1>27. CASE CreateRecord(p)
  BY <1>27 DEF CreateRecord, MoveTo, rest, Keeps, Grows, TypeOK, Account,
     Call
<1>28. CASE Throws(p)
  BY <1>28 DEF Throws, Fail, Fault, Ended, MoveTo, rest, Keeps, Grows,
     TypeOK, Account, Call
<1>29. CASE CleanUp(p)
  BY <1>29, BegunKeeps DEF CleanUp
<1>30. CASE DeleteService(p)
  BY <1>30 DEF DeleteService, Phase, Fault, MoveTo, rest, Keeps, Grows,
     TypeOK, Account, Call
<1>31. CASE DeleteRule(p)
  BY <1>31 DEF DeleteRule, Phase, Fault, MoveTo, rest, Keeps, Grows, TypeOK,
     Account, Call
<1>32. CASE DeleteTargetGroup(p)
  BY <1>32 DEF DeleteTargetGroup, Phase, Fault, MoveTo, rest, Keeps, Grows,
     TypeOK, Account, Call
<1>33. CASE DeleteRecord(p)
  <2>1. MoveTo(p, "cleaned")
    BY <1>33 DEF DeleteRecord, Phase
  <2>2. aws' = aws \/ aws' = [aws EXCEPT !.records = @ \ {<<p, cache>>}]
    BY <1>33 DEF DeleteRecord, Phase
  <2>3. CASE aws' = aws
    BY <2>1, <2>3 DEF MoveTo, Keeps, Grows, TypeOK, Call
  <2>4. CASE aws' = [aws EXCEPT !.records = @ \ {<<p, cache>>}]
    BY <2>1, <2>4 DEF MoveTo, Keeps, Grows, TypeOK, Account, Call
  <2>. QED BY <2>2, <2>3, <2>4
<1>. QED
  BY <1>1, <1>2, <1>3, <1>4, <1>5, <1>6, <1>7, <1>8, <1>9, <1>10, <1>11,
     <1>12, <1>13, <1>14, <1>15, <1>16, <1>17, <1>18, <1>19, <1>20, <1>21,
     <1>22, <1>23, <1>24, <1>25, <1>26, <1>27, <1>28, <1>29, <1>30, <1>31,
     <1>32, <1>33 DEF Step, InfrastructureStep, DeployStep, CleanUpStep

(* What another deployment has made or found is still there after a step that   *)
(* only adds to what is shared.                                                 *)
LEMMA ServedOthers ==
  ASSUME TypeOK, NEW q \in Pipelines, Progress(q), Found(q), Grows, Keeps(q)
  PROVE  Progress(q)' /\ Found(q)'
<1>1. Where(q)' = Where(q)
  BY DEF Where, Keeps
<1>2. Progress(q)'
  <2>1. Where(q) \in Final => \E z \in aws'.zones : <<q, z>> \in aws'.records
    BY DEF Progress, Grows, Keeps
  <2>. QED BY <1>1, <2>1 DEF Progress, Grows, Keeps
<1>3. Found(q)'
  BY DEF Found, Grows, Keeps
<1>. QED BY <1>2, <1>3

(* After its own step, a deployment has made or found what its new place says.  *)
LEMMA ServedOwn ==
  ASSUME TypeOK, CachedExists, NEW p \in Pipelines, Progress(p), Found(p), Step(p)
  PROVE  Progress(p)' /\ Found(p)'
<1>. USE NoneIsNothing DEF Progress, Found, Where, Discovery, Discovering, Asking, Final,
       Serviced, Registered, Logged, Ruled, Targeted, Listening, Balanced, At, TypeOK, Call
<1>1. CASE Ask(p)
  <2>1. aws' = aws /\ deploy[p].pc \in Asking
    BY <1>1 DEF Ask
  <2>2. CASE cache = None
    BY <1>1, <2>1, <2>2 DEF Ask
  <2>3. CASE cache # None
    <3>1. deploy' = [deploy EXCEPT ![p].pc = After(deploy[p].pc)]
      BY <1>1, <2>3 DEF Ask, MoveTo
    <3>2. deploy'[p].pc = After(deploy[p].pc)
      BY <3>1
    <3>3. aws.cluster
      BY <2>3 DEF CachedExists
    <3>. QED BY <2>1, <3>2, <3>3 DEF After
  <2>. QED BY <2>2, <2>3
<1>2. CASE DiscoverNetwork(p)
  BY <1>2 DEF DiscoverNetwork, MoveTo, rest, Account
<1>3. CASE FindGroup(p)
  BY <1>3 DEF FindGroup, MoveTo, rest, Account
<1>4. CASE CreateGroup(p)
  BY <1>4 DEF CreateGroup, MoveTo, rest, Account
<1>5. CASE Authorize(p)
  BY <1>5 DEF Authorize, MoveTo, rest, Account
<1>6. CASE FindCluster(p)
  BY <1>6 DEF FindCluster, MoveTo, rest, Account
<1>7. CASE CreateCluster(p)
  <2>1. /\ aws'.group = aws.group /\ aws'.zones = aws.zones /\ aws'.records = aws.records
        /\ aws'.balancer = aws.balancer /\ aws'.listener = aws.listener
        /\ aws'.targets = aws.targets /\ aws'.rules = aws.rules /\ aws'.logs = aws.logs
        /\ aws'.services = aws.services /\ aws'.cluster
    BY <1>7 DEF CreateCluster, Account
  <2>2. /\ deploy[p].pc = "createCluster" /\ deploy'[p].pc = "hostedZones"
        /\ deploy'[p].ret = deploy[p].ret
    BY <1>7 DEF CreateCluster, MoveTo
  <2>. QED BY <2>1, <2>2
<1>8. CASE DiscoverZones(p)
  BY <1>8 DEF DiscoverZones, ZonesFound, Fault, After, MoveTo, rest, Account
<1>9. CASE DiscoveryFails(p)
  BY <1>9 DEF DiscoveryFails, FallBack, Fail, Fault, After, MoveTo, rest,
     Account
<1>10. CASE Start(p)
  BY <1>10 DEF Start, Begin, Idle, UnderWay, Ended, MoveTo, rest, Account
<1>11. CASE FindBalancer(p)
  BY <1>11 DEF FindBalancer, Fault, MoveTo, rest, Account
<1>12. CASE DescribeListeners(p)
  BY <1>12 DEF DescribeListeners, Fail, MoveTo, rest, Account
<1>13. CASE CreateLoadBalancer(p)
  BY <1>13 DEF CreateLoadBalancer, GroupsOf, MoveTo, rest, Account
<1>14. CASE CreateListener(p)
  BY <1>14 DEF CreateListener, MoveTo, rest, Account
<1>15. CASE ListTargetGroups(p)
  BY <1>15 DEF ListTargetGroups, MoveTo, rest, Account
<1>16. CASE CreateTargetGroup(p)
  BY <1>16 DEF CreateTargetGroup, MoveTo, rest, Account
<1>17. CASE FindRulesByHostHeader(p)
  BY <1>17 DEF FindRulesByHostHeader, MoveTo, rest, Account
<1>18. CASE ModifyRule(p)
  BY <1>18 DEF ModifyRule, MoveTo, rest, Account
<1>19. CASE CreateListenerRule(p)
  <2>1. PICK k \in Drawn :
           IF \E q \in Pipelines : aws.rules[q] = k
           THEN Fail(p, "priority") /\ UNCHANGED aws
           ELSE aws' = [aws EXCEPT !.rules[p] = k] /\ MoveTo(p, "logs")
    BY <1>19 DEF CreateListenerRule
  <2>2. CASE \E q \in Pipelines : aws.rules[q] = k
    BY <2>1, <2>2 DEF Fail
  <2>3. CASE ~ \E q \in Pipelines : aws.rules[q] = k
    <3>1. aws' = [aws EXCEPT !.rules[p] = k] /\ MoveTo(p, "logs")
      BY <2>1, <2>3
    <3>2. k # None
      BY DEF Drawn, Priorities
    <3>3. deploy[p].pc = "createRule"
      BY <1>19 DEF CreateListenerRule
    <3>. QED BY <3>1, <3>2, <3>3 DEF MoveTo, Account
  <2>. QED BY <2>2, <2>3
<1>20. CASE EnsureLogGroupExists(p)
  BY <1>20 DEF EnsureLogGroupExists, MoveTo, rest, Account
<1>21. CASE RegisterTaskDefinition(p)
  BY <1>21 DEF RegisterTaskDefinition, MoveTo, rest, Account
<1>22. CASE DescribeServices(p)
  BY <1>22 DEF DescribeServices, Fault, MoveTo, rest, Account
<1>23. CASE UpdateService(p)
  BY <1>23 DEF UpdateService, MoveTo, rest, Account
<1>24. CASE CreateService(p)
  BY <1>24 DEF CreateService, Fail, MoveTo, rest, Account
<1>25. CASE FindHostedZone(p)
  BY <1>25 DEF FindHostedZone, ZonesFound, MoveTo, rest, Account
<1>26. CASE CreateHostedZone(p)
  BY <1>26 DEF CreateHostedZone, MoveTo, rest, Account
<1>27. CASE CreateRecord(p)
  BY <1>27 DEF CreateRecord, MoveTo, rest, Account
<1>28. CASE Throws(p)
  BY <1>28 DEF Throws, Fail, Fault, Catching, Ended, MoveTo, rest, Account
<1>29. CASE CleanUp(p)
  BY <1>29 DEF CleanUp, Begin, Idle, UnderWay, Ended, MoveTo, rest, Account
<1>30. CASE DeleteService(p)
  BY <1>30 DEF DeleteService, Phase, Fault, MoveTo, rest, Account
<1>31. CASE DeleteRule(p)
  BY <1>31 DEF DeleteRule, Phase, Fault, MoveTo, rest, Account
<1>32. CASE DeleteTargetGroup(p)
  BY <1>32 DEF DeleteTargetGroup, Phase, Fault, MoveTo, rest, Account
<1>33. CASE DeleteRecord(p)
  BY <1>33 DEF DeleteRecord, Phase, Fault, MoveTo, rest, Account
<1>. QED
  BY <1>1, <1>2, <1>3, <1>4, <1>5, <1>6, <1>7, <1>8, <1>9, <1>10, <1>11,
     <1>12, <1>13, <1>14, <1>15, <1>16, <1>17, <1>18, <1>19, <1>20, <1>21,
     <1>22, <1>23, <1>24, <1>25, <1>26, <1>27, <1>28, <1>29, <1>30, <1>31,
     <1>32, <1>33 DEF Step, InfrastructureStep, DeployStep, CleanUpStep

(* Only the end of a discovery sets the cache.                                  *)
LEMMA CacheStep ==
  ASSUME TypeOK, NEW p \in Pipelines, Step(p), ~DiscoverZones(p)
  PROVE  cache' = cache
BY DEF Step, InfrastructureStep, DeployStep, CleanUpStep, rest, Phase,
       Ask, DiscoverNetwork, FindGroup, CreateGroup, Authorize, FindCluster,
       CreateCluster, DiscoverZones, DiscoveryFails, Start, FindBalancer,
       DescribeListeners, CreateLoadBalancer, CreateListener,
       ListTargetGroups, CreateTargetGroup, FindRulesByHostHeader, ModifyRule,
       CreateListenerRule, EnsureLogGroupExists, RegisterTaskDefinition,
       DescribeServices, UpdateService, CreateService, FindHostedZone,
       CreateHostedZone, CreateRecord, Throws, CleanUp, DeleteService,
       DeleteRule, DeleteTargetGroup, DeleteRecord

(* A step adds at most one fault, and nothing changes who set the zone up.      *)
LEMMA FaultsStep ==
  ASSUME TypeOK, NEW p \in Pipelines, Step(p)
  PROVE  faults' \in {faults, faults + 1} /\ manual' = manual
BY DEF Step, InfrastructureStep, DeployStep, CleanUpStep, rest, Phase, Fault,
       Ask, DiscoverNetwork, FindGroup, CreateGroup, Authorize, FindCluster,
       CreateCluster, DiscoverZones, DiscoveryFails, Start, FindBalancer,
       DescribeListeners, CreateLoadBalancer, CreateListener,
       ListTargetGroups, CreateTargetGroup, FindRulesByHostHeader, ModifyRule,
       CreateListenerRule, EnsureLogGroupExists, RegisterTaskDefinition,
       DescribeServices, UpdateService, CreateService, FindHostedZone,
       CreateHostedZone, CreateRecord, Throws, CleanUp, DeleteService,
       DeleteRule, DeleteTargetGroup, DeleteRecord

(* What the cache holds goes on existing: no step removes the group, the        *)
(* cluster or a zone.                                                           *)
LEMMA CachedStep ==
  ASSUME TypeOK, CachedExists, NEW p \in Pipelines, Found(p), Step(p)
  PROVE  CachedExists'
<1>1. Grows
  BY StepKeeps
<1>2. CASE DiscoverZones(p)
  <2>1. aws' = aws /\ cache' \in aws.zones \cup {Manual}
    BY <1>2 DEF DiscoverZones, ZonesFound
  <2>2. aws.cluster /\ aws.group # "none"
    BY <1>2 DEF DiscoverZones, Found, At
  <2>. QED BY <2>1, <2>2 DEF CachedExists
<1>3. CASE ~DiscoverZones(p)
  BY <1>1, <1>3, CacheStep DEF CachedExists, Grows
<1>. QED BY <1>2, <1>3

(* A restart ends what is under way, empties the cache and keeps the account.   *)
LEMMA RestartServed ==
  ASSUME TypeOK, ServedInv, Restart
  PROVE  TypeOK' /\ ServedInv'
<1>1. /\ aws' = aws /\ cache' = None /\ manual' = manual /\ known' = known
      /\ faults < MaxFaults /\ faults' = faults + 1
  BY DEF Restart, Fault
<1>2. ASSUME NEW q \in Pipelines
      PROVE  /\ deploy'[q] \in Call
             /\ deploy'[q] = deploy[q] \/ deploy'[q].pc = "failed"
  <2>1. CASE q \in UnderWay
    <3>1. deploy'[q] = [Idle EXCEPT !.pc = "failed", !.why = "call"]
      BY <2>1 DEF Restart
    <3>2. Idle \in Call
      BY BoundsAreNat DEF Idle, Call, Catching, Ended, Zones
    <3>3. deploy'[q] \in Call
      BY <3>1, <3>2 DEF Call, Catching, Ended
    <3>4. deploy'[q].pc = "failed"
      BY <3>1, <3>2 DEF Call
    <3>. QED BY <3>3, <3>4
  <2>2. CASE q \notin UnderWay
    BY <2>2 DEF Restart, TypeOK
  <2>. QED BY <2>1, <2>2
<1>3. deploy' \in [Pipelines -> Call]
  BY <1>2 DEF Restart
<1>4. TypeOK'
  BY <1>1, <1>3, BoundsAreNat DEF TypeOK
<1>5. ASSUME NEW q \in Pipelines PROVE Progress(q)' /\ Found(q)'
  <2>1. CASE deploy'[q] = deploy[q]
    BY <1>1, <2>1 DEF ServedInv, Progress, Found, Where
  <2>2. CASE deploy'[q].pc = "failed"
    BY <2>2 DEF Progress, Found, Where, Discovery, Discovering, Final, Serviced, Registered,
       Logged, Ruled, Targeted, Listening, Balanced
  <2>. QED BY <1>2, <2>1, <2>2
<1>6. CachedExists'
  BY <1>1 DEF CachedExists
<1>. QED BY <1>4, <1>5, <1>6 DEF ServedInv

(* The types and what is made by then hold together, each in need of the other. *)
IInv == TypeOK /\ ServedInv

(* The account starts with at most a zone, so there is nothing to have found.   *)
THEOREM InitServed == Init => IInv
<1>. SUFFICES ASSUME Init PROVE IInv
  OBVIOUS
<1>. USE BoundsAreNat, NoneIsNothing
<1>1. Idle \in Call
  BY DEF Idle, Call, Catching, Ended, Zones
<1>2. aws \in Account
  BY DEF Init, Account, Zones
<1>3. TypeOK
  BY <1>1, <1>2 DEF Init, TypeOK
<1>4. ASSUME NEW p \in Pipelines PROVE Progress(p) /\ Found(p)
  <2>1. deploy[p].pc = "idle"
    BY DEF Init, Idle
  <2>. QED BY <2>1 DEF Progress, Found, Where, Discovery, Discovering, Final, Serviced,
         Registered, Logged, Ruled, Targeted, Listening, Balanced
<1>5. CachedExists
  BY DEF Init, CachedExists
<1>. QED BY <1>3, <1>4, <1>5 DEF IInv, ServedInv

(* Every step, restart or stutter keeps the types and what has been made.       *)
THEOREM StepServed == IInv /\ [Next]_vars => IInv'
<1>. SUFFICES ASSUME IInv, [Next]_vars PROVE IInv'
  OBVIOUS
<1>1. ASSUME NEW p \in Pipelines, Step(p) PROVE IInv'
  <2>1. At(p, "record") => deploy[p].zone \in Zones
    <3>1. aws.zones \subseteq Zones
      BY DEF IInv, TypeOK, Account
    <3>. QED BY <3>1 DEF IInv, ServedInv, Progress, Where, Discovery, Discovering, At
  <2>2. TypeOK'
    BY <1>1, <2>1, Typed DEF IInv
  <2>3. CachedExists'
    BY <1>1, CachedStep DEF IInv, ServedInv
  <2>4. Progress(p)' /\ Found(p)'
    BY <1>1, ServedOwn DEF IInv, ServedInv
  <2>5. ASSUME NEW q \in Pipelines \ {p} PROVE Progress(q)' /\ Found(q)'
    BY <1>1, <2>5, StepKeeps, ServedOthers DEF IInv, ServedInv
  <2>. QED BY <2>2, <2>3, <2>4, <2>5 DEF IInv, ServedInv
<1>2. CASE Restart
  BY <1>2, RestartServed DEF IInv
<1>3. CASE UNCHANGED vars
  BY <1>3 DEF IInv, TypeOK, ServedInv, CachedExists, Progress, Found, Where, vars
<1>. QED BY <1>1, <1>2, <1>3 DEF Next, Step

(* Every variable has its type in every reachable state (all the operations of  *)
(* the AWS wrappers).                                                           *)
THEOREM TypeCorrect == Spec => []TypeOK
<1>. QED BY InitServed, StepServed, PTL DEF Spec, IInv

(* A deployment that deployToEcs ends without an error can be reached, for any  *)
(* number of pipelines and faults.                                              *)
THEOREM DoneServed == Spec => []DoneIsServed
<1>1. IInv => DoneIsServed
  BY DEF IInv, ServedInv, Progress, Where, Discovery, Discovering, Final, Serviced, Registered,
     Logged, Ruled, Targeted, Listening, Balanced, DoneIsServed, At
<1>. QED BY <1>1, InitServed, StepServed, PTL DEF Spec

(* Without a fault, the group is bare only while the deployment that made it is *)
(* about to authorize its rules.                                                *)
LEMMA GroupStep ==
  ASSUME TypeOK, NEW p \in Pipelines, Step(p), faults' = faults
  PROVE  \/ aws'.group # "bare"
         \/ At(p, "authorize")'
         \/ aws'.group = aws.group /\ ~At(p, "authorize")
<1>. USE NoneIsNothing DEF TypeOK, Call, At
<1>1. CASE Ask(p)
  BY <1>1 DEF Ask, MoveTo, rest, Asking, Account
<1>2. CASE DiscoverNetwork(p)
  BY <1>2 DEF DiscoverNetwork, MoveTo, rest, Account
<1>3. CASE FindGroup(p)
  BY <1>3 DEF FindGroup, MoveTo, rest, Account
<1>4. CASE CreateGroup(p)
  BY <1>4 DEF CreateGroup, MoveTo, rest, Account
<1>5. CASE Authorize(p)
  BY <1>5 DEF Authorize, MoveTo, rest, Account
<1>6. CASE FindCluster(p)
  BY <1>6 DEF FindCluster, MoveTo, rest, Account
<1>7. CASE CreateCluster(p)
  BY <1>7 DEF CreateCluster, MoveTo, rest, Account
<1>8. CASE DiscoverZones(p)
  BY <1>8 DEF DiscoverZones, Fault, MoveTo, rest, Account
<1>9. CASE DiscoveryFails(p)
  BY <1>9 DEF DiscoveryFails, FallBack, Discovering, Fail, Fault, MoveTo,
     rest, Account
<1>10. CASE Start(p)
  BY <1>10 DEF Start, rest, Account
<1>11. CASE FindBalancer(p)
  BY <1>11 DEF FindBalancer, Fault, MoveTo, rest, Account
<1>12. CASE DescribeListeners(p)
  BY <1>12 DEF DescribeListeners, Fail, MoveTo, rest, Account
<1>13. CASE CreateLoadBalancer(p)
  BY <1>13 DEF CreateLoadBalancer, GroupsOf, MoveTo, rest, Account
<1>14. CASE CreateListener(p)
  BY <1>14 DEF CreateListener, MoveTo, rest, Account
<1>15. CASE ListTargetGroups(p)
  BY <1>15 DEF ListTargetGroups, MoveTo, rest, Account
<1>16. CASE CreateTargetGroup(p)
  BY <1>16 DEF CreateTargetGroup, MoveTo, rest, Account
<1>17. CASE FindRulesByHostHeader(p)
  BY <1>17 DEF FindRulesByHostHeader, MoveTo, rest, Account
<1>18. CASE ModifyRule(p)
  BY <1>18 DEF ModifyRule, MoveTo, rest, Account
<1>19. CASE CreateListenerRule(p)
  BY <1>19 DEF CreateListenerRule, Drawn, Fail, MoveTo, rest, Account
<1>20. CASE EnsureLogGroupExists(p)
  BY <1>20 DEF EnsureLogGroupExists, MoveTo, rest, Account
<1>21. CASE RegisterTaskDefinition(p)
  BY <1>21 DEF RegisterTaskDefinition, MoveTo, rest, Account
<1>22. CASE DescribeServices(p)
  BY <1>22 DEF DescribeServices, Fault, MoveTo, rest, Account
<1>23. CASE UpdateService(p)
  BY <1>23 DEF UpdateService, MoveTo, rest, Account
<1>24. CASE CreateService(p)
  BY <1>24 DEF CreateService, Fail, MoveTo, rest, Account
<1>25. CASE FindHostedZone(p)
  BY <1>25 DEF FindHostedZone, MoveTo, rest, Account
<1>26. CASE CreateHostedZone(p)
  BY <1>26 DEF CreateHostedZone, MoveTo, rest, Account
<1>27. CASE CreateRecord(p)
  BY <1>27 DEF CreateRecord, MoveTo, rest, Account
<1>28. CASE Throws(p)
  BY <1>28 DEF Throws, Fail, Fault, Catching, Discovering, Ended, MoveTo,
     rest, Account
<1>29. CASE CleanUp(p)
  BY <1>29 DEF CleanUp, rest, Account
<1>30. CASE DeleteService(p)
  BY <1>30 DEF DeleteService, Phase, Fault, MoveTo, rest, Account
<1>31. CASE DeleteRule(p)
  BY <1>31 DEF DeleteRule, Phase, Fault, MoveTo, rest, Account
<1>32. CASE DeleteTargetGroup(p)
  BY <1>32 DEF DeleteTargetGroup, Phase, Fault, MoveTo, rest, Account
<1>33. CASE DeleteRecord(p)
  BY <1>33 DEF DeleteRecord, Phase, Fault, MoveTo, rest, Account
<1>. QED
  BY <1>1, <1>2, <1>3, <1>4, <1>5, <1>6, <1>7, <1>8, <1>9, <1>10, <1>11,
     <1>12, <1>13, <1>14, <1>15, <1>16, <1>17, <1>18, <1>19, <1>20, <1>21,
     <1>22, <1>23, <1>24, <1>25, <1>26, <1>27, <1>28, <1>29, <1>30, <1>31,
     <1>32, <1>33 DEF Step, InfrastructureStep, DeployStep, CleanUpStep

(* ensureSecurityGroup leaves the group without its rules only for a moment, or *)
(* after a fault.                                                               *)
THEOREM GroupOpened == Spec => []GroupIsOpened
<1>1. Init => GroupIsOpened
  BY DEF Init, GroupIsOpened
<1>2. ASSUME TypeOK, GroupIsOpened, [Next]_vars PROVE GroupIsOpened'
  <2>1. ASSUME NEW p \in Pipelines, Step(p) PROVE GroupIsOpened'
    <3>. SUFFICES ASSUME aws'.group = "bare", faults' <= 0
                  PROVE  \E q \in Pipelines : At(q, "authorize")'
      BY FaultsStep, <1>2, <2>1, BoundsAreNat DEF GroupIsOpened, TypeOK
    <3>1. faults = 0 /\ faults' = faults
      BY <1>2, <2>1, FaultsStep, BoundsAreNat DEF TypeOK
    <3>2. CASE ~At(p, "authorize")' /\ aws'.group = aws.group /\ ~At(p, "authorize")
      <4>1. PICK q \in Pipelines : At(q, "authorize")
        BY <1>2, <3>1, <3>2 DEF GroupIsOpened
      <4>. QED BY <1>2, <2>1, <3>2, <4>1, StepKeeps DEF Keeps, At
    <3>. QED BY <1>2, <2>1, <3>1, <3>2, GroupStep
  <2>2. CASE Restart
    BY <1>2, <2>2, BoundsAreNat DEF Restart, Fault, GroupIsOpened, TypeOK
  <2>3. CASE UNCHANGED vars
    BY <1>2, <2>3 DEF vars, GroupIsOpened, At
  <2>. QED BY <1>2, <2>1, <2>2, <2>3 DEF Next, Step
<1>. QED BY <1>1, <1>2, TypeCorrect, PTL DEF Spec

(* A step of another deployment keeps what ZoneOK says of this one.             *)
LEMMA ZoneOthers ==
  ASSUME NEW q \in Pipelines, ZoneOK(q), Keeps(q), cache # None => cache' # None
  PROVE  ZoneOK(q)'
BY DEF ZoneOK, Keeps

(* So does its own, as long as no call throws: no second zone is made, and the  *)
(* cache holds the one there is.                                                *)
LEMMA ZoneOwn ==
  ASSUME TypeOK, NEW p \in Pipelines, ZoneOK(p), aws.zones = {1}, cache \in {None, 1},
         Step(p), faults' = faults
  PROVE  /\ ZoneOK(p)' /\ aws'.zones = {1} /\ cache' \in {None, 1}
         /\ cache # None => cache' # None
<1>. USE NoneIsNothing DEF ZoneOK, TypeOK, Call, At, Discovery, Discovering, Registered,
       Serviced, Final, Cleaning
<1>1. CASE Ask(p)
  BY <1>1 DEF Ask, Asking, After, MoveTo, rest, Account
<1>2. CASE DiscoverNetwork(p)
  BY <1>2 DEF DiscoverNetwork, MoveTo, rest, Account
<1>3. CASE FindGroup(p)
  BY <1>3 DEF FindGroup, MoveTo, rest, Account
<1>4. CASE CreateGroup(p)
  BY <1>4 DEF CreateGroup, MoveTo, rest, Account
<1>5. CASE Authorize(p)
  BY <1>5 DEF Authorize, MoveTo, rest, Account
<1>6. CASE FindCluster(p)
  BY <1>6 DEF FindCluster, MoveTo, rest, Account
<1>7. CASE CreateCluster(p)
  BY <1>7 DEF CreateCluster, MoveTo, rest, Account
<1>8. CASE DiscoverZones(p)
  BY <1>8 DEF DiscoverZones, ZonesFound, Fault, After, MoveTo, rest, Account
<1>9. CASE DiscoveryFails(p)
  BY <1>9 DEF DiscoveryFails, FallBack, Fail, Fault, After, MoveTo, rest,
     Account
<1>10. CASE Start(p)
  BY <1>10 DEF Start, Begin, Idle, UnderWay, Ended, MoveTo, rest, Account
<1>11. CASE FindBalancer(p)
  BY <1>11 DEF FindBalancer, Fault, MoveTo, rest, Account
<1>12. CASE DescribeListeners(p)
  BY <1>12 DEF DescribeListeners, Fail, MoveTo, rest, Account
<1>13. CASE CreateLoadBalancer(p)
  BY <1>13 DEF CreateLoadBalancer, GroupsOf, MoveTo, rest, Account
<1>14. CASE CreateListener(p)
  BY <1>14 DEF CreateListener, MoveTo, rest, Account
<1>15. CASE ListTargetGroups(p)
  BY <1>15 DEF ListTargetGroups, MoveTo, rest, Account
<1>16. CASE CreateTargetGroup(p)
  BY <1>16 DEF CreateTargetGroup, MoveTo, rest, Account
<1>17. CASE FindRulesByHostHeader(p)
  BY <1>17 DEF FindRulesByHostHeader, MoveTo, rest, Account
<1>18. CASE ModifyRule(p)
  BY <1>18 DEF ModifyRule, MoveTo, rest, Account
<1>19. CASE CreateListenerRule(p)
  BY <1>19 DEF CreateListenerRule, Drawn, Fail, MoveTo, rest, Account,
     Priorities
<1>20. CASE EnsureLogGroupExists(p)
  BY <1>20 DEF EnsureLogGroupExists, MoveTo, rest, Account
<1>21. CASE RegisterTaskDefinition(p)
  BY <1>21 DEF RegisterTaskDefinition, MoveTo, rest, Account
<1>22. CASE DescribeServices(p)
  BY <1>22 DEF DescribeServices, Fault, MoveTo, rest, Account
<1>23. CASE UpdateService(p)
  BY <1>23 DEF UpdateService, MoveTo, rest, Account
<1>24. CASE CreateService(p)
  BY <1>24 DEF CreateService, Fail, MoveTo, rest, Account
<1>25. CASE FindHostedZone(p)
  BY <1>25 DEF FindHostedZone, ZonesFound, MoveTo, rest, Account
<1>26. CASE CreateHostedZone(p)
  BY <1>26 DEF CreateHostedZone, MoveTo, rest, Account
<1>27. CASE CreateRecord(p)
  BY <1>27 DEF CreateRecord, MoveTo, rest, Account
<1>28. CASE Throws(p)
  BY <1>28 DEF Throws, Fail, Fault, Catching, Asking, Ended, MoveTo, rest,
     Account
<1>29. CASE CleanUp(p)
  BY <1>29 DEF CleanUp, Begin, Idle, UnderWay, Ended, MoveTo, rest, Account
<1>30. CASE DeleteService(p)
  BY <1>30 DEF DeleteService, Phase, Fault, MoveTo, rest, Account
<1>31. CASE DeleteRule(p)
  BY <1>31 DEF DeleteRule, Phase, Fault, MoveTo, rest, Account
<1>32. CASE DeleteTargetGroup(p)
  BY <1>32 DEF DeleteTargetGroup, Phase, Fault, MoveTo, rest, Account
<1>33. CASE DeleteRecord(p)
  BY <1>33 DEF DeleteRecord, Phase, Fault, MoveTo, rest, Account
<1>. QED
  BY <1>1, <1>2, <1>3, <1>4, <1>5, <1>6, <1>7, <1>8, <1>9, <1>10, <1>11,
     <1>12, <1>13, <1>14, <1>15, <1>16, <1>17, <1>18, <1>19, <1>20, <1>21,
     <1>22, <1>23, <1>24, <1>25, <1>26, <1>27, <1>28, <1>29, <1>30, <1>31,
     <1>32, <1>33 DEF Step, InfrastructureStep, DeployStep, CleanUpStep

(* With the zone set up by hand and no faults, cleanupPipelineResources leaves  *)
(* no record.                                                                   *)
THEOREM ZoneCleaned == Spec => []ZoneSetUpIsCleaned
<1>1. Init => ZoneInv
  <2>. SUFFICES ASSUME Init, manual PROVE ZoneInv
    BY DEF ZoneInv
  <2>1. aws.zones = {1} /\ cache = None /\ aws.records = {}
    BY DEF Init
  <2>2. \A p \in Pipelines : deploy[p].pc = "idle"
    BY DEF Init, Idle
  <2>. QED BY <2>1, <2>2 DEF ZoneInv, ZoneOK, Discovery, Discovering, Registered, Serviced,
         Final, Cleaning
<1>2. ASSUME TypeOK, ZoneInv, [Next]_vars PROVE ZoneInv'
  <2>1. ASSUME NEW p \in Pipelines, Step(p) PROVE ZoneInv'
    <3>. SUFFICES ASSUME manual', faults' = 0 PROVE ZoneInv'
      BY DEF ZoneInv
    <3>1. faults' \in {faults, faults + 1} /\ manual' = manual
      BY <1>2, <2>1, FaultsStep
    <3>2. faults = 0 /\ faults' = faults
      BY <1>2, <3>1, BoundsAreNat DEF TypeOK
    <3>3. manual /\ faults = 0 /\ faults' = faults
      BY <3>1, <3>2
    <3>4. aws.zones = {1} /\ cache \in {None, 1} /\ \A q \in Pipelines : ZoneOK(q)
      BY <1>2, <3>3 DEF ZoneInv
    <3>5. /\ ZoneOK(p)' /\ aws'.zones = {1} /\ cache' \in {None, 1}
          /\ cache # None => cache' # None
      BY <1>2, <2>1, <3>3, <3>4, ZoneOwn
    <3>6. ASSUME NEW q \in Pipelines \ {p} PROVE ZoneOK(q)'
      BY <1>2, <2>1, <3>4, <3>5, <3>6, StepKeeps, ZoneOthers
    <3>. QED BY <3>5, <3>6 DEF ZoneInv
  <2>2. CASE Restart
    BY <1>2, <2>2, BoundsAreNat DEF Restart, Fault, ZoneInv, TypeOK
  <2>3. CASE UNCHANGED vars
    BY <1>2, <2>3 DEF vars, ZoneInv, ZoneOK
  <2>. QED BY <1>2, <2>1, <2>2, <2>3 DEF Next, Step
<1>3. ZoneInv => ZoneSetUpIsCleaned
  BY DEF ZoneInv, ZoneOK, ZoneSetUpIsCleaned, At
<1>. QED BY <1>1, <1>2, <1>3, TypeCorrect, PTL DEF Spec

(* A step is taken by a deployment under way, or begins one.                    *)
LEMMA OwnStep ==
  ASSUME TypeOK, NEW p \in Pipelines, Step(p)
  PROVE  \/ /\ p \in UnderWay
            /\ deploy'[p].alone = deploy[p].alone /\ deploy'[p].since = deploy[p].since
         \/ /\ p \notin UnderWay /\ aws' = aws /\ faults' = faults
            /\ Begin(p, "findBalancer") \/ Begin(p, "cleanService")
<1>. USE DEF TypeOK, Call, At, UnderWay, Ended
<1>1. CASE Ask(p)
  BY <1>1 DEF Ask, MoveTo, rest, Asking
<1>2. CASE DiscoverNetwork(p)
  BY <1>2 DEF DiscoverNetwork, MoveTo, rest
<1>3. CASE FindGroup(p)
  BY <1>3 DEF FindGroup, MoveTo, rest
<1>4. CASE CreateGroup(p)
  BY <1>4 DEF CreateGroup, MoveTo, rest
<1>5. CASE Authorize(p)
  BY <1>5 DEF Authorize, MoveTo, rest
<1>6. CASE FindCluster(p)
  BY <1>6 DEF FindCluster, MoveTo, rest
<1>7. CASE CreateCluster(p)
  BY <1>7 DEF CreateCluster, MoveTo, rest
<1>8. CASE DiscoverZones(p)
  BY <1>8 DEF DiscoverZones, Fault, MoveTo, rest
<1>9. CASE DiscoveryFails(p)
  BY <1>9 DEF DiscoveryFails, FallBack, Discovering, Fail, Fault, MoveTo,
     rest
<1>10. CASE Start(p)
  BY <1>10 DEF Start, rest
<1>11. CASE FindBalancer(p)
  BY <1>11 DEF FindBalancer, Fault, MoveTo, rest
<1>12. CASE DescribeListeners(p)
  BY <1>12 DEF DescribeListeners, Fail, MoveTo, rest
<1>13. CASE CreateLoadBalancer(p)
  BY <1>13 DEF CreateLoadBalancer, GroupsOf, MoveTo, rest
<1>14. CASE CreateListener(p)
  BY <1>14 DEF CreateListener, MoveTo, rest
<1>15. CASE ListTargetGroups(p)
  BY <1>15 DEF ListTargetGroups, MoveTo, rest
<1>16. CASE CreateTargetGroup(p)
  BY <1>16 DEF CreateTargetGroup, MoveTo, rest
<1>17. CASE FindRulesByHostHeader(p)
  BY <1>17 DEF FindRulesByHostHeader, MoveTo, rest
<1>18. CASE ModifyRule(p)
  BY <1>18 DEF ModifyRule, MoveTo, rest
<1>19. CASE CreateListenerRule(p)
  BY <1>19 DEF CreateListenerRule, Drawn, Fail, MoveTo, rest
<1>20. CASE EnsureLogGroupExists(p)
  BY <1>20 DEF EnsureLogGroupExists, MoveTo, rest
<1>21. CASE RegisterTaskDefinition(p)
  BY <1>21 DEF RegisterTaskDefinition, MoveTo, rest
<1>22. CASE DescribeServices(p)
  BY <1>22 DEF DescribeServices, Fault, MoveTo, rest
<1>23. CASE UpdateService(p)
  BY <1>23 DEF UpdateService, MoveTo, rest
<1>24. CASE CreateService(p)
  BY <1>24 DEF CreateService, Fail, MoveTo, rest
<1>25. CASE FindHostedZone(p)
  BY <1>25 DEF FindHostedZone, MoveTo, rest
<1>26. CASE CreateHostedZone(p)
  BY <1>26 DEF CreateHostedZone, MoveTo, rest
<1>27. CASE CreateRecord(p)
  BY <1>27 DEF CreateRecord, MoveTo, rest
<1>28. CASE Throws(p)
  BY <1>28 DEF Throws, Fail, Fault, Catching, Discovering, MoveTo, rest,
     Asking
<1>29. CASE CleanUp(p)
  BY <1>29 DEF CleanUp, rest
<1>30. CASE DeleteService(p)
  BY <1>30 DEF DeleteService, Phase, Fault, MoveTo, rest
<1>31. CASE DeleteRule(p)
  BY <1>31 DEF DeleteRule, Phase, Fault, MoveTo, rest
<1>32. CASE DeleteTargetGroup(p)
  BY <1>32 DEF DeleteTargetGroup, Phase, Fault, MoveTo, rest
<1>33. CASE DeleteRecord(p)
  BY <1>33 DEF DeleteRecord, Phase, Fault, MoveTo, rest
<1>. QED
  BY <1>1, <1>2, <1>3, <1>4, <1>5, <1>6, <1>7, <1>8, <1>9, <1>10, <1>11,
     <1>12, <1>13, <1>14, <1>15, <1>16, <1>17, <1>18, <1>19, <1>20, <1>21,
     <1>22, <1>23, <1>24, <1>25, <1>26, <1>27, <1>28, <1>29, <1>30, <1>31,
     <1>32, <1>33 DEF Step, InfrastructureStep, DeployStep, CleanUpStep

(* A balancer without a listener stays so when nobody is about to make one: a   *)
(* deployment that finds the balancer never does.                               *)
LEMMA StuckStep ==
  ASSUME TypeOK, NEW p \in Pipelines, Found(p), Stuck, Step(p), faults' = faults
  PROVE  Stuck'
<1>a. SUFFICES ~aws'.listener /\ Where(p)' \notin Making \cup {"createListener"}
  <2>1. ASSUME NEW q \in Pipelines \ {p}
        PROVE  Where(q)' \notin Making \cup {"createListener"}
    BY <2>1, StepKeeps DEF Stuck, Keeps, Where
  <2>2. aws'.balancer # None
    BY StepKeeps DEF Stuck, Grows
  <2>. QED BY <2>1, <2>2 DEF Stuck
<1>b. /\ aws.balancer # None /\ ~aws.listener
       /\ Where(p) \notin Making \cup {"createListener"}
  BY DEF Stuck
<1>. USE <1>b DEF Found, Making, Where, Discovery, Discovering, TypeOK, Call, At
<1>1. CASE Ask(p)
  BY <1>1 DEF Ask, Asking, After, MoveTo, rest, Account
<1>2. CASE DiscoverNetwork(p)
  BY <1>2 DEF DiscoverNetwork, MoveTo, rest, Account
<1>3. CASE FindGroup(p)
  BY <1>3 DEF FindGroup, MoveTo, rest, Account
<1>4. CASE CreateGroup(p)
  BY <1>4 DEF CreateGroup, MoveTo, rest, Account
<1>5. CASE Authorize(p)
  BY <1>5 DEF Authorize, MoveTo, rest, Account
<1>6. CASE FindCluster(p)
  BY <1>6 DEF FindCluster, MoveTo, rest, Account
<1>7. CASE CreateCluster(p)
  BY <1>7 DEF CreateCluster, MoveTo, rest, Account
<1>8. CASE DiscoverZones(p)
  BY <1>8 DEF DiscoverZones, ZonesFound, Fault, After, MoveTo, rest, Account
<1>9. CASE DiscoveryFails(p)
  BY <1>9 DEF DiscoveryFails, FallBack, Fail, Fault, After, MoveTo, rest,
     Account
<1>10. CASE Start(p)
  BY <1>10 DEF Start, Begin, Idle, UnderWay, Ended, MoveTo, rest, Account
<1>11. CASE FindBalancer(p)
  BY <1>11 DEF FindBalancer, Fault, MoveTo, rest, Account
<1>12. CASE DescribeListeners(p)
  BY <1>12 DEF DescribeListeners, Fail, MoveTo, rest, Account
<1>13. CASE CreateLoadBalancer(p)
  BY <1>13 DEF CreateLoadBalancer, GroupsOf, MoveTo, rest, Account
<1>14. CASE CreateListener(p)
  BY <1>14 DEF CreateListener, MoveTo, rest, Account
<1>15. CASE ListTargetGroups(p)
  BY <1>15 DEF ListTargetGroups, MoveTo, rest, Account
<1>16. CASE CreateTargetGroup(p)
  BY <1>16 DEF CreateTargetGroup, MoveTo, rest, Account
<1>17. CASE FindRulesByHostHeader(p)
  BY <1>17 DEF FindRulesByHostHeader, MoveTo, rest, Account
<1>18. CASE ModifyRule(p)
  BY <1>18 DEF ModifyRule, MoveTo, rest, Account
<1>19. CASE CreateListenerRule(p)
  BY <1>19 DEF CreateListenerRule, Drawn, Fail, MoveTo, rest, Account
<1>20. CASE EnsureLogGroupExists(p)
  BY <1>20 DEF EnsureLogGroupExists, MoveTo, rest, Account
<1>21. CASE RegisterTaskDefinition(p)
  BY <1>21 DEF RegisterTaskDefinition, MoveTo, rest, Account
<1>22. CASE DescribeServices(p)
  BY <1>22 DEF DescribeServices, Fault, MoveTo, rest, Account
<1>23. CASE UpdateService(p)
  BY <1>23 DEF UpdateService, MoveTo, rest, Account
<1>24. CASE CreateService(p)
  BY <1>24 DEF CreateService, Fail, MoveTo, rest, Account
<1>25. CASE FindHostedZone(p)
  BY <1>25 DEF FindHostedZone, ZonesFound, MoveTo, rest, Account
<1>26. CASE CreateHostedZone(p)
  BY <1>26 DEF CreateHostedZone, MoveTo, rest, Account
<1>27. CASE CreateRecord(p)
  BY <1>27 DEF CreateRecord, MoveTo, rest, Account
<1>28. CASE Throws(p)
  BY <1>28 DEF Throws, Fail, Fault, Catching, Asking, Ended, MoveTo, rest,
     Account
<1>29. CASE CleanUp(p)
  BY <1>29 DEF CleanUp, Begin, Idle, UnderWay, Ended, MoveTo, rest, Account
<1>30. CASE DeleteService(p)
  BY <1>30 DEF DeleteService, Phase, Fault, MoveTo, rest, Account
<1>31. CASE DeleteRule(p)
  BY <1>31 DEF DeleteRule, Phase, Fault, MoveTo, rest, Account
<1>32. CASE DeleteTargetGroup(p)
  BY <1>32 DEF DeleteTargetGroup, Phase, Fault, MoveTo, rest, Account
<1>33. CASE DeleteRecord(p)
  BY <1>33 DEF DeleteRecord, Phase, Fault, MoveTo, rest, Account
<1>. QED
  BY <1>1, <1>2, <1>3, <1>4, <1>5, <1>6, <1>7, <1>8, <1>9, <1>10, <1>11,
     <1>12, <1>13, <1>14, <1>15, <1>16, <1>17, <1>18, <1>19, <1>20, <1>21,
     <1>22, <1>23, <1>24, <1>25, <1>26, <1>27, <1>28, <1>29, <1>30, <1>31,
     <1>32, <1>33 DEF Step, InfrastructureStep, DeployStep, CleanUpStep

(* Without a fault, the balancer lacks its listener only while the deployment   *)
(* that made it is about to create it.                                          *)
LEMMA ListenerStep ==
  ASSUME TypeOK, NEW p \in Pipelines, Step(p), faults' = faults
  PROVE  \/ aws'.listener
         \/ At(p, "createListener")'
         \/ /\ aws'.balancer = aws.balancer /\ aws'.listener = aws.listener
            /\ ~At(p, "createListener")
<1>. USE DEF TypeOK, Call, At
<1>1. CASE Ask(p)
  BY <1>1 DEF Ask, MoveTo, rest, Asking
<1>2. CASE DiscoverNetwork(p)
  BY <1>2 DEF DiscoverNetwork, MoveTo, rest, Account
<1>3. CASE FindGroup(p)
  BY <1>3 DEF FindGroup, MoveTo, rest, Account
<1>4. CASE CreateGroup(p)
  BY <1>4 DEF CreateGroup, MoveTo, rest, Account
<1>5. CASE Authorize(p)
  BY <1>5 DEF Authorize, MoveTo, rest, Account
<1>6. CASE FindCluster(p)
  BY <1>6 DEF FindCluster, MoveTo, rest, Account
<1>7. CASE CreateCluster(p)
  BY <1>7 DEF CreateCluster, MoveTo, rest, Account
<1>8. CASE DiscoverZones(p)
  BY <1>8 DEF DiscoverZones, Fault, MoveTo, rest, Account
<1>9. CASE DiscoveryFails(p)
  BY <1>9 DEF DiscoveryFails, FallBack, Discovering, Fail, Fault, MoveTo,
     rest, Account
<1>10. CASE Start(p)
  BY <1>10 DEF Start, rest
<1>11. CASE FindBalancer(p)
  BY <1>11 DEF FindBalancer, Fault, MoveTo, rest, Account
<1>12. CASE DescribeListeners(p)
  BY <1>12 DEF DescribeListeners, Fail, MoveTo, rest, Account
<1>13. CASE CreateLoadBalancer(p)
  BY <1>13 DEF CreateLoadBalancer, GroupsOf, MoveTo, rest, Account
<1>14. CASE CreateListener(p)
  BY <1>14 DEF CreateListener, MoveTo, rest, Account
<1>15. CASE ListTargetGroups(p)
  BY <1>15 DEF ListTargetGroups, MoveTo, rest, Account
<1>16. CASE CreateTargetGroup(p)
  BY <1>16 DEF CreateTargetGroup, MoveTo, rest, Account
<1>17. CASE FindRulesByHostHeader(p)
  BY <1>17 DEF FindRulesByHostHeader, MoveTo, rest, Account
<1>18. CASE ModifyRule(p)
  BY <1>18 DEF ModifyRule, MoveTo, rest, Account
<1>19. CASE CreateListenerRule(p)
  BY <1>19 DEF CreateListenerRule, Drawn, Fail, MoveTo, rest, Account
<1>20. CASE EnsureLogGroupExists(p)
  BY <1>20 DEF EnsureLogGroupExists, MoveTo, rest, Account
<1>21. CASE RegisterTaskDefinition(p)
  BY <1>21 DEF RegisterTaskDefinition, MoveTo, rest, Account
<1>22. CASE DescribeServices(p)
  BY <1>22 DEF DescribeServices, Fault, MoveTo, rest, Account
<1>23. CASE UpdateService(p)
  BY <1>23 DEF UpdateService, MoveTo, rest, Account
<1>24. CASE CreateService(p)
  BY <1>24 DEF CreateService, Fail, MoveTo, rest, Account
<1>25. CASE FindHostedZone(p)
  BY <1>25 DEF FindHostedZone, MoveTo, rest, Account
<1>26. CASE CreateHostedZone(p)
  BY <1>26 DEF CreateHostedZone, MoveTo, rest, Account
<1>27. CASE CreateRecord(p)
  BY <1>27 DEF CreateRecord, MoveTo, rest, Account
<1>28. CASE Throws(p)
  BY <1>28 DEF Throws, Fail, Fault, Catching, Discovering, Ended, MoveTo,
     rest, Account
<1>29. CASE CleanUp(p)
  BY <1>29 DEF CleanUp, rest
<1>30. CASE DeleteService(p)
  BY <1>30 DEF DeleteService, Phase, Fault, MoveTo, rest, Account
<1>31. CASE DeleteRule(p)
  BY <1>31 DEF DeleteRule, Phase, Fault, MoveTo, rest, Account
<1>32. CASE DeleteTargetGroup(p)
  BY <1>32 DEF DeleteTargetGroup, Phase, Fault, MoveTo, rest, Account
<1>33. CASE DeleteRecord(p)
  BY <1>33 DEF DeleteRecord, Phase, Fault, MoveTo, rest, Account
<1>. QED
  BY <1>1, <1>2, <1>3, <1>4, <1>5, <1>6, <1>7, <1>8, <1>9, <1>10, <1>11,
     <1>12, <1>13, <1>14, <1>15, <1>16, <1>17, <1>18, <1>19, <1>20, <1>21,
     <1>22, <1>23, <1>24, <1>25, <1>26, <1>27, <1>28, <1>29, <1>30, <1>31,
     <1>32, <1>33 DEF Step, InfrastructureStep, DeployStep, CleanUpStep

(* A deployment that meets no fault and no other keeps what it relies on, and   *)
(* fails only over a priority in use or a missing listener.                     *)
LEMMA QuietStep ==
  ASSUME TypeOK, NEW p \in Pipelines, Found(p), Quiet(p), p \in UnderWay, Step(p),
         faults' = faults
  PROVE  /\ Quiet(p)'
         /\ At(p, "failed")' =>
              \/ deploy'[p].why = "priority"
              \/ /\ deploy'[p].why = "listener" /\ At(p, "listeners")
                 /\ ~aws.listener /\ aws' = aws
<1>. USE BoundsAreNat, NoneIsNothing DEF Found, Quiet, Making, Where, Discovery, Discovering, TypeOK, Call, At
<1>1. CASE Ask(p)
  BY <1>1 DEF Ask, After, MoveTo, rest, Account, Asking
<1>2. CASE DiscoverNetwork(p)
  BY <1>2 DEF DiscoverNetwork, MoveTo, rest, Account
<1>3. CASE FindGroup(p)
  BY <1>3 DEF FindGroup, MoveTo, rest, Account
<1>4. CASE CreateGroup(p)
  BY <1>4 DEF CreateGroup, MoveTo, rest, Account
<1>5. CASE Authorize(p)
  BY <1>5 DEF Authorize, MoveTo, rest, Account
<1>6. CASE FindCluster(p)
  BY <1>6 DEF FindCluster, MoveTo, rest, Account
<1>7. CASE CreateCluster(p)
  BY <1>7 DEF CreateCluster, MoveTo, rest, Account
<1>8. CASE DiscoverZones(p)
  <2>1. /\ aws' = aws /\ deploy[p].pc = "hostedZones"
        /\ deploy'[p].pc = After(deploy[p].ret) /\ deploy'[p].hard = deploy[p].hard
    BY <1>8 DEF DiscoverZones, MoveTo
  <2>2. deploy[p].ret \in Asking
    BY <2>1
  <2>. QED BY <2>1, <2>2 DEF After, Asking
<1>9. CASE DiscoveryFails(p)
  BY <1>9 DEF DiscoveryFails, FallBack, Fail, Fault, After, MoveTo, rest,
     Account
<1>10. CASE Start(p)
  BY <1>10 DEF Start, UnderWay, Ended
<1>11. CASE FindBalancer(p)
  BY <1>11 DEF FindBalancer, Fault, MoveTo, rest, Account
<1>12. CASE DescribeListeners(p)
  BY <1>12 DEF DescribeListeners, Fail, MoveTo, rest, Account
<1>13. CASE CreateLoadBalancer(p)
  BY <1>13 DEF CreateLoadBalancer, GroupsOf, MoveTo, rest, Account
<1>14. CASE CreateListener(p)
  BY <1>14 DEF CreateListener, MoveTo, rest, Account
<1>15. CASE ListTargetGroups(p)
  BY <1>15 DEF ListTargetGroups, MoveTo, rest, Account
<1>16. CASE CreateTargetGroup(p)
  BY <1>16 DEF CreateTargetGroup, MoveTo, rest, Account
<1>17. CASE FindRulesByHostHeader(p)
  BY <1>17 DEF FindRulesByHostHeader, MoveTo, rest, Account
<1>18. CASE ModifyRule(p)
  BY <1>18 DEF ModifyRule, MoveTo, rest, Account
<1>19. CASE CreateListenerRule(p)
  BY <1>19 DEF CreateListenerRule, Drawn, Fail, MoveTo, rest, Account
<1>20. CASE EnsureLogGroupExists(p)
  BY <1>20 DEF EnsureLogGroupExists, MoveTo, rest, Account
<1>21. CASE RegisterTaskDefinition(p)
  BY <1>21 DEF RegisterTaskDefinition, MoveTo, rest, Account
<1>22. CASE DescribeServices(p)
  BY <1>22 DEF DescribeServices, Fault, MoveTo, rest, Account
<1>23. CASE UpdateService(p)
  BY <1>23 DEF UpdateService, MoveTo, rest, Account
<1>24. CASE CreateService(p)
  BY <1>24 DEF CreateService, Fail, MoveTo, rest, Account
<1>25. CASE FindHostedZone(p)
  BY <1>25 DEF FindHostedZone, ZonesFound, MoveTo, rest, Account, Zones
<1>26. CASE CreateHostedZone(p)
  BY <1>26 DEF CreateHostedZone, MoveTo, rest, Account
<1>27. CASE CreateRecord(p)
  BY <1>27 DEF CreateRecord, MoveTo, rest, Account
<1>28. CASE Throws(p)
  BY <1>28 DEF Throws, Fail, Fault, Catching, Ended, MoveTo, rest, Account,
     Asking, BalancerAccepted, IdsExist, GroupsOf, Zones
<1>29. CASE CleanUp(p)
  BY <1>29 DEF CleanUp, UnderWay, Ended
<1>30. CASE DeleteService(p)
  BY <1>30 DEF DeleteService, Phase, Fault, MoveTo, rest, Account
<1>31. CASE DeleteRule(p)
  BY <1>31 DEF DeleteRule, Phase, Fault, MoveTo, rest, Account
<1>32. CASE DeleteTargetGroup(p)
  BY <1>32 DEF DeleteTargetGroup, Phase, Fault, MoveTo, rest, Account
<1>33. CASE DeleteRecord(p)
  BY <1>33 DEF DeleteRecord, Phase, Fault, MoveTo, rest, Account
<1>. QED
  BY <1>1, <1>2, <1>3, <1>4, <1>5, <1>6, <1>7, <1>8, <1>9, <1>10, <1>11,
     <1>12, <1>13, <1>14, <1>15, <1>16, <1>17, <1>18, <1>19, <1>20, <1>21,
     <1>22, <1>23, <1>24, <1>25, <1>26, <1>27, <1>28, <1>29, <1>30, <1>31,
     <1>32, <1>33 DEF Step, InfrastructureStep, DeployStep, CleanUpStep

(* A step of another deployment keeps what LonerOK says: a deployment is alone  *)
(* no more once another begins.                                                 *)
LEMMA LonerOthers ==
  ASSUME TypeOK, NEW p \in Pipelines, NEW q \in Pipelines \ {p}, LonerOK(q), Found(p),
         Step(p)
  PROVE  LonerOK(q)'
<1>1. Keeps(q)
  BY StepKeeps
<1>2. faults \in Nat /\ deploy[q].since \in Nat /\ faults' \in {faults, faults + 1}
  BY FaultsStep, BoundsAreNat DEF TypeOK, Call
<1>3. deploy'[q].since = deploy[q].since /\ deploy[q].since <= faults
  BY <1>1 DEF Keeps, LonerOK
<1>4. Lonely(q)' => Lonely(q) /\ faults' = faults
  BY <1>1, <1>2, <1>3 DEF Keeps, Lonely
<1>5. q \in UnderWay' <=> q \in UnderWay
  BY <1>1 DEF Keeps, UnderWay
<1>6. ~(deploy'[q].alone /\ q \in UnderWay')
  <2>. SUFFICES ASSUME deploy'[q].alone, q \in UnderWay PROVE FALSE
    BY <1>5
  <2>1. UnderWay = {q}
    BY <1>1 DEF Keeps, LonerOK
  <2>2. Begin(p, "findBalancer") \/ Begin(p, "cleanService")
    BY <2>1, OwnStep
  <2>3. deploy'[q] = [deploy[q] EXCEPT !.alone = @ /\ q \notin UnderWay]
    BY <2>2 DEF Begin
  <2>4. deploy[q] \in Call
    BY DEF TypeOK
  <2>5. deploy'[q].alone = (deploy[q].alone /\ q \notin UnderWay)
    BY <2>3, <2>4 DEF Call
  <2>. QED BY <2>5
<1>7. Lonely(q)' /\ At(q, "failed")' =>
        deploy'[q].why = "priority" \/ (deploy'[q].why = "listener" /\ Stuck')
  BY <1>1, <1>4, StuckStep DEF Keeps, LonerOK, At
<1>8. deploy'[q].since <= faults'
  BY <1>2, <1>3
<1>. QED BY <1>6, <1>7, <1>8 DEF LonerOK, Lonely

(* So does its own step: if it fails for want of a listener, the balancer was   *)
(* left without one by an earlier fault.                                        *)
LEMMA LonerOwn ==
  ASSUME TypeOK, NEW p \in Pipelines, LonerInv, Found(p), Progress(p), Step(p)
  PROVE  LonerOK(p)'
<1>1. faults \in Nat /\ deploy[p].since \in Nat /\ faults' \in {faults, faults + 1}
  BY FaultsStep, BoundsAreNat DEF TypeOK, Call
<1>2. LonerOK(p)
  BY DEF LonerInv
<1>3. \A q \in Pipelines \ {p} : q \in UnderWay' <=> q \in UnderWay
  BY StepKeeps DEF Keeps, UnderWay
<1>4. UnderWay \subseteq Pipelines /\ UnderWay' \subseteq Pipelines
  BY DEF UnderWay
<1>5. CASE /\ p \in UnderWay
           /\ deploy'[p].alone = deploy[p].alone /\ deploy'[p].since = deploy[p].since
  <2>1. deploy'[p].since <= faults'
    BY <1>1, <1>2, <1>5 DEF LonerOK
  <2>2. deploy'[p].alone /\ p \in UnderWay' => UnderWay' = {p}
    BY <1>2, <1>3, <1>4, <1>5 DEF LonerOK
  <2>3. ASSUME Lonely(p)'
        PROVE  /\ Quiet(p)'
               /\ At(p, "failed")' =>
                    deploy'[p].why = "priority" \/ (deploy'[p].why = "listener" /\ Stuck')
    <3>1. faults' = faults /\ Lonely(p)
      BY <1>1, <1>2, <1>5, <2>3 DEF Lonely, LonerOK
    <3>2. Quiet(p) /\ UnderWay = {p}
      BY <1>2, <1>5, <3>1 DEF LonerOK, Lonely
    <3>3. ASSUME At(p, "failed")', At(p, "listeners"), ~aws.listener, aws' = aws
          PROVE  Stuck'
      <4>1. aws.balancer # None
        BY <3>3 DEF Progress, Where, Discovery, Discovering, Balanced, At
      <4>2. faults > 0
        <5>1. ASSUME NEW q \in Pipelines, At(q, "createListener") PROVE FALSE
          BY <3>2, <3>3, <5>1 DEF UnderWay, Ended, At
        <5>. QED BY <3>3, <4>1, <5>1 DEF LonerInv
      <4>3. ASSUME NEW q \in Pipelines PROVE deploy'[q].pc \in Ended
        <5>1. CASE q = p
          BY <3>3, <5>1 DEF At, Ended
        <5>2. CASE q # p
          BY <3>2, <5>2, StepKeeps DEF Keeps, UnderWay
        <5>. QED BY <5>1, <5>2
      <4>4. ASSUME NEW q \in Pipelines PROVE Where(q)' \notin Making \cup {"createListener"}
        BY <4>3 DEF Where, Discovery, Discovering, Ended, Making
      <4>. QED BY <3>1, <3>3, <4>1, <4>2, <4>4 DEF Stuck
    <3>. QED BY <1>5, <3>1, <3>2, <3>3, QuietStep
  <2>. QED BY <2>1, <2>2, <2>3 DEF LonerOK
<1>6. CASE /\ p \notin UnderWay /\ aws' = aws /\ faults' = faults
           /\ Begin(p, "findBalancer") \/ Begin(p, "cleanService")
  <2>1. PICK pc \in {"findBalancer", "cleanService"} :
          deploy'[p] = [Idle EXCEPT !.pc = pc, !.alone = (UnderWay = {}), !.since = faults]
    BY <1>6 DEF Begin
  <2>2. /\ deploy'[p].pc = pc /\ deploy'[p].hard = {} /\ deploy'[p].since = faults
    BY <2>1 DEF Idle
  <2>3. deploy'[p].alone = (UnderWay = {})
    BY <2>1 DEF Idle
  <2>4. UnderWay = {} => UnderWay' \subseteq {p}
    BY <1>3, <1>4
  <2>5. Quiet(p)' /\ ~At(p, "failed")'
    BY <2>2 DEF Quiet, Where, Discovery, Discovering, Making, At
  <2>6. deploy'[p].alone /\ p \in UnderWay' => UnderWay' = {p}
    BY <2>3, <2>4
  <2>7. deploy'[p].since <= faults'
    BY <1>1, <1>6, <2>2
  <2>. QED BY <2>5, <2>6, <2>7 DEF LonerOK
<1>. QED BY <1>5, <1>6, OwnStep

(* An undisturbed deployment ends well, except over a priority in use or a      *)
(* balancer that a fault left without listener.                                 *)
THEOREM LonersEndWell == Spec => []LonersSucceed
<1>1. Init => LonerInv
  <2>. SUFFICES ASSUME Init PROVE LonerInv
    OBVIOUS
  <2>1. \A p \in Pipelines : deploy[p] = Idle
    BY DEF Init
  <2>2. aws.balancer = None /\ faults = 0
    BY DEF Init
  <2>3. UnderWay = {}
    BY <2>1 DEF UnderWay, Idle, Ended
  <2>. QED BY <2>1, <2>2, <2>3 DEF LonerInv, LonerOK, Idle, At
<1>2. ASSUME IInv, LonerInv, [Next]_vars PROVE LonerInv'
  <2>1. ASSUME NEW p \in Pipelines, Step(p) PROVE LonerInv'
    <3>1. Found(p) /\ Progress(p) /\ TypeOK
      BY <1>2 DEF IInv, ServedInv
    <3>2. LonerOK(p)'
      BY <1>2, <2>1, <3>1, LonerOwn
    <3>3. ASSUME NEW q \in Pipelines \ {p} PROVE LonerOK(q)'
      BY <1>2, <2>1, <3>1, <3>3, LonerOthers DEF LonerInv
    <3>4. ASSUME aws'.balancer # None, ~aws'.listener
          PROVE  faults' > 0 \/ \E q \in Pipelines : At(q, "createListener")'
      <4>. SUFFICES ASSUME faults' <= 0
                    PROVE  \E q \in Pipelines : At(q, "createListener")'
        BY <2>1, <3>1, FaultsStep, BoundsAreNat DEF TypeOK
      <4>1. faults = 0 /\ faults' = faults
        BY <2>1, <3>1, FaultsStep, BoundsAreNat DEF TypeOK
      <4>2. CASE /\ aws'.balancer = aws.balancer /\ aws'.listener = aws.listener
                 /\ ~At(p, "createListener")
        <5>1. PICK q \in Pipelines : At(q, "createListener")
          BY <1>2, <3>4, <4>1, <4>2 DEF LonerInv
        <5>. QED BY <2>1, <3>1, <4>2, <5>1, StepKeeps DEF Keeps, At
      <4>. QED BY <2>1, <3>1, <3>4, <4>1, <4>2, ListenerStep
    <3>. QED BY <3>2, <3>3, <3>4 DEF LonerInv
  <2>2. CASE Restart
    <3>1. faults' = faults + 1 /\ faults \in Nat
      BY <1>2, <2>2, BoundsAreNat DEF Restart, Fault, IInv, TypeOK
    <3>2. ASSUME NEW q \in Pipelines PROVE LonerOK(q)'
      <4>1. CASE q \in UnderWay
        <5>1. deploy'[q] = [Idle EXCEPT !.pc = "failed", !.why = "call"]
          BY <2>2, <4>1 DEF Restart
        <5>2. /\ deploy'[q].pc = "failed" /\ ~deploy'[q].alone /\ deploy'[q].since = 0
          BY <5>1 DEF Idle
        <5>. QED BY <3>1, <5>2 DEF LonerOK, Lonely
      <4>2. CASE q \notin UnderWay
        <5>1. deploy'[q] = deploy[q] /\ deploy[q].pc \in Ended
          BY <2>2, <4>2 DEF Restart, UnderWay
        <5>2. deploy[q].since \in Nat /\ deploy[q].since <= faults
          BY <1>2, BoundsAreNat DEF LonerInv, LonerOK, IInv, TypeOK, Call
        <5>3. q \notin UnderWay' /\ ~Lonely(q)' /\ deploy'[q].since <= faults'
          BY <3>1, <5>1, <5>2 DEF UnderWay, Lonely
        <5>. QED BY <5>3 DEF LonerOK
      <4>. QED BY <4>1, <4>2
    <3>. QED BY <3>1, <3>2 DEF LonerInv
  <2>3. CASE UNCHANGED vars
    BY <1>2, <2>3 DEF vars, LonerInv, LonerOK, Lonely, Quiet, Stuck, Where, UnderWay, At
  <2>. QED BY <1>2, <2>1, <2>2, <2>3 DEF Next, Step
<1>3. LonerInv => LonersSucceed
  BY DEF LonerInv, LonerOK, LonersSucceed, Lonely, Stuck
<1>. QED BY <1>1, <1>2, <1>3, InitServed, StepServed, PTL DEF Spec

================================================================================
