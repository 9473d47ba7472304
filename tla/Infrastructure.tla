---------------------------- MODULE Infrastructure -----------------------------
(* The AWS resources that the deployments of all pipelines share: the network,  *)
(* the security group, the cluster and the hosted zone that                     *)
(* AwsInfrastructureService discovers or creates and then caches, and the load  *)
(* balancer with its one listener.  Deployments of different pipelines, each    *)
(* with a target group, a listener rule, a log group, a service and a DNS       *)
(* record of its own, interleave at their calls; any call may throw, without    *)
(* effect; the process may restart and lose its cache.  (Module Deployment has  *)
(* the deployments of one pipeline, and the rows that track them.)              *)
EXTENDS Naturals

CONSTANTS Pipelines,
          MaxPriority,  \* bound: the code draws the priority from 1..50000
          MaxZones,     \* bound: hosted zones of the domain
          MaxFaults,    \* bound: calls that throw by themselves, and restarts
          None

Priorities == 1..MaxPriority
Zones == 1..MaxZones
Manual == 0               \* 'MANUAL_SETUP_REQUIRED'

ASSUME BoundsAreNat == MaxPriority \in Nat /\ MaxZones \in Nat \ {0} /\ MaxFaults \in Nat
ASSUME NoneIsNothing == None \notin Nat /\ None \notin {"otto", "hard"}

VARIABLES
  aws,     \* the account
  cache,   \* cachedConfig: None, or the hosted zone in it (all else is fixed by names)
  deploy,  \* per pipeline: its deployment or clean-up
  manual,  \* whether the hosted zone was there before the first deployment
  known,   \* whether the hard-coded network and group ids are this account's
  faults

vars == <<aws, cache, deploy, manual, known, faults>>

Idle == [pc |-> "idle", ret |-> "idle", hard |-> {}, zone |-> Manual,
         alone |-> FALSE, since |-> 0, why |-> "none"]

Init ==
  /\ manual \in BOOLEAN /\ known \in BOOLEAN
  /\ aws = [group |-> "none", cluster |-> FALSE, zones |-> IF manual THEN {1} ELSE {},
            records |-> {}, balancer |-> None, listener |-> FALSE,
            targets |-> {}, rules |-> [p \in Pipelines |-> None], logs |-> {}, services |-> {}]
  /\ cache = None
  /\ deploy = [p \in Pipelines |-> Idle]
  /\ faults = 0

Ended == {"idle", "done", "failed", "cleaned"}
UnderWay == {p \in Pipelines : deploy[p].pc \notin Ended}
At(p, pc) == deploy[p].pc = pc
MoveTo(p, pc) == deploy' = [deploy EXCEPT ![p].pc = pc]
Fault == faults < MaxFaults /\ faults' = faults + 1
rest == <<manual, known, faults>>

(* Recorded for the properties: how many faults there were before, and whether  *)
(* another was ever under way at once.                                          *)
Begin(p, pc) ==
  deploy' = [q \in Pipelines |->
    IF q = p THEN [Idle EXCEPT !.pc = pc, !.alone = (UnderWay = {}), !.since = faults]
             ELSE [deploy[q] EXCEPT !.alone = @ /\ q \notin UnderWay]]

Start(p) ==
  /\ deploy[p].pc \in {"idle", "done", "failed"} /\ Begin(p, "findBalancer")
  /\ UNCHANGED <<aws, cache, rest>>

Fail(p, why) == deploy' = [deploy EXCEPT ![p].pc = "failed", ![p].why = why]
--------------------------------------------------------------------------------
(* getOrCreateInfrastructure, from the places that call it.                     *)
Asking == {"subnets", "groups", "ecs", "last", "cleanService", "cleanZone"}

After(ret) ==
  CASE ret = "subnets" -> "groups"
    [] ret = "groups" -> "createBalancer"
    [] ret = "ecs" -> "register"
    [] ret = "last" -> "done"
    [] ret = "cleanService" -> "removeService"
    [] ret = "cleanZone" -> "removeRecord"
    [] OTHER -> "failed"

Ask(p) ==
  /\ deploy[p].pc \in Asking
  /\ IF cache # None
     THEN MoveTo(p, After(deploy[p].pc))
     ELSE deploy' = [deploy EXCEPT ![p].pc = "network", ![p].ret = deploy[p].pc]
  /\ UNCHANGED <<aws, cache, rest>>

(* The default VPC, or the first available one, and its subnets; both reads.    *)
DiscoverNetwork(p) ==
  /\ At(p, "network") /\ MoveTo(p, "findGroup")
  /\ UNCHANGED <<aws, cache, rest>>

FindGroup(p) ==
  /\ At(p, "findGroup")
  /\ MoveTo(p, IF aws.group = "none" THEN "createGroup" ELSE "findCluster")
  /\ UNCHANGED <<aws, cache, rest>>

(* The group is made without rules, and its rules authorized in a second call.  *)
\* a mutant: the rules are left to whoever comes next
CreateGroupOnly(p) ==
  /\ At(p, "createGroup") /\ aws.group = "none"
  /\ aws' = [aws EXCEPT !.group = "bare"]
  /\ MoveTo(p, "findCluster")
  /\ UNCHANGED <<cache, rest>>
CreateGroup(p) ==
  /\ At(p, "createGroup") /\ aws.group = "none"
  /\ aws' = [aws EXCEPT !.group = "bare"]
  /\ MoveTo(p, "authorize")
  /\ UNCHANGED <<cache, rest>>

Authorize(p) ==
  /\ At(p, "authorize")
  /\ aws' = [aws EXCEPT !.group = "open"]
  /\ MoveTo(p, "findCluster")
  /\ UNCHANGED <<cache, rest>>

FindCluster(p) ==
  /\ At(p, "findCluster")
  /\ MoveTo(p, IF aws.cluster THEN "hostedZones" ELSE "createCluster")
  /\ UNCHANGED <<aws, cache, rest>>

CreateCluster(p) ==
  /\ At(p, "createCluster")
  /\ aws' = [aws EXCEPT !.cluster = TRUE]
  /\ MoveTo(p, "hostedZones")
  /\ UNCHANGED <<cache, rest>>

(* The zone of the domain, or MANUAL_SETUP_REQUIRED, after an error too; the    *)
(* answer is cached with the rest.                                              *)
ZonesFound == IF aws.zones = {} THEN {Manual} ELSE aws.zones

\* a mutant: the names are compared without the dot that Route53 ends them with
DiscoverZonesUndotted(p) ==
  /\ At(p, "hostedZones")
  /\ cache' = Manual
  /\ MoveTo(p, After(deploy[p].ret))
  /\ UNCHANGED <<aws, rest>>
DiscoverZones(p) ==
  /\ At(p, "hostedZones")
  /\ \/ cache' \in ZonesFound /\ UNCHANGED faults
     \/ cache' = Manual /\ Fault
  /\ MoveTo(p, After(deploy[p].ret))
  /\ UNCHANGED <<aws, manual, known>>

(* What each caller makes of a failed discovery: getAvailableSubnets and        *)
(* getDefaultSecurityGroups take hard-coded ids, a clean-up goes on without.    *)
FallBack(p) ==
  LET ret == deploy[p].ret IN
    CASE ret \in {"subnets", "groups"} ->
           deploy' = [deploy EXCEPT ![p].pc = After(ret), ![p].hard = @ \cup {ret}]
      [] ret = "cleanService" -> MoveTo(p, "removeRule")
      [] ret = "cleanZone" -> MoveTo(p, "cleaned")
      [] OTHER -> Fail(p, "call")

Discovering == {"network", "findGroup", "createGroup", "authorize", "findCluster",
                "createCluster"}

(* A discovery throws when a call does, or when another one made the group      *)
(* since it looked for it (InvalidGroup.Duplicate).                             *)
DiscoveryFails(p) ==
  /\ deploy[p].pc \in Discovering
  /\ \/ Fault
     \/ At(p, "createGroup") /\ aws.group # "none" /\ UNCHANGED faults
  /\ FallBack(p)
  /\ UNCHANGED <<aws, cache, manual, known>>

InfrastructureStep(p) ==
  \/ Ask(p) \/ DiscoverNetwork(p) \/ FindGroup(p) \/ CreateGroup(p) \/ Authorize(p)
  \/ FindCluster(p) \/ CreateCluster(p) \/ DiscoverZones(p) \/ DiscoveryFails(p)
--------------------------------------------------------------------------------
(* setupApplicationLoadBalancer.                                                *)

(* Any error while looking for the balancer counts as "there is none".          *)
FindBalancer(p) ==
  /\ At(p, "findBalancer")
  /\ \/ MoveTo(p, IF aws.balancer # None THEN "listeners" ELSE "subnets") /\ UNCHANGED faults
     \/ MoveTo(p, "subnets") /\ Fault
  /\ UNCHANGED <<aws, cache, manual, known>>

\* a mutant: the balancer is taken for one with a listener
AssumeListener(p) ==
  /\ At(p, "listeners") /\ MoveTo(p, "listTargets")
  /\ UNCHANGED <<aws, cache, rest>>
DescribeListeners(p) ==
  /\ At(p, "listeners")
  /\ IF aws.listener THEN MoveTo(p, "listTargets") ELSE Fail(p, "listener")
  /\ UNCHANGED <<aws, cache, rest>>

(* The ids must exist: verifySubnetsExist asks for the subnets, AWS for the     *)
(* group.                                                                       *)
IdsExist(p) == deploy[p].hard = {} \/ known

(* Creating a balancer once more gives the one there is, if its groups agree.   *)
GroupsOf(p) == IF "groups" \in deploy[p].hard THEN "hard" ELSE "otto"
BalancerAccepted(p) == IdsExist(p) /\ aws.balancer \in {None, GroupsOf(p)}

CreateLoadBalancer(p) ==
  /\ At(p, "createBalancer") /\ BalancerAccepted(p)
  /\ aws' = [aws EXCEPT !.balancer = GroupsOf(p)]
  /\ MoveTo(p, "createListener")
  /\ UNCHANGED <<cache, rest>>

\* a mutant: the listener is left to whoever comes next
NoListener(p) ==
  /\ At(p, "createListener") /\ MoveTo(p, "listTargets")
  /\ UNCHANGED <<aws, cache, rest>>
CreateListener(p) ==
  /\ At(p, "createListener")
  /\ aws' = [aws EXCEPT !.listener = TRUE]
  /\ MoveTo(p, "listTargets")
  /\ UNCHANGED <<cache, rest>>
--------------------------------------------------------------------------------
(* setupTargetGroup and setupAlbRouting.                                        *)
ListTargetGroups(p) ==
  /\ At(p, "listTargets")
  /\ MoveTo(p, IF p \in aws.targets THEN "findRules" ELSE "createTarget")
  /\ UNCHANGED <<aws, cache, rest>>

CreateTargetGroup(p) ==
  /\ At(p, "createTarget")
  /\ aws' = [aws EXCEPT !.targets = @ \cup {p}]
  /\ MoveTo(p, "findRules")
  /\ UNCHANGED <<cache, rest>>

(* The rules of the listener whose host header is the URL of the pipeline.      *)
FindRulesByHostHeader(p) ==
  /\ At(p, "findRules")
  /\ MoveTo(p, IF aws.rules[p] # None THEN "modifyRule" ELSE "createRule")
  /\ UNCHANGED <<aws, cache, rest>>

ModifyRule(p) ==
  /\ At(p, "modifyRule") /\ MoveTo(p, "logs")
  /\ UNCHANGED <<aws, cache, rest>>

(* The priority is drawn at random; one in use is refused.                      *)
\* a mutant: a draw from 0 on
DrawnFromZero == 0..MaxPriority
Drawn == Priorities

CreateListenerRule(p) ==
  /\ At(p, "createRule")
  /\ \E priority \in Drawn :
       IF \E q \in Pipelines : aws.rules[q] = priority
       THEN Fail(p, "priority") /\ UNCHANGED aws
       ELSE aws' = [aws EXCEPT !.rules[p] = priority] /\ MoveTo(p, "logs")
  /\ UNCHANGED <<cache, rest>>
--------------------------------------------------------------------------------
(* ensureLogGroupExists and setupEcsService.  Once setupEcsService has asked,   *)
(* the cache is set, and the subnets and groups of a new service come from it.  *)
EnsureLogGroupExists(p) ==
  /\ At(p, "logs")
  /\ aws' = [aws EXCEPT !.logs = @ \cup {p}]
  /\ MoveTo(p, "ecs")
  /\ UNCHANGED <<cache, rest>>

RegisterTaskDefinition(p) ==
  /\ At(p, "register") /\ MoveTo(p, "describe")
  /\ UNCHANGED <<aws, cache, rest>>

(* An error counts as "there is none" here too.                                 *)
DescribeServices(p) ==
  /\ At(p, "describe")
  /\ \/ MoveTo(p, IF p \in aws.services THEN "updateService" ELSE "createService")
        /\ UNCHANGED faults
     \/ MoveTo(p, "createService") /\ Fault
  /\ UNCHANGED <<aws, cache, manual, known>>

UpdateService(p) ==
  /\ At(p, "updateService") /\ MoveTo(p, "findZone")
  /\ UNCHANGED <<aws, cache, rest>>

CreateService(p) ==
  /\ At(p, "createService")
  /\ IF p \in aws.services
     THEN Fail(p, "service") /\ UNCHANGED aws
     ELSE aws' = [aws EXCEPT !.services = @ \cup {p}] /\ MoveTo(p, "findZone")
  /\ UNCHANGED <<cache, rest>>
--------------------------------------------------------------------------------
(* setupRoute53Record looks for the zone itself, past the cache, and makes one  *)
(* if there is none; Route53 accepts several zones of one name.                 *)
FindHostedZone(p) ==
  /\ At(p, "findZone")
  /\ \E z \in ZonesFound :
       deploy' = [deploy EXCEPT ![p].zone = z,
                                ![p].pc = IF z = Manual THEN "createZone" ELSE "record"]
  /\ UNCHANGED <<aws, cache, rest>>

CreateHostedZone(p) ==
  /\ At(p, "createZone")
  /\ \E z \in Zones \ aws.zones :
       /\ \A y \in Zones \ aws.zones : z <= y
       /\ aws' = [aws EXCEPT !.zones = @ \cup {z}]
       /\ deploy' = [deploy EXCEPT ![p].zone = z, ![p].pc = "record"]
  /\ UNCHANGED <<cache, rest>>

(* A record that exists already is taken as it is.                              *)
CreateRecord(p) ==
  /\ At(p, "record")
  /\ aws' = [aws EXCEPT !.records = @ \cup {<<p, deploy[p].zone>>}]
  /\ MoveTo(p, "last")
  /\ UNCHANGED <<cache, rest>>
--------------------------------------------------------------------------------
(* cleanupPipelineResources, whose phases catch their errors.  The record is    *)
(* looked for in the cached zone only, and not at all without one.              *)
CleanUp(p) ==
  /\ At(p, "done") /\ Begin(p, "cleanService")
  /\ UNCHANGED <<aws, cache, rest>>

Phase(p, pc, to, result) ==
  /\ At(p, pc) /\ MoveTo(p, to)
  /\ \/ aws' = result /\ UNCHANGED faults
     \/ aws' = aws /\ Fault
  /\ UNCHANGED <<cache, manual, known>>

(* The service is looked for in one page of ListServices, ten of the cluster:   *)
(* one that is not on it stays, without an error.                               *)
DeleteService(p) ==
  \E found \in BOOLEAN :
    Phase(p, "removeService", "removeRule",
          IF found THEN [aws EXCEPT !.services = @ \ {p}] ELSE aws)

DeleteRule(p) ==
  Phase(p, "removeRule", "removeTarget", [aws EXCEPT !.rules[p] = None])

(* A target group that a rule forwards to is in use.                            *)
DeleteTargetGroup(p) ==
  Phase(p, "removeTarget", "cleanZone",
        IF aws.rules[p] = None THEN [aws EXCEPT !.targets = @ \ {p}] ELSE aws)

DeleteRecord(p) ==
  Phase(p, "removeRecord", "cleaned", [aws EXCEPT !.records = @ \ {<<p, cache>>}])

(* Every other step of a deployment throws with the call it makes.              *)
Catching == Asking \cup Discovering \cup Ended
              \cup {"hostedZones", "removeService", "removeRule", "removeTarget", "removeRecord"}

Throws(p) ==
  /\ deploy[p].pc \notin Catching
  /\ \/ Fault
     \/ At(p, "createBalancer") /\ ~BalancerAccepted(p) /\ UNCHANGED faults
     \/ At(p, "createZone") /\ aws.zones = Zones /\ UNCHANGED faults
  /\ Fail(p, "call")
  /\ UNCHANGED <<aws, cache, manual, known>>

DeployStep(p) ==
  \/ Start(p) \/ FindBalancer(p) \/ DescribeListeners(p) \/ CreateLoadBalancer(p)
  \/ CreateListener(p) \/ ListTargetGroups(p) \/ CreateTargetGroup(p)
  \/ FindRulesByHostHeader(p) \/ ModifyRule(p) \/ CreateListenerRule(p)
  \/ EnsureLogGroupExists(p) \/ RegisterTaskDefinition(p) \/ DescribeServices(p)
  \/ UpdateService(p) \/ CreateService(p) \/ FindHostedZone(p) \/ CreateHostedZone(p)
  \/ CreateRecord(p) \/ Throws(p)

CleanUpStep(p) ==
  \/ CleanUp(p) \/ DeleteService(p) \/ DeleteRule(p) \/ DeleteTargetGroup(p) \/ DeleteRecord(p)

Restart ==
  /\ Fault
  /\ cache' = None
  /\ deploy' = [p \in Pipelines |->
                 IF p \in UnderWay THEN [Idle EXCEPT !.pc = "failed", !.why = "call"] ELSE deploy[p]]
  /\ UNCHANGED <<aws, manual, known>>

Next ==
  \/ \E p \in Pipelines : InfrastructureStep(p) \/ DeployStep(p) \/ CleanUpStep(p)
  \/ Restart

Spec == Init /\ [][Next]_vars
--------------------------------------------------------------------------------
Account ==
  [group : {"none", "bare", "open"}, cluster : BOOLEAN, zones : SUBSET Zones,
   records : SUBSET (Pipelines \X Zones), balancer : {None, "otto", "hard"},
   listener : BOOLEAN, targets : SUBSET Pipelines,
   rules : [Pipelines -> Priorities \cup {None}], logs : SUBSET Pipelines,
   services : SUBSET Pipelines]

Deploying == {"findBalancer", "listeners", "createBalancer", "createListener", "listTargets",
              "createTarget", "findRules", "modifyRule", "createRule", "logs", "register",
              "describe", "updateService", "createService", "findZone", "createZone", "record"}

Call ==
  [pc : Catching \cup Deploying, ret : Asking \cup {"idle"}, hard : SUBSET {"subnets", "groups"},
   zone : Zones \cup {Manual}, alone : BOOLEAN, since : 0..MaxFaults,
   why : {"none", "call", "listener", "priority", "service"}]

TypeOK ==
  /\ aws \in Account
  /\ cache \in Zones \cup {Manual, None}
  /\ deploy \in [Pipelines -> Call]
  /\ manual \in BOOLEAN /\ known \in BOOLEAN /\ faults \in 0..MaxFaults

(* A deployment that ends without an error has all it takes to be reached: the  *)
(* balancer with its listener, its own rule, group, service and logs, and a     *)
(* record, whatever failed before, whoever else made the shared parts.          *)
DoneIsServed ==
  \A p \in Pipelines : At(p, "done") =>
    /\ aws.balancer # None /\ aws.listener /\ aws.cluster
    /\ aws.rules[p] # None
    /\ p \in aws.targets \cap aws.logs \cap aws.services
    /\ \E z \in aws.zones : <<p, z>> \in aws.records

(* What getOrCreateInfrastructure answers from its cache exists.                *)
CachedExists ==
  cache # None => /\ aws.cluster /\ aws.group # "none"
                  /\ cache # Manual => cache \in aws.zones

(* The security group is made in two calls and adopted from then on by its name *)
(* alone: only a failed call or a restart leaves it without its rules for good. *)
GroupIsOpened ==
  aws.group = "bare" => faults > 0 \/ \E p \in Pipelines : At(p, "authorize")

(* A deployment that meets no failing call and no other deployment ends well,   *)
(* whatever earlier ones left behind, but for two cases: the priority it draws  *)
(* is in use, or an earlier one made the balancer and not its listener.         *)
LonersSucceed ==
  \A p \in Pipelines :
    (At(p, "failed") /\ deploy[p].alone /\ deploy[p].since = faults)
      => \/ deploy[p].why = "priority"
         \/ deploy[p].why = "listener" /\ ~aws.listener /\ faults > 0

(* With the hosted zone set up by hand beforehand, as the log asks, a clean-up  *)
(* without errors leaves no record of its pipeline.  (Without it the cache may  *)
(* say MANUAL_SETUP_REQUIRED for as long as the process runs.)                  *)
ZoneSetUpIsCleaned ==
  manual /\ faults = 0 =>
    \A p \in Pipelines, z \in Zones : At(p, "cleaned") => <<p, z>> \notin aws.records
================================================================================
