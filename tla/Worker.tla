------------------------------- MODULE Worker -------------------------------
(***************************************************************************)
(* The worker delegate inside Gardener's generic worker actuator: per pool *)
(* and zone one MachineDeployment and the MachineClass it refers to by     *)
(* name.  A deployment is named after pool and zone index, under the old   *)
(* scheme while a deployment of the old name exists; a class is named      *)
(* after its deployment and a hash of what must roll the machines.         *)
(***************************************************************************)
EXTENDS Naturals, Sequences, FiniteSets

CONSTANTS
  Pools,        \* pool names
  PoolSpecs,    \* what a pool may be: zones (a sequence) and image version
  Published,    \* zones with a subnet in the InfrastructureStatus
  Versions,     \* image versions
  MaxChanges,   \* bound: changes of pools, egress and CloudProfile
  MaxFaults,    \* bound: failed calls and restarts
  NoClass       \* the class of a deployment that is not there

Absent == [zones |-> <<>>, version |-> "none"]

ASSUME SpecsAssumption == \A s \in PoolSpecs : Len(s.zones) > 0 /\ s.version \in Versions

VARIABLES
  spec,         \* the pools of the Worker
  egress,       \* EnableEgress of the InfrastructureStatus; "nil" in old ones
  profile,      \* the image the CloudProfile gives a version, 0 if none
  images,       \* the image status.providerStatus gives a version, 0 if none
  deployments,  \* MachineDeployments: state and class name, by deployment name
  classes,      \* the MachineClasses
  job,          \* the reconcile under way, with what it has read
  changes, faults
vars == <<spec, egress, profile, images, deployments, classes, job, changes, faults>>
world == <<spec, egress, profile, changes, faults>>

Longest == CHOOSE n \in {Len(s.zones) : s \in PoolSpecs} : \A s \in PoolSpecs : Len(s.zones) <= n
Names == [pool : Pools, index : 1..Longest, legacy : BOOLEAN]
Nowhere == [st |-> "none", class |-> NoClass]
Places(s) == {pi \in Pools \X (1..Longest) : pi[2] <= Len(s[pi[1]].zones)}

(* determineDeploymentName: an old deployment, even one in deletion, keeps   *)
(* its name; an error other than NotFound is an error.                      *)
DeploymentName_ErrorIsNew(p, i) ==
  {[pool |-> p, index |-> i, legacy |-> l] :
     l \in IF deployments[[pool |-> p, index |-> i, legacy |-> TRUE]].st # "none"
           THEN BOOLEAN ELSE {FALSE}}
DeploymentName(p, i) ==
  {[pool |-> p, index |-> i,
    legacy |-> deployments[[pool |-> p, index |-> i, legacy |-> TRUE]].st # "none"]}

(* workerPoolHash: the pool, the zone and, if set, the egress switch.         *)
Hash_NoZone(s, i, e) == [version |-> s.version, egress |-> e]
Hash(s, i, e) == [version |-> s.version, zone |-> s.zones[i], egress |-> e]
(* The delegate computes the hash twice, for deployments and for classes.     *)
HashInClass_NoEgress(s, i, e) == Hash(s, i, "nil")
HashInClass(s, i, e) == Hash(s, i, e)
ClassName(n, s, i, e) == [deployment |-> n, hash |-> Hash(s, i, e)]

(* findMachineImage: the CloudProfile, else the worker's own status.          *)
FindImage(v, prof, own) == IF prof[v] # 0 THEN prof[v] ELSE own[v]

(* findSubnet: the zone must be in the InfrastructureStatus, with a subnet.   *)
FindSubnet(zone) == zone \in Published

UsedVersions(s) == {s[p].version : p \in {q \in Pools : s[q] # Absent}}

Idle == [pc |-> "idle", spec |-> [p \in Pools |-> Absent], egress |-> "nil",
         profile |-> [v \in Versions |-> 0], wanted |-> {}]

---------------------------------------------------------------------------
(* A worker as an earlier version of the extension left it, or a new one.    *)
Init ==
  /\ spec \in [Pools -> PoolSpecs] /\ egress \in {"nil", "false"}
  /\ profile = [v \in Versions |-> 1] /\ changes = 0 /\ faults = 0 /\ job = Idle
  /\ \E old \in BOOLEAN :
       /\ old => \A pi \in Places(spec) : spec[pi[1]].zones[pi[2]] \in Published
       /\ LET was(n) == old /\ n.legacy /\ <<n.pool, n.index>> \in Places(spec)
              class(n) == ClassName(n, spec[n.pool], n.index, egress) IN
          /\ deployments = [n \in Names |-> IF was(n) THEN [st |-> "live", class |-> class(n)] ELSE Nowhere]
          /\ classes = {[name |-> class(n), zone |-> spec[n.pool].zones[n.index],
                         egress |-> egress, image |-> 1] : n \in {m \in Names : was(m)}}
          /\ images = [v \in Versions |-> IF old /\ v \in UsedVersions(spec) THEN 1 ELSE 0]

(* The users and Gardener: a pool changes, goes or comes back; admission      *)
(* takes only versions of the CloudProfile for a new one.                    *)
ChangePool(p) ==
  /\ changes < MaxChanges /\ changes' = changes + 1
  /\ \E s \in {Absent} \cup {x \in PoolSpecs : x.version = spec[p].version \/ profile[x.version] # 0} :
       s # spec[p] /\ spec' = [spec EXCEPT ![p] = s]
  /\ UNCHANGED <<egress, profile, images, deployments, classes, job, faults>>

ChangeEgress ==
  /\ changes < MaxChanges /\ changes' = changes + 1
  /\ egress' \in {"true", "false"} \ {egress}
  /\ UNCHANGED <<spec, profile, images, deployments, classes, job, faults>>

DropVersion(v) ==
  /\ changes < MaxChanges /\ changes' = changes + 1
  /\ profile[v] # 0 /\ profile' = [profile EXCEPT ![v] = 0]
  /\ UNCHANGED <<spec, egress, images, deployments, classes, job, faults>>

Vanishes(n) ==
  /\ deployments[n].st = "deleting"
  /\ deployments' = [deployments EXCEPT ![n] = Nowhere]
  /\ UNCHANGED <<world, images, classes, job>>

---------------------------------------------------------------------------
(* The generic actuator builds a delegate from the worker and the cluster it *)
(* has read; both stay as read until the reconcile ends.                     *)
Start ==
  /\ job.pc = "idle"
  /\ job' = [Idle EXCEPT !.pc = "generate", !.spec = spec, !.egress = egress, !.profile = profile]
  /\ UNCHANGED <<world, images, deployments, classes>>

(* Each call of determineDeploymentName looks for itself: a choice of names  *)
(* for the places of the job's pools.                                       *)
Naming == {f \in [Places(job.spec) -> Names] :
             \A pi \in Places(job.spec) : f[pi] \in DeploymentName(pi[1], pi[2])}
ClassOf(f, pi) == ClassName(f[pi], job.spec[pi[1]], pi[2], job.egress)

GenerateMachineDeployments ==
  /\ job.pc = "generate"
  /\ \E f \in Naming :
       job' = [job EXCEPT !.pc = "classes",
                 !.wanted = {[name |-> f[pi], class |-> ClassOf(f, pi)] : pi \in Places(job.spec)}]
  /\ UNCHANGED <<world, images, deployments, classes>>

Image(v) == FindImage(v, job.profile, images)
CanGenerate == /\ \A v \in UsedVersions(job.spec) : Image(v) # 0
               /\ \A pi \in Places(job.spec) : FindSubnet(job.spec[pi[1]].zones[pi[2]])

DeployMachineClasses ==
  /\ job.pc = "classes"
  /\ IF CanGenerate
     THEN \E f \in Naming :
            LET made == {[name |-> [deployment |-> f[pi],
                                    hash |-> HashInClass(job.spec[pi[1]], pi[2], job.egress)],
                          zone |-> job.spec[pi[1]].zones[pi[2]],
                          egress |-> job.egress, image |-> Image(job.spec[pi[1]].version)] :
                           pi \in Places(job.spec)} IN
            /\ classes' = made \cup {c \in classes : \A m \in made : m.name # c.name}
            /\ job' = [job EXCEPT !.pc = "images"]
     ELSE job' = Idle /\ UNCHANGED classes
  /\ UNCHANGED <<world, images, deployments>>

UpdateMachineImagesStatus_ProfileOnly ==
  /\ job.pc = "images"
  /\ images' = [v \in Versions |-> IF v \in UsedVersions(job.spec) THEN job.profile[v] ELSE 0]
  /\ job' = [job EXCEPT !.pc = "deploy"]
  /\ UNCHANGED <<world, deployments, classes>>

UpdateMachineImagesStatus ==
  /\ job.pc = "images"
  /\ images' = [v \in Versions |-> IF v \in UsedVersions(job.spec) THEN Image(v) ELSE 0]
  /\ job' = [job EXCEPT !.pc = "deploy"]
  /\ UNCHANGED <<world, deployments, classes>>

(* generic actuator: create or update what is wanted and wait for it, delete *)
(* what is not and wait for that, then drop the classes nobody wants.        *)
DeployMachineDeployments ==
  /\ job.pc = "deploy"
  /\ deployments' = [n \in Names |->
       IF \E w \in job.wanted : w.name = n
       THEN [st |-> IF deployments[n].st = "deleting" THEN "deleting" ELSE "live",
             class |-> (CHOOSE w \in job.wanted : w.name = n).class]
       ELSE deployments[n]]
  /\ job' = [job EXCEPT !.pc = "wait"]
  /\ UNCHANGED <<world, images, classes>>

WaitAvailable ==
  /\ job.pc = "wait"
  /\ job' = IF \A w \in job.wanted : /\ deployments[w.name].st = "live"
                                     /\ \E c \in classes : c.name = w.class
            THEN [job EXCEPT !.pc = "cleanup"] ELSE Idle
  /\ UNCHANGED <<world, images, deployments, classes>>

Unwanted == {n \in Names : \A w \in job.wanted : w.name # n}
CleanupDeployments ==
  /\ job.pc = "cleanup"
  /\ deployments' = [n \in Names |-> IF n \in Unwanted /\ deployments[n].st = "live"
                                     THEN [deployments[n] EXCEPT !.st = "deleting"]
                                     ELSE deployments[n]]
  /\ job' = [job EXCEPT !.pc = "waitDeleted"]
  /\ UNCHANGED <<world, images, classes>>

CleanupClasses ==
  /\ job.pc = "waitDeleted" /\ \A n \in Unwanted : deployments[n].st = "none"
  /\ classes' = {c \in classes : \E w \in job.wanted : w.class = c.name}
  /\ job' = Idle
  /\ UNCHANGED <<world, images, deployments>>

Interrupted ==
  /\ job.pc # "idle" /\ faults < MaxFaults
  /\ job' = Idle /\ faults' = faults + 1
  /\ UNCHANGED <<spec, egress, profile, images, deployments, classes, changes>>

Reconcile == \/ Start \/ GenerateMachineDeployments \/ DeployMachineClasses
             \/ UpdateMachineImagesStatus \/ DeployMachineDeployments
             \/ WaitAvailable \/ CleanupDeployments \/ CleanupClasses

Next == \/ Reconcile \/ ChangeEgress \/ Interrupted
        \/ \E p \in Pools : ChangePool(p)
        \/ \E v \in Versions : DropVersion(v)
        \/ \E n \in Names : Vanishes(n)
Spec == Init /\ [][Next]_vars

---------------------------------------------------------------------------
Live(n) == deployments[n].st = "live"

(* A place never has machines under both naming schemes at once: the switch   *)
(* to short names adopts what runs under the old ones.                       *)
NoTwin == \A p \in Pools, i \in 1..Longest :
  ~(/\ Live([pool |-> p, index |-> i, legacy |-> TRUE])
    /\ Live([pool |-> p, index |-> i, legacy |-> FALSE]))

(* A class never changes where its machines go under the name its deployment *)
(* knows it by: such a change would mix machines of two zones or two egress  *)
(* settings in one deployment without rolling it.                            *)
ClassKeepsPlace == [][\A c \in classes, d \in classes' :
  c.name = d.name => c.zone = d.zone /\ c.egress = d.egress]_vars

(* A version in use stays available to its worker when the CloudProfile       *)
(* drops it: no reconcile of the worker as it stands forgets its image.      *)
UsedImageStays == [][\A v \in Versions :
  images[v] # 0 /\ v \in UsedVersions(spec) /\ spec' = spec /\ job.spec = spec
    => images'[v] # 0]_vars

(* When the worker's spec stays put and can be satisfied, every place comes   *)
(* to have one live deployment, of the class for its zone, version and egress *)
(* setting, the class exists, and nothing else is left.                       *)
Satisfied ==
  /\ \A n \in Names : deployments[n].st # "none" =>
       /\ Live(n) /\ <<n.pool, n.index>> \in Places(spec)
       /\ deployments[n].class = ClassName(n, spec[n.pool], n.index, egress)
       /\ \E c \in classes : c.name = deployments[n].class
  /\ \A pi \in Places(spec) : \E l \in BOOLEAN :
       Live([pool |-> pi[1], index |-> pi[2], legacy |-> l])
Satisfiable ==
  /\ \A v \in UsedVersions(spec) : FindImage(v, profile, images) # 0
  /\ \A pi \in Places(spec) : spec[pi[1]].zones[pi[2]] \in Published
Settles == <>[](Satisfiable => Satisfied)
=============================================================================
