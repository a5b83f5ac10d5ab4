------------------------------- MODULE Bastion -------------------------------
(***************************************************************************)
(* The bastion actuator: Reconcile records the zone in status.providerStatus, *)
(* then creates script, disk, machine, external access and network policy *)
(* one after the other, giving up (to be requeued) where GDC is not ready  *)
(* yet.  Delete removes them in the opposite order without waiting.        *)
(***************************************************************************)
EXTENDS Naturals, Sequences

CONSTANTS
  BZones,       \* zones of the shoot
  MaxChanges,   \* bound: changes of the ingress CIDR and of the first zone
  MaxFails      \* bound: failed calls and restarts

ASSUME BZonesAssumption == BZones # {} /\ "none" \notin BZones

VARIABLES
  bastion,  \* the Bastion: phase, ingress CIDR (a version), status
  first,    \* Networks.Zones[0] of the shoot's InfrastructureConfig
  obj,      \* what exists in each GDC zone
  cidr,     \* the CIDR version the network policy admits
  job,      \* the handler under way: kind, zone and CIDRs it goes by, position
  forced,   \* the shoot was force-deleted
  changes, fails
bvars == <<bastion, first, obj, cidr, job, forced, changes, fails>>

Kinds == {"script", "disk", "vm", "access", "policy"}

CreateOrder == <<"script", "disk", "vm", "access", "policy">>
(* The kinds Reconcile waits for: disk Succeeded, machine Running, IngressIP. *)
Awaited == {"disk", "vm", "access"}

DeleteOrder_MachineFirst == <<"vm", "policy", "access", "disk", "script">>
DeleteOrder_NoScript == <<"policy", "access", "vm", "disk">>
DeleteOrder == <<"policy", "access", "vm", "disk", "script">>

Idle == [kind |-> "idle", zone |-> "none", cidr |-> 0, at |-> 0]

GetBastionZone_First == first
(* getBastionZone: the recorded zone, else the first of the configuration.  *)
GetBastionZone == IF bastion.zone # "none" THEN bastion.zone ELSE first

---------------------------------------------------------------------------
BInit == /\ bastion = [phase |-> "none", cidr |-> 0, zone |-> "none", ingress |-> FALSE]
         /\ first \in BZones
         /\ obj = [z \in BZones |-> [k \in Kinds |-> "none"]]
         /\ cidr = 0 /\ job = Idle /\ forced = FALSE
         /\ changes = 0 /\ fails = 0

(* Gardener and the users *)
CreateBastion ==
  /\ bastion.phase = "none"
  /\ bastion' = [bastion EXCEPT !.phase = "live"]
  /\ UNCHANGED <<first, obj, cidr, job, forced, changes, fails>>

ChangeIngress ==
  /\ bastion.phase = "live" /\ changes < MaxChanges
  /\ bastion' = [bastion EXCEPT !.cidr = @ + 1]
  /\ changes' = changes + 1
  /\ UNCHANGED <<first, obj, cidr, job, forced, fails>>

ChangeZones ==
  /\ changes < MaxChanges
  /\ first' \in BZones \ {first}
  /\ changes' = changes + 1
  /\ UNCHANGED <<bastion, obj, cidr, job, forced, fails>>

MarkDeleted ==
  /\ bastion.phase = "live"
  /\ bastion' = [bastion EXCEPT !.phase = "deleting"]
  /\ UNCHANGED <<first, obj, cidr, job, forced, changes, fails>>

(* GDC *)
BecomesReady(z, k) ==
  /\ obj[z][k] = "new" /\ k \in {"disk", "vm", "access"}
  /\ obj' = [obj EXCEPT ![z][k] = "ready"]
  /\ UNCHANGED <<bastion, first, cidr, job, forced, changes, fails>>

Vanishes(z, k) ==
  /\ obj[z][k] = "deleting"
  /\ obj' = [obj EXCEPT ![z][k] = "none"]
  /\ UNCHANGED <<bastion, first, cidr, job, forced, changes, fails>>

---------------------------------------------------------------------------
(* Reconcile.  The zone is patched into the status before anything is made;  *)
(* the Bastion and the Cluster are those of the start to the end.           *)
StartReconcile ==
  /\ bastion.phase = "live" /\ job = Idle
  /\ job' = [kind |-> "reconcile", zone |-> GetBastionZone, cidr |-> bastion.cidr, at |-> 1]
  /\ bastion' = [bastion EXCEPT !.zone = IF @ = "none" THEN GetBastionZone ELSE @]
  /\ UNCHANGED <<first, obj, cidr, forced, changes, fails>>

PolicyAfter_Create(exists) == IF exists THEN cidr ELSE job.cidr
(* CreateOrUpdate sets the policy's CIDRs whether it was there or not.      *)
PolicyAfter(exists) == job.cidr

CreateNext ==
  /\ job.kind = "reconcile" /\ job.at <= Len(CreateOrder)
  /\ LET k == CreateOrder[job.at]  was == obj[job.zone][k] IN
       /\ obj' = [obj EXCEPT ![job.zone][k] = IF was = "none" THEN "new" ELSE was]
       /\ cidr' = IF k = "policy" THEN PolicyAfter(was # "none") ELSE cidr
       /\ job' = IF k \in Awaited /\ was # "ready" THEN Idle
                 ELSE [job EXCEPT !.at = @ + 1]
  /\ UNCHANGED <<bastion, first, forced, changes, fails>>

Publish ==
  /\ job.kind = "reconcile" /\ job.at > Len(CreateOrder)
  /\ bastion' = [bastion EXCEPT !.ingress = TRUE]
  /\ job' = Idle
  /\ UNCHANGED <<first, obj, cidr, forced, changes, fails>>

(* Delete and ForceDelete *)
StartDelete ==
  /\ bastion.phase = "deleting" /\ job = Idle
  /\ job' = [Idle EXCEPT !.kind = "delete", !.zone = GetBastionZone, !.at = 1]
  /\ UNCHANGED <<bastion, first, obj, cidr, forced, changes, fails>>

DeleteFails_NotFound(was) == was = "none"
DeleteFails(was) == FALSE

DeleteNext ==
  /\ job.kind = "delete" /\ job.at <= Len(DeleteOrder)
  /\ LET k == DeleteOrder[job.at]  was == obj[job.zone][k] IN
       /\ obj' = [obj EXCEPT ![job.zone][k] = IF was = "none" THEN "none" ELSE "deleting"]
       /\ job' = IF DeleteFails(was) THEN Idle ELSE [job EXCEPT !.at = @ + 1]
  /\ UNCHANGED <<bastion, first, cidr, forced, changes, fails>>

FinishDelete ==
  /\ job.kind = "delete" /\ job.at > Len(DeleteOrder)
  /\ bastion' = [bastion EXCEPT !.phase = "gone"]
  /\ job' = Idle
  /\ UNCHANGED <<first, obj, cidr, forced, changes, fails>>

ForceDelete ==
  /\ bastion.phase = "deleting" /\ job = Idle
  /\ bastion' = [bastion EXCEPT !.phase = "gone"]
  /\ forced' = TRUE
  /\ UNCHANGED <<first, obj, cidr, job, changes, fails>>

(* A call fails or the process restarts: the handler starts over.           *)
Interrupted ==
  /\ job # Idle /\ fails < MaxFails
  /\ job' = Idle /\ fails' = fails + 1
  /\ UNCHANGED <<bastion, first, obj, cidr, forced, changes>>

Worker == StartReconcile \/ CreateNext \/ Publish \/ StartDelete \/ DeleteNext \/ FinishDelete
Ready == \E z \in BZones, k \in Kinds : BecomesReady(z, k)

BNext == \/ Worker \/ Ready \/ CreateBastion \/ ChangeIngress \/ ChangeZones \/ MarkDeleted
         \/ ForceDelete \/ Interrupted
         \/ \E z \in BZones, k \in Kinds : Vanishes(z, k)

BFairness == WF_bvars(Worker) /\ WF_bvars(Ready)
BSpec == BInit /\ [][BNext]_bvars /\ BFairness

---------------------------------------------------------------------------
Up(z, k) == obj[z][k] \in {"new", "ready"}

(* All a bastion has in GDC lies in the zone its status records, whatever    *)
(* becomes of the shoot's zones between two reconciles: Delete looks nowhere *)
(* else.                                                                    *)
OneZone == \A z \in BZones, k \in Kinds : obj[z][k] # "none" => z = bastion.zone

(* The policy that opens the project for SSH stands only while the machine it *)
(* is meant for does: it is made last and withdrawn first, also when both    *)
(* handlers are interrupted and retried.                                    *)
OpenOnlyForMachine == \A z \in BZones :
  Up(z, "policy") => \A k \in {"script", "disk", "vm", "access"} : Up(z, k)

(* A bastion that went by Delete leaves nothing standing in any zone.        *)
GoneLeavesNothing == bastion.phase = "gone" /\ ~forced =>
  \A z \in BZones, k \in Kinds : ~Up(z, k)

(* What is asked for is done: a bastion that stays comes up and admits the    *)
(* CIDRs of its latest spec, one that is deleted goes.                      *)
ComesUpOrGoes ==
  /\ <>[](bastion.phase # "live" \/ (bastion.ingress /\ cidr = bastion.cidr))
  /\ bastion.phase = "deleting" ~> bastion.phase = "gone"
=============================================================================
