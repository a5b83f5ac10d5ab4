---------------------- MODULE InfrastructureProperties ----------------------
(***************************************************************************)
(* What the infrastructure controller promises, stated over the state of   *)
(* Infrastructure.tla.                                                     *)
(***************************************************************************)
EXTENDS Infrastructure

CrObj == [phase: {"none", "live", "deleting", "gone", "forced", "migrated"},
          spec: AllConfigs \cup {None},
          status: StatusObj \cup {None}]
JobObj == [op: {"none", "reconcile", "delete"},
           snap: AllConfigs \cup {None},
           pc: SubnetPcs, zi: Nat, epc: EgressPcs, ezi: Nat]

(* Type invariant.  A resource that exists has one of its own configs, and  *)
(* a job in flight stands at a zone of the config it works on.             *)
TypeOK ==
  /\ cr \in [Infra -> CrObj]
  /\ job \in [Infra -> JobObj]
  /\ root \in [Names -> RootObj \cup {None}]
  /\ sub \in [SubKeys -> SubObj \cup {None}]
  /\ updates \in 0..MaxUpdates /\ faults \in 0..MaxFaults
  /\ trespassers \subseteq Infra
  /\ \A i \in Infra :
       /\ cr[i].phase # "none" => cr[i].spec \in Configs[i]
       /\ job[i].op # "none" => /\ cr[i].phase # "none" /\ job[i].snap \in Configs[i]
                                /\ job[i].zi \in 1..Len(job[i].snap.zones)
                                /\ job[i].ezi \in 1..Len(job[i].snap.zones)

Live(i) == cr[i].phase = "live"
Provisioned(i) == Live(i) /\ cr[i].status # None

(* Admission lets no update change what the root subnet is compared by      *)
(* (RootKeyImmutable of ShootAdmission.tla).                               *)
StableRoot == \A i \in Infra : \A c, d \in Configs[i] : c.root = d.root

(* Of the shoots that share a name at most one is provisioned: the          *)
(* ownership label of the root subnet (actuator.go:461-495) refuses the     *)
(* others, however their reconciles interleave.  It needs root keys that    *)
(* do not change, and it ends with the first deletion that hits a root     *)
(* subnet of somebody else, which the code does not prevent.               *)
OneHolderPerName == StableRoot /\ trespassers = {} =>
  \A i, j \in Infra : Provisioned(i) /\ Provisioned(j) /\ NameOf[i] = NameOf[j] => i = j

(* A provisioned shoot keeps its root subnet: it is there, is not being     *)
(* deleted, and carries the shoot's UID (or, before adoption, no UID).     *)
ProvisionedOwnsRoot == StableRoot /\ trespassers = {} =>
  \A i \in Infra : Provisioned(i) =>
    Root(i) # None /\ Root(i).life = "live" /\ Mine(i)

(* An ownership label never changes hands in place: only after the labelled *)
(* subnet has vanished can another shoot create its own.                   *)
OwnerNeverReplaced ==
  [][StableRoot /\ trespassers = {} =>
       \A n \in Names : root[n] # None /\ root'[n] # None /\ root[n].owner # None
                          => root'[n].owner = root[n].owner]_vars

(* The root subnets implement RootLock.tla: its lock is the root subnet and   *)
(* the label on it, provisioned shoots use it.  The lock is broken when a     *)
(* Delete hits the root subnet of somebody else, or when a changed root key   *)
(* has it recreated under a shoot.                                          *)
LockState == [n \in Names |-> IF root[n] = None THEN "free"
                              ELSE IF root[n].life = "terminating" THEN "returning" ELSE "held"]
LockLabel == [n \in Names |-> IF root[n] = None THEN None ELSE root[n].owner]
LockUsers == {i \in Infra : Provisioned(i)}
LockBroken == ~StableRoot \/ trespassers # {}
Lock == INSTANCE RootLock WITH
  state <- LockState, label <- LockLabel, using <- LockUsers, broken <- LockBroken
LockImplemented == Lock!Spec

(* The root subnet of a shoot nobody asked to delete is not deleted.        *)
LiveRootKept ==
  [][\A i \in Infra :
       Live(i) /\ Root(i) # None /\ Root(i).owner = i /\ Root(i).life = "live"
         => root'[NameOf[i]] # None /\ root'[NameOf[i]].life = "live"]_vars

(* The inductive strengthening of the two.  An active resource is one whose *)
(* Delete has not started.                                                 *)
Active(i) == cr[i].phase = "live" \/ (cr[i].phase = "deleting" /\ job[i].op = "reconcile")
OwnershipChecked == {"root_wait", "zone_get", "zone_delnet", "zone_delglobal", "zone_create",
                     "zone_wait", "prop_wait", "net_get", "net_create", "net_wait", "done"}
DeletePcs == {"del_net", "del_prop", "del_global", "del_root"}
HasRoot(i) == Root(i) # None /\ Mine(i)
OwnRootInv(i) ==
  /\ HasRoot(i) => \E c \in Configs[i] : Root(i).key = c.root
  /\ HasRoot(i) /\ Active(i) => Root(i).life = "live"
  /\ cr[i].status # None /\ Active(i) => HasRoot(i)
JobInv(i) ==
  /\ job[i].op = "reconcile" =>
       /\ cr[i].phase \in {"live", "deleting"}
       /\ job[i].pc \notin DeletePcs
       /\ job[i].pc = "root_adopt" => cr[i].status # None
       /\ job[i].pc \in OwnershipChecked => Root(i) # None /\ Root(i).owner = i
  /\ job[i].op = "delete" => /\ cr[i].phase = "deleting"
                             /\ job[i].pc \in DeletePcs \cup {"done", "failed"}
UnbornInv(i) == cr[i].phase = "none" =>
  /\ i \notin Legacy /\ job[i].op = "none" /\ cr[i].status = None
  /\ Root(i) # None => Root(i).owner # i
ShootInv(i) == OwnRootInv(i) /\ JobInv(i) /\ UnbornInv(i)
(* While nobody has trespassed, a shoot past the ownership check, and one   *)
(* that is provisioned, holds the label on a live root subnet.             *)
OwnershipInv == StableRoot /\ trespassers = {} =>
  \A i \in Infra : ShootInv(i)

(* No configuration of the resource gives a zone another CIDR. *)
StableCidrs(i) == \A c, d \in Configs[i] : \A k \in 1..Len(c.zones), l \in 1..Len(d.zones) :
  c.zones[k].name = d.zones[l].name => c.zones[k].cidr = d.zones[l].cidr

(* What a shoot has built is not disturbed by itself, nor by a predecessor    *)
(* of its name: GDC may let deleted subnets linger, Ready until they go, and  *)
(* the waits of the code look at conditions only (waitForGlobalSubnetReady,  *)
(* actuator.go:714), so that a successor would take them for its own.       *)
Undisturbed(i) == StableCidrs(i) /\
  (Finalizers => \A j \in Infra : NameOf[j] = NameOf[i] => cr[j].phase \in {"none", "live", "migrated"})

(* The subnets named in a published status stay: while the shoot lives, the *)
(* z- subnet of every zone in its status exists and is not being deleted.  *)
PublishedSubnetsStay == StableRoot /\ trespassers = {} =>
  \A i \in Infra \ Legacy : Provisioned(i) /\ Undisturbed(i) =>
    \A k \in 1..Len(cr[i].status.zones) :
      LET o == sub[<<"zonal", NameOf[i], cr[i].status.zones[k]>>] IN
      o # None /\ o.life = "live"

(* Migrate leaves the network of the shoot's nodes alone, and so do the      *)
(* (refused) reconciles of the resource the new seed holds for the shoot.  *)
MigratedKeepsNetwork == StableRoot /\ trespassers = {} =>
  \A i \in Infra \ Legacy : cr[i].phase = "migrated" /\ cr[i].status # None =>
    /\ Root(i) # None /\ Root(i).life = "live" /\ Mine(i)
    /\ Undisturbed(i) => \A k \in 1..Len(cr[i].status.zones) :
         LET o == sub[<<"zonal", NameOf[i], cr[i].status.zones[k]>>] IN
         o # None /\ o.life = "live"

(* A shoot that has its name for itself, and names no zone twice.           *)
Sole(n) == \A i, j \in Infra : NameOf[i] = n /\ NameOf[j] = n => i = j
Distinct(i) == \A c \in Configs[i] : \A k, l \in 1..Len(c.zones) :
  c.zones[k].name = c.zones[l].name => k = l

(* For such a shoot, a z- subnet and the global subnet it was cut from never *)
(* stay side by side with different CIDRs: a changed zone CIDR removes the   *)
(* z- subnet before the global one (actuator.go:560-572).  Where deleted     *)
(* subnets linger, it is promised for one change of the spec only: a CIDR    *)
(* changed to and fro breaks it (ZoneGetsItsCidr).                          *)
ZonalMatches(n) == \A z \in Zones :
  LET g == sub[<<"global", n, z>>]
      o == sub[<<"zonal", n, z>>] IN
  g # None /\ g.life = "live" /\ o # None /\ o.life = "live" => g.cidr = o.cidr
ZonalMatchesGlobal == \A i \in Infra :
  Sole(NameOf[i]) /\ Distinct(i) /\ (Finalizers => updates <= 1) => ZonalMatches(NameOf[i])

(* "CIDR is the CIDR for the zone, derived from its parent subnet's CIDR"     *)
(* (types_infrastructure.go:95): when a reconcile is done with the subnets,  *)
(* no zone it was asked for keeps a z- subnet of another CIDR, unless that   *)
(* is on its way out.                                                       *)
ZoneGetsItsCidr == \A i \in Infra : job[i].op = "reconcile" /\ job[i].pc = "done" =>
  \A k \in 1..Len(job[i].snap.zones) :
    LET o == sub[<<"zonal", NameOf[i], job[i].snap.zones[k].name>>] IN
    o # None /\ o.life = "live" => o.cidr = job[i].snap.zones[k].cidr

(* When Delete succeeds nothing of the configuration it was given stays     *)
(* behind: every subnet and gateway of its zones is gone or going, unless a *)
(* shoot of its name in another namespace came while it was on its way.    *)
DeleteComplete ==
  [][\A i \in Infra : cr[i].phase = "deleting" /\ cr'[i].phase = "gone" =>
       /\ Root(i) # None /\ Root(i).owner = i => Root(i).life = "terminating"
       /\ \A k \in 1..Len(job[i].snap.zones) :
            LET z == job[i].snap.zones[k].name
                Off(o) == o = None \/ o.life = "terminating" IN
            /\ Off(sub[<<"egress", NamespaceOf[i], z>>])
            /\ Off(sub[<<"nat", NamespaceOf[i], z>>])
            /\ (\A j \in Infra : NameOf[j] = NameOf[i] =>
                  NamespaceOf[j] = NamespaceOf[i] \/ cr[j].phase = "none") =>
                 Off(sub[<<"zonal", NameOf[i], z>>]) /\ Off(sub[<<"global", NameOf[i], z>>])]_vars

(* With egress off, the resources created while it was on are cleaned up.   *)
EgressCleanedUp ==
  [][\A i \in Infra :
       cr'[i].status # cr[i].status /\ cr'[i].status.egress # "on" =>
         \A z \in Zones, k \in EgressKinds :
           LET o == sub[<<k, NamespaceOf[i], z>>] IN o = None \/ o.life = "terminating"]_vars

(* The world as the current spec of resource i describes it.                *)
Converged(i) ==
  /\ Provisioned(i) /\ cr[i].status = StatusOf(cr[i].spec)
  /\ Root(i) # None /\ Root(i).owner = i /\ Root(i).key = cr[i].spec.root
  /\ \A k \in 1..Len(cr[i].spec.zones) :
       LET e == cr[i].spec.zones[k] IN
       /\ \A kind \in SubnetKinds :
            LET o == sub[<<kind, NameOf[i], e.name>>] IN IsReady(o) /\ o.cidr = e.cidr
       /\ \A kind \in EgressKinds :
            IsReady(sub[<<kind, NamespaceOf[i], e.name>>]) <=> cr[i].spec.egress = "on"

(* A shoot whose spec was changed at most once and that is left alone is     *)
(* eventually, and then for good, what its spec says, whatever calls failed *)
(* on the way.  More changes may leave it with a z- subnet of a former CIDR, *)
(* which nothing ever replaces (ZoneGetsItsCidr).                           *)
EventuallyConverged == \A i \in Infra : <>[](Live(i) /\ updates <= 1) => <>[]Converged(i)

(* A migrated shoot is reconciled again in its new seed, to the end.        *)
RestoreCompletes == \A i, j \in Infra :
  NameOf[i] = NameOf[j] => (cr[i].phase = "migrated" /\ Live(j) ~> ~Live(j) \/ Converged(j))

(* A shoot marked for deletion eventually goes.                             *)
EventuallyDeleted == \A i \in Infra :
  cr[i].phase = "deleting" ~> cr[i].phase \in {"gone", "forced"}
=============================================================================
