--------------------------- MODULE Infrastructure ---------------------------
(***************************************************************************)
(* The infrastructure controller of the GDC provider extension             *)
(* (pkg/controller/infrastructure/actuator.go), at the granularity of one  *)
(* call to a Kubernetes API per step.                                      *)
(*                                                                         *)
(* Every Infrastructure resource has at most one operation in flight (the  *)
(* work queue never hands one key to two workers); the operations of       *)
(* different resources interleave freely.  An operation runs two tasks in  *)
(* parallel (pkg/taskrunner): the subnet task, with the program counter    *)
(* job[i].pc, and the egress task, with job[i].epc; Finish joins them.     *)
(*                                                                         *)
(* The GDC API servers are modelled from how the code uses them: creation  *)
(* of a name that exists fails, objects become Ready some time later,      *)
(* deletion only marks an object that has finalizers, and a global subnet  *)
(* is copied into its zone.                                                *)
(***************************************************************************)
EXTENDS Naturals, Sequences, FiniteSets

CONSTANTS
  Infra,         \* Infrastructure resources, each with a UID of its own
  Names,         \* metadata.name values; shoots of two projects may share one
  NameOf,        \* [Infra -> Names]
  Namespaces,    \* metadata.namespace values: one per shoot of a project
  NamespaceOf,   \* [Infra -> Namespaces]
  Zones, Cidrs,
  RootKeys,      \* node CIDR, parent name and parent namespace of a root subnet
  Configs,       \* [Infra -> the InfrastructureConfigs its owner may set]
  Legacy,        \* resources provisioned before root subnets were labelled
  Abandonable,   \* resources that may be force-deleted or migrated away
  Finalizers,    \* TRUE: deleted subnets linger until GDC lets them go
  EgressAllowed, \* FALSE: the service account may not touch egress resources
  MaxUpdates,    \* bound on spec updates
  MaxFaults,     \* bound on failed calls and on restarts of the process
  None

ZoneEntry == [name: Zones, cidr: Cidrs]
Config == [root: RootKeys, zones: Seq(ZoneEntry), egress: {"unset", "on", "off"}]

Conds == {"NotReady", "Ready"}
Lives == {"live", "terminating"}
RootObj == [owner: Infra \cup {None}, key: RootKeys, cond: Conds, life: Lives]
SubObj  == [cidr: Cidrs \cup {None}, cond: Conds, life: Lives]
SubnetKinds == {"global", "propagated", "zonal"}
EgressKinds == {"egress", "nat"}
SubKeys == (SubnetKinds \X Names \X Zones) \cup (EgressKinds \X Namespaces \X Zones)

ASSUME NamesAssumption   == /\ NameOf \in [Infra -> Names]
                            /\ NamespaceOf \in [Infra -> Namespaces]
ASSUME ConfigsAssumption == /\ Configs \in [Infra -> SUBSET Config]
                            /\ \A i \in Infra : \A c \in Configs[i] : Len(c.zones) > 0
ASSUME LegacyAssumption  == /\ Legacy \subseteq Infra
                            /\ \A i \in Legacy : Configs[i] # {}
                            /\ \A i, j \in Legacy :
                                 NameOf[i] = NameOf[j] \/ NamespaceOf[i] = NamespaceOf[j] => i = j
ASSUME BoundsAssumption  == MaxUpdates \in Nat /\ MaxFaults \in Nat
ASSUME SwitchAssumption  == /\ Abandonable \subseteq Infra
                            /\ Finalizers \in BOOLEAN /\ EgressAllowed \in BOOLEAN
ASSUME NoneAssumption    == /\ None \notin Infra \cup Cidrs \cup RootObj \cup SubObj
                            /\ None \notin Config

VARIABLES
  cr,          \* the Infrastructure resources: phase, spec and providerStatus
  job,         \* the operation in flight on each of them
  root,        \* global API: the root subnet of each name
  sub,         \* global and zonal APIs: every subnet and gateway below the root
  updates, faults,
  trespassers  \* history: who ever deleted subnets under a root not their own

vars == <<cr, job, root, sub, updates, faults, trespassers>>

SubnetPcs == {"idle", "root_get", "root_adopt", "root_create", "root_wait",
              "zone_get", "zone_delnet", "zone_delglobal", "zone_create", "zone_wait",
              "prop_wait", "net_get", "net_create", "net_wait",
              "del_net", "del_prop", "del_global", "del_root", "done", "failed"}
EgressPcs == {"idle", "e_create", "e_wait", "n_create", "n_wait",
              "n_delete", "e_delete", "done", "failed"}
Stopped == {"idle", "done", "failed"}
Idle == [op |-> "none", snap |-> None, pc |-> "idle", zi |-> 1, epc |-> "idle", ezi |-> 1]

AllConfigs == UNION {Configs[i] : i \in Infra}

(* What updateProviderStatus publishes of the configuration it reconciled. *)
StatusOf(c) == [zones |-> [k \in 1..Len(c.zones) |-> c.zones[k].name], egress |-> c.egress]
StatusObj == [zones: Seq(Zones), egress: {"unset", "on", "off"}]

NewSub(c) == [cidr |-> c, cond |-> "NotReady", life |-> "live"]
IsReady(o) == o # None /\ o.cond = "Ready"
(* Deleting an absent object is NotFound, which every caller ignores. *)
Deleted(o) == IF o # None /\ Finalizers THEN [o EXCEPT !.life = "terminating"] ELSE None

Root(i)    == root[NameOf[i]]
Entry(i)   == job[i].snap.zones[job[i].zi]
Key(k, i)  == <<k, NameOf[i], Entry(i).name>>
EKey(k, i) == <<k, NamespaceOf[i], job[i].snap.zones[job[i].ezi].name>>
(* Mutated forms of the operators below, marked _<Bug>, stand before them: a *)
(* configuration that swaps one in must violate a property.                 *)
LastZone_OffByOne(i) == job[i].zi > Len(job[i].snap.zones)
LastZone(i)  == job[i].zi = Len(job[i].snap.zones)
LastEZone(i) == job[i].ezi = Len(job[i].snap.zones)
(* The root subnet that resource i may treat as its own. *)
Mine(i) == Root(i).owner = i \/ (Root(i).owner = None /\ i \in Legacy)

At(i, p) == job[i].op # "none" /\ job[i].pc = p
Goto(i, p) == job' = [job EXCEPT ![i].pc = p]
GotoZone(i, p, k) == job' = [job EXCEPT ![i].pc = p, ![i].zi = k]
EAt(i, p) == job[i].op # "none" /\ job[i].epc = p
EGoto(i, p) == job' = [job EXCEPT ![i].epc = p]
EGotoZone(i, p, k) == job' = [job EXCEPT ![i].epc = p, ![i].ezi = k]

(* A legacy shoot is found provisioned, its root subnet without labels. *)
LegacyRoot(c) == [owner |-> None, key |-> c.root, cond |-> "Ready", life |-> "live"]
ZonesOf(c) == {c.zones[k].name : k \in 1..Len(c.zones)}
LegacySub(c, z) == LET k == CHOOSE k \in 1..Len(c.zones) : c.zones[k].name = z
                   IN  [NewSub(c.zones[k].cidr) EXCEPT !.cond = "Ready"]
LegacyAt(n) == CHOOSE i \in Legacy : NameOf[i] = n

Init == \E c \in [Legacy -> AllConfigs] :
  /\ \A i \in Legacy : c[i] \in Configs[i]
  /\ cr = [i \in Infra |-> IF i \in Legacy
             THEN [phase |-> "live", spec |-> c[i], status |-> StatusOf(c[i])]
             ELSE [phase |-> "none", spec |-> None, status |-> None]]
  /\ job = [i \in Infra |-> Idle]
  /\ root = [n \in Names |-> IF \E i \in Legacy : NameOf[i] = n
               THEN LegacyRoot(c[LegacyAt(n)]) ELSE None]
  /\ sub = [key \in SubKeys |->
       IF /\ key[1] \in SubnetKinds
          /\ \E i \in Legacy : NameOf[i] = key[2] /\ key[3] \in ZonesOf(c[i])
       THEN LegacySub(c[LegacyAt(key[2])], key[3]) ELSE None]
  /\ updates = 0 /\ faults = 0 /\ trespassers = {}

---------------------------------------------------------------------------
(* The Gardener side: what happens to an Infrastructure resource, and when  *)
(* the controller is called for it.                                        *)

CreateShoot(i, c) ==
  /\ cr[i].phase = "none"
  /\ \A j \in Infra : NamespaceOf[j] = NamespaceOf[i] => cr[j].phase \notin {"live", "deleting"}
  /\ cr' = [cr EXCEPT ![i] = [phase |-> "live", spec |-> c, status |-> None]]
  /\ UNCHANGED <<job, root, sub, updates, faults, trespassers>>

UpdateSpec(i, c) ==
  /\ cr[i].phase = "live" /\ c # cr[i].spec /\ updates < MaxUpdates
  /\ cr' = [cr EXCEPT ![i].spec = c]
  /\ updates' = updates + 1
  /\ UNCHANGED <<job, root, sub, faults, trespassers>>

DeleteShoot(i) ==
  /\ cr[i].phase = "live"
  /\ cr' = [cr EXCEPT ![i].phase = "deleting"]
  /\ UNCHANGED <<job, root, sub, updates, faults, trespassers>>

(* ForceDelete deletes nothing; the resource then loses its finalizer. *)
ForceDelete(i) ==
  /\ i \in Abandonable /\ cr[i].phase = "deleting" /\ job[i].op = "none"
  /\ cr' = [cr EXCEPT ![i].phase = "forced"]
  /\ UNCHANGED <<job, root, sub, updates, faults, trespassers>>

(* Control plane migration: Migrate does nothing, the resource leaves its   *)
(* old seed, and the new seed holds a new resource (new UID, no provider   *)
(* status) of the same name and spec, on which Restore is called.          *)
Migrate_CleansUp(i, j) ==
  /\ i \in Abandonable /\ cr[i].phase = "live" /\ job[i].op = "none"
  /\ NameOf[j] = NameOf[i] /\ NamespaceOf[j] = NamespaceOf[i]
  /\ cr[j].phase = "none" /\ cr[i].spec \in Configs[j]
  /\ cr' = [cr EXCEPT ![i].phase = "migrated",
                      ![j] = [phase |-> "live", spec |-> cr[i].spec, status |-> None]]
  /\ root' = [root EXCEPT ![NameOf[i]] = Deleted(@)]
  /\ UNCHANGED <<job, sub, updates, faults, trespassers>>

Migrate(i, j) ==
  /\ i \in Abandonable /\ cr[i].phase = "live" /\ job[i].op = "none"
  /\ NameOf[j] = NameOf[i] /\ NamespaceOf[j] = NamespaceOf[i]
  /\ cr[j].phase = "none" /\ cr[i].spec \in Configs[j]
  /\ cr' = [cr EXCEPT ![i].phase = "migrated",
                      ![j] = [phase |-> "live", spec |-> cr[i].spec, status |-> None]]
  /\ UNCHANGED <<job, root, sub, updates, faults, trespassers>>

(* Reconcile and Restore: the queue's retries and resyncs may start one at  *)
(* any time the previous operation on the resource is over.                *)
StartReconcile(i) ==
  /\ cr[i].phase = "live" /\ job[i].op = "none"
  /\ job' = [job EXCEPT ![i] = [Idle EXCEPT
        !.op = "reconcile", !.snap = cr[i].spec, !.pc = "root_get",
        !.epc = IF cr[i].spec.egress = "on" THEN "e_create" ELSE "n_delete"]]
  /\ UNCHANGED <<cr, root, sub, updates, faults, trespassers>>

StartDelete_SkipEgress(i) ==
  /\ cr[i].phase = "deleting" /\ job[i].op = "none"
  /\ job' = [job EXCEPT ![i] = [Idle EXCEPT
        !.op = "delete", !.snap = cr[i].spec, !.pc = "del_net",
        !.epc = IF cr[i].spec.egress = "on" THEN "n_delete" ELSE "done"]]
  /\ UNCHANGED <<cr, root, sub, updates, faults, trespassers>>

StartDelete(i) ==
  /\ cr[i].phase = "deleting" /\ job[i].op = "none"
  /\ job' = [job EXCEPT ![i] = [Idle EXCEPT
        !.op = "delete", !.snap = cr[i].spec, !.pc = "del_net", !.epc = "n_delete"]]
  /\ UNCHANGED <<cr, root, sub, updates, faults, trespassers>>

---------------------------------------------------------------------------
(* reconcileRootSubnet *)

SameOrRecreate_ComparesPointers(i, key) == GotoZone(i, "del_net", 1)
SameOrRecreate_Never(i, key) == Goto(i, "root_wait")
SameOrRecreate(i, key) == IF key = job[i].snap.root
  THEN Goto(i, "root_wait") ELSE GotoZone(i, "del_net", 1)

(* Only a shoot with a provider status is a legacy shoot. *)
MayAdopt_Any(i) == TRUE
MayAdopt(i) == Root(i).owner = None /\ cr[i].status # None

GetRoot(i) ==
  /\ At(i, "root_get")
  /\ IF Root(i) = None THEN Goto(i, "root_create")
     ELSE IF Root(i).owner = i THEN SameOrRecreate(i, Root(i).key)
     ELSE IF MayAdopt(i) THEN Goto(i, "root_adopt")
     ELSE Goto(i, "failed")
  /\ UNCHANGED <<cr, root, sub, updates, faults, trespassers>>

(* The patch carries no resource version: it labels whatever has the name. *)
AdoptRoot(i) ==
  /\ At(i, "root_adopt")
  /\ IF Root(i) = None
     THEN Goto(i, "failed") /\ UNCHANGED root
     ELSE /\ root' = [root EXCEPT ![NameOf[i]].owner = i]
          /\ SameOrRecreate(i, Root(i).key)
  /\ UNCHANGED <<cr, sub, updates, faults, trespassers>>

CreateRoot(i) ==
  /\ At(i, "root_create")
  /\ IF Root(i) # None
     THEN Goto(i, "failed") /\ UNCHANGED root
     ELSE /\ root' = [root EXCEPT ![NameOf[i]] =
               [owner |-> i, key |-> job[i].snap.root, cond |-> "NotReady", life |-> "live"]]
          /\ Goto(i, "root_wait")
  /\ UNCHANGED <<cr, sub, updates, faults, trespassers>>

WaitRoot(i) ==
  /\ At(i, "root_wait")
  /\ IF IsReady(Root(i)) THEN GotoZone(i, "zone_get", 1) ELSE Goto(i, "failed")
  /\ UNCHANGED <<cr, root, sub, updates, faults, trespassers>>

---------------------------------------------------------------------------
(* createShootVMSubnets, reconcileGlobalSubnet and ReconcileZonalSubnet     *)

GetZone_KeepsZonal(i) ==
  /\ At(i, "zone_get")
  /\ LET cur == sub[Key("global", i)] IN
     IF cur = None THEN Goto(i, "zone_create")
     ELSE IF cur.cidr = Entry(i).cidr THEN Goto(i, "zone_wait") ELSE Goto(i, "zone_delglobal")
  /\ UNCHANGED <<cr, root, sub, updates, faults, trespassers>>

GetZone(i) ==
  /\ At(i, "zone_get")
  /\ LET cur == sub[Key("global", i)] IN
     IF cur = None THEN Goto(i, "zone_create")
     ELSE IF cur.cidr = Entry(i).cidr THEN Goto(i, "zone_wait") ELSE Goto(i, "zone_delnet")
  /\ UNCHANGED <<cr, root, sub, updates, faults, trespassers>>

DeleteStep(i, p, kind, next) ==
  /\ At(i, p)
  /\ sub' = [sub EXCEPT ![Key(kind, i)] = Deleted(@)]
  /\ Goto(i, next)
  /\ UNCHANGED <<cr, root, updates, faults>>

CreateStep(i, p, kind, next) ==
  /\ At(i, p)
  /\ IF sub[Key(kind, i)] # None
     THEN Goto(i, "failed") /\ UNCHANGED sub
     ELSE sub' = [sub EXCEPT ![Key(kind, i)] = NewSub(Entry(i).cidr)] /\ Goto(i, next)
  /\ UNCHANGED <<cr, root, updates, faults, trespassers>>

WaitStep(i, p, kind, next) ==
  /\ At(i, p)
  /\ Goto(i, IF IsReady(sub[Key(kind, i)]) THEN next ELSE "failed")
  /\ UNCHANGED <<cr, root, sub, updates, faults, trespassers>>

DeleteZoneNet(i) == DeleteStep(i, "zone_delnet", "zonal", "zone_delglobal") /\ UNCHANGED trespassers
DeleteZone(i) == DeleteStep(i, "zone_delglobal", "global", "zone_create") /\ UNCHANGED trespassers
CreateZone(i) == CreateStep(i, "zone_create", "global", "zone_wait")
WaitZone(i) == WaitStep(i, "zone_wait", "global", "prop_wait")
WaitPropagated(i) == WaitStep(i, "prop_wait", "propagated", "net_get")

GetNet(i) ==
  /\ At(i, "net_get")
  /\ Goto(i, IF sub[Key("zonal", i)] = None THEN "net_create" ELSE "net_wait")
  /\ UNCHANGED <<cr, root, sub, updates, faults, trespassers>>

CreateNet(i) == CreateStep(i, "net_create", "zonal", "net_wait")

WaitNet(i) ==
  /\ At(i, "net_wait")
  /\ IF ~IsReady(sub[Key("zonal", i)]) THEN Goto(i, "failed")
     ELSE IF LastZone(i) THEN Goto(i, "done")
     ELSE GotoZone(i, "zone_get", job[i].zi + 1)
  /\ UNCHANGED <<cr, root, sub, updates, faults, trespassers>>

---------------------------------------------------------------------------
(* deleteAllSubnets, called by Delete and by reconcileRootSubnet            *)

Trespass(i) == trespassers' =
  IF Root(i) # None /\ ~Mine(i) THEN trespassers \cup {i} ELSE trespassers

DelNet(i)  == DeleteStep(i, "del_net", "zonal", "del_prop") /\ Trespass(i)
DelProp(i) == DeleteStep(i, "del_prop", "propagated", "del_global") /\ Trespass(i)

DelGlobal(i) ==
  /\ At(i, "del_global")
  /\ sub' = [sub EXCEPT ![Key("global", i)] = Deleted(@)]
  /\ IF LastZone(i) THEN Goto(i, "del_root") ELSE GotoZone(i, "del_net", job[i].zi + 1)
  /\ Trespass(i)
  /\ UNCHANGED <<cr, root, updates, faults>>

DelRoot_NotFoundFails(i) ==
  /\ At(i, "del_root")
  /\ root' = [root EXCEPT ![NameOf[i]] = Deleted(@)]
  /\ Goto(i, IF Root(i) = None THEN "failed"
             ELSE IF job[i].op = "delete" THEN "done" ELSE "root_create")
  /\ Trespass(i)
  /\ UNCHANGED <<cr, sub, updates, faults>>

DelRoot(i) ==
  /\ At(i, "del_root")
  /\ root' = [root EXCEPT ![NameOf[i]] = Deleted(@)]
  /\ Goto(i, IF job[i].op = "delete" THEN "done" ELSE "root_create")
  /\ Trespass(i)
  /\ UNCHANGED <<cr, sub, updates, faults>>

---------------------------------------------------------------------------
(* createEgressOnShootVMs and deleteEgressOnShootVMs                        *)

EgressCreateStep(i, p, kind, next) ==
  /\ EAt(i, p)
  /\ IF EgressAllowed
     THEN /\ sub' = [sub EXCEPT ![EKey(kind, i)] = IF @ = None THEN NewSub(None) ELSE @]
          /\ EGoto(i, next)
     ELSE EGoto(i, "failed") /\ UNCHANGED sub
  /\ UNCHANGED <<cr, root, updates, faults, trespassers>>

CreateEgress(i) == EgressCreateStep(i, "e_create", "egress", "e_wait")
CreateNat(i) == EgressCreateStep(i, "n_create", "nat", "n_wait")

WaitEgress(i) ==
  /\ EAt(i, "e_wait")
  /\ EGoto(i, IF IsReady(sub[EKey("egress", i)]) THEN "n_create" ELSE "failed")
  /\ UNCHANGED <<cr, root, sub, updates, faults, trespassers>>

WaitNat(i) ==
  /\ EAt(i, "n_wait")
  /\ IF ~IsReady(sub[EKey("nat", i)]) THEN EGoto(i, "failed")
     ELSE IF LastEZone(i) THEN EGoto(i, "done")
     ELSE EGotoZone(i, "e_create", job[i].ezi + 1)
  /\ UNCHANGED <<cr, root, sub, updates, faults, trespassers>>

(* NotFound and Forbidden are ignored. *)
EgressDeleted(i, kind) == sub' =
  IF EgressAllowed THEN [sub EXCEPT ![EKey(kind, i)] = Deleted(@)] ELSE sub

DeleteNat(i) ==
  /\ EAt(i, "n_delete")
  /\ EgressDeleted(i, "nat")
  /\ EGoto(i, "e_delete")
  /\ UNCHANGED <<cr, root, updates, faults, trespassers>>

DeleteEgress(i) ==
  /\ EAt(i, "e_delete")
  /\ EgressDeleted(i, "egress")
  /\ IF LastEZone(i) THEN EGoto(i, "done") ELSE EGotoZone(i, "n_delete", job[i].ezi + 1)
  /\ UNCHANGED <<cr, root, updates, faults, trespassers>>

---------------------------------------------------------------------------
(* The join of the two tasks, the faults, and the GDC API servers           *)

Succeeded_AnyTask(i) == job[i].pc = "done" \/ job[i].epc = "done"
Succeeded(i) == job[i].pc = "done" /\ job[i].epc = "done"

(* After a successful reconcile the status is patched, after a successful   *)
(* Delete the resource loses its finalizer, after an error it is retried.  *)
Finish(i) ==
  /\ job[i].op # "none" /\ job[i].pc \in Stopped /\ job[i].epc \in Stopped
  /\ job' = [job EXCEPT ![i] = Idle]
  /\ IF Succeeded(i)
     THEN cr' = IF job[i].op = "reconcile"
                THEN [cr EXCEPT ![i].status = StatusOf(job[i].snap)]
                ELSE [cr EXCEPT ![i].phase = "gone"]
     ELSE UNCHANGED cr
  /\ UNCHANGED <<root, sub, updates, faults, trespassers>>

(* A call of one task fails; the other task runs on. *)
CallFails(i) ==
  /\ job[i].op # "none" /\ faults < MaxFaults
  /\ \/ job[i].pc \notin Stopped /\ Goto(i, "failed")
     \/ job[i].epc \notin Stopped /\ EGoto(i, "failed")
  /\ faults' = faults + 1
  /\ UNCHANGED <<cr, root, sub, updates, trespassers>>

(* The process dies, or loses its lease, and starts again. *)
Restart ==
  /\ faults < MaxFaults /\ \E i \in Infra : job[i].op # "none"
  /\ job' = [i \in Infra |-> Idle]
  /\ faults' = faults + 1
  /\ UNCHANGED <<cr, root, sub, updates, trespassers>>

RootReady(n) ==
  /\ root[n] # None /\ root[n].cond = "NotReady" /\ root[n].life = "live"
  /\ root' = [root EXCEPT ![n].cond = "Ready"]
  /\ UNCHANGED <<cr, job, sub, updates, faults, trespassers>>

RootVanishes(n) ==
  /\ root[n] # None /\ root[n].life = "terminating"
  /\ root' = [root EXCEPT ![n] = None]
  /\ UNCHANGED <<cr, job, sub, updates, faults, trespassers>>

SubReady(k) ==
  /\ sub[k] # None /\ sub[k].cond = "NotReady" /\ sub[k].life = "live"
  /\ sub' = [sub EXCEPT ![k].cond = "Ready"]
  /\ UNCHANGED <<cr, job, root, updates, faults, trespassers>>

SubVanishes(k) ==
  /\ sub[k] # None /\ sub[k].life = "terminating"
  /\ sub' = [sub EXCEPT ![k] = None]
  /\ UNCHANGED <<cr, job, root, updates, faults, trespassers>>

(* A live global subnet is copied into its zone; a copy whose source is     *)
(* gone, or has another CIDR by now, is withdrawn.                         *)
Propagate(n, z) ==
  LET src == sub[<<"global", n, z>>] IN
  /\ src # None /\ src.life = "live" /\ sub[<<"propagated", n, z>>] = None
  /\ sub' = [sub EXCEPT ![<<"propagated", n, z>>] = NewSub(src.cidr)]
  /\ UNCHANGED <<cr, job, root, updates, faults, trespassers>>

Withdraw(n, z) ==
  LET src == sub[<<"global", n, z>>]
      copy == sub[<<"propagated", n, z>>] IN
  /\ copy # None /\ (src # None => src.cidr # copy.cidr)
  /\ sub' = [sub EXCEPT ![<<"propagated", n, z>>] = None]
  /\ UNCHANGED <<cr, job, root, updates, faults, trespassers>>

---------------------------------------------------------------------------
SubnetTask(i) ==
  \/ GetRoot(i) \/ AdoptRoot(i) \/ CreateRoot(i) \/ WaitRoot(i)
  \/ GetZone(i) \/ DeleteZoneNet(i) \/ DeleteZone(i) \/ CreateZone(i) \/ WaitZone(i)
  \/ WaitPropagated(i) \/ GetNet(i) \/ CreateNet(i) \/ WaitNet(i)
  \/ DelNet(i) \/ DelProp(i) \/ DelGlobal(i) \/ DelRoot(i)
EgressTask(i) ==
  \/ CreateEgress(i) \/ WaitEgress(i) \/ CreateNat(i) \/ WaitNat(i)
  \/ DeleteNat(i) \/ DeleteEgress(i)
Start(i) == StartReconcile(i) \/ StartDelete(i)
Controller(i) == Start(i) \/ SubnetTask(i) \/ EgressTask(i) \/ Finish(i)

Gdc == \/ \E n \in Names : RootReady(n) \/ RootVanishes(n)
       \/ \E k \in SubKeys : SubReady(k) \/ SubVanishes(k)
       \/ \E n \in Names, z \in Zones : Propagate(n, z) \/ Withdraw(n, z)

User(i) == \/ \E c \in Configs[i] : CreateShoot(i, c) \/ UpdateSpec(i, c)
           \/ DeleteShoot(i) \/ ForceDelete(i)
           \/ \E j \in Infra : Migrate(i, j)

Next == \/ \E i \in Infra : User(i) \/ Controller(i) \/ CallFails(i)
        \/ Restart
        \/ Gdc

Spec == Init /\ [][Next]_vars

(* The queue retries, goroutines run, and GDC does what it was asked to;    *)
(* users and faults are under no obligation.                               *)
Fairness ==
  /\ \A i \in Infra : /\ WF_vars(Start(i)) /\ WF_vars(SubnetTask(i))
                      /\ WF_vars(EgressTask(i)) /\ WF_vars(Finish(i))
  /\ \A n \in Names : WF_vars(RootReady(n)) /\ WF_vars(RootVanishes(n))
  /\ \A k \in SubKeys : WF_vars(SubReady(k)) /\ WF_vars(SubVanishes(k))
  /\ \A n \in Names, z \in Zones : WF_vars(Propagate(n, z)) /\ WF_vars(Withdraw(n, z))

FairSpec == Spec /\ Fairness
=============================================================================
