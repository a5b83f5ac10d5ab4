---------------------------- MODULE NetworkProofs ----------------------------
(***************************************************************************)
(* What stands below a root subnet: the subnets of a shoot whose status has *)
(* been published are there to stay, through control plane migration too,  *)
(* nothing of a shoot whose Delete has succeeded is left in its zones, and *)
(* no z- subnet stands beside a global subnet of another CIDR.             *)
(* All for any resources, names, zones and configurations.                 *)
(***************************************************************************)
EXTENDS InfrastructureProofs

---------------------------------------------------------------------------
(* The subnets below a root subnet *)

NodeKinds == {"zonal", "global"}
Net(k, n, z) == sub[<<k, n, z>>]

(* A CIDR is right for a zone of resource i if no config gives it another.   *)
Fits(i, z, c) == \A d \in Configs[i] : \A k \in 1..Len(d.zones) :
  d.zones[k].name = z => d.zones[k].cidr = c

(* A zone is secured when its z- subnet is there to stay: GetZone finds no   *)
(* reason to delete it.                                                     *)
Secured(i, z) ==
  /\ Net("zonal", NameOf[i], z) # None /\ Net("zonal", NameOf[i], z).life = "live"
  /\ Net("global", NameOf[i], z) # None => Fits(i, z, Net("global", NameOf[i], z).cidr)

(* Without finalizers nothing lingers.                                       *)
LiveInv == ~Finalizers => \A k \in SubKeys : sub[k] # None => sub[k].life = "live"

(* As long as no shoot of a name has been deleted, whoever owns the root     *)
(* subnet has made all that is below it, and had no reason to delete any.   *)
Calm(n) == \A j \in Infra : NameOf[j] = n => cr[j].phase \in {"none", "live", "migrated"}
CalmInv == \A n \in Names : Calm(n) =>
  /\ root[n] # None => root[n].life = "live"
  /\ root[n] = None => \A z \in Zones, k \in NodeKinds : Net(k, n, z) = None
  /\ \A i \in Infra \ Legacy : NameOf[i] = n /\ StableCidrs(i) =>
       /\ job[i].op = "reconcile" => job[i].pc \notin {"zone_delnet", "zone_delglobal"}
       /\ root[n] # None /\ root[n].owner = i =>
            \A z \in Zones, k \in NodeKinds : Net(k, n, z) # None =>
              Net(k, n, z).life = "live" /\ Fits(i, z, Net(k, n, z).cidr)

(* The published zones are secured, and so are those a reconcile has left    *)
(* behind; where it stands the global subnet, if any, is as it should be,   *)
(* except where it is about to be replaced.                                *)
ZonePcs == {"zone_get", "zone_delnet", "zone_delglobal", "zone_create", "zone_wait",
            "prop_wait", "net_get", "net_create", "net_wait"}
HavePcs == {"zone_wait", "prop_wait", "net_get", "net_create", "net_wait"}
StatusSecured(i) == cr[i].phase \in {"live", "migrated"} /\ cr[i].status # None =>
  \A k \in 1..Len(cr[i].status.zones) : Secured(i, cr[i].status.zones[k])
JobSecured(i) == cr[i].phase = "live" /\ job[i].op = "reconcile" =>
  /\ job[i].pc \in ZonePcs => \A k \in 1..job[i].zi-1 : Secured(i, job[i].snap.zones[k].name)
  /\ job[i].pc = "done" => \A k \in 1..Len(job[i].snap.zones) : Secured(i, job[i].snap.zones[k].name)
  /\ job[i].pc \in HavePcs =>
       LET g == Net("global", NameOf[i], Entry(i).name) IN g # None => Fits(i, Entry(i).name, g.cidr)
  /\ job[i].pc = "zone_delnet" =>
       LET g == Net("global", NameOf[i], Entry(i).name) IN g # None /\ g.cidr # Entry(i).cidr
SecuredInv == \A i \in Infra \ Legacy : Undisturbed(i) => StatusSecured(i) /\ JobSecured(i)

(* A resource that was migrated keeps the root subnet, label and all.        *)
MigratedInv == \A i \in Infra \ Legacy : cr[i].phase = "migrated" /\ cr[i].status # None =>
  Root(i) # None /\ Root(i).life = "live" /\ Root(i).owner = i

NetworkInv == LiveInv /\ (StableRoot /\ trespassers = {} => CalmInv /\ SecuredInv /\ MigratedInv)

(* The nodes' subnets are objects, or not there.                             *)
LEMMA NodeType ==
  ASSUME TypeOK, NEW n \in Names, NEW z \in Zones, NEW k \in NodeKinds
  PROVE  <<k, n, z>> \in SubKeys /\ Net(k, n, z) \in SubObj \cup {None}
<1>1. <<k, n, z>> \in SubKeys
  BY DEF SubKeys, NodeKinds, SubnetKinds
<1>. QED  BY <1>1 DEF TypeOK, Net

(* What becomes of an object that no job of its name touches.                *)
Kept(o, p) == p = o \/ (o # None /\ p # None /\ p.cidr = o.cidr /\ p.life = o.life)
Aged(o, p) == Kept(o, p) \/ (o # None /\ o.life = "terminating" /\ p = None)
NodesAge(n) == \A z \in Zones, k \in NodeKinds : Aged(Net(k, n, z), Net(k, n, z)')

(* A subnet job touches its own shoot's subnets and root subnet only.        *)
LEMMA SubnetTouch ==
  ASSUME TypeOK, NEW i \in Infra, SubnetTask(i)
  PROVE  /\ job[i].op # "none" /\ cr' = cr
         /\ \A j \in Infra : j # i => job'[j] = job[j]
         /\ \A n \in Names : n # NameOf[i] => root'[n] = root[n]
         /\ \A key \in SubKeys : sub'[key] # sub[key] => \E k \in SubnetKinds : key = Key(k, i)
<1>. USE DEF SubnetTask, GetRoot, AdoptRoot, CreateRoot, WaitRoot, GetZone, DeleteZoneNet, DeleteZone,
       CreateZone, WaitZone, WaitPropagated, GetNet, CreateNet, WaitNet, DelNet, DelProp, DelGlobal,
       DelRoot, DeleteStep, CreateStep, WaitStep
<1>1. job[i].op # "none" /\ cr' = cr
  BY DEF At
<1>2. \A j \in Infra : j # i => job'[j] = job[j]
  BY DEF TypeOK, Goto, GotoZone, SameOrRecreate
<1>3. \A n \in Names : n # NameOf[i] => root'[n] = root[n]
  BY DEF TypeOK
<1>4. \/ sub' = sub
      \/ \E k \in SubnetKinds : \E o : sub' = [sub EXCEPT ![Key(k, i)] = o]
  BY DEF SubnetKinds
<1>5. \A key \in SubKeys : sub'[key] # sub[key] => \E k \in SubnetKinds : key = Key(k, i)
  BY <1>4 DEF TypeOK
<1>. QED  BY <1>1, <1>2, <1>3, <1>5

(* The subnets of a name change by themselves in no other way than to become *)
(* ready, and to vanish when they have been deleted.                        *)
LEMMA OthersAge ==
  ASSUME TypeOK, [Next]_vars, NEW n \in Names,
         \A i \in Infra : NameOf[i] = n => ~SubnetTask(i)
  PROVE  NodesAge(n)
<1>. SUFFICES ASSUME NEW z \in Zones, NEW k \in NodeKinds
              PROVE  Aged(Net(k, n, z), Net(k, n, z)')
  BY DEF NodesAge
<1>. DEFINE key == <<k, n, z>>
<1>1. key \in SubKeys /\ sub[key] \in SubObj \cup {None} /\ sub \in [SubKeys -> SubObj \cup {None}]
  BY NodeType DEF TypeOK, Net
<1>2. CASE sub'[key] = sub[key]
  BY <1>2 DEF Aged, Kept, Net
<1>3. ASSUME NEW i \in Infra, SubnetTask(i) PROVE sub'[key] = sub[key]
  BY <1>1, <1>3, SubnetTouch DEF Key
<1>4. ASSUME NEW i \in Infra, EgressTask(i) PROVE sub'[key] = sub[key]
  <2>1. \/ sub' = sub
        \/ \E e \in EgressKinds : \E o : sub' = [sub EXCEPT ![EKey(e, i)] = o]
    BY <1>4 DEF EgressTask, CreateEgress, WaitEgress, CreateNat, WaitNat, DeleteNat, DeleteEgress,
       EgressCreateStep, EgressDeleted, EgressKinds
  <2>2. \A e \in EgressKinds : EKey(e, i) # key
    BY DEF EgressKinds, NodeKinds, EKey
  <2>. QED  BY <1>1, <2>1, <2>2
<1>5. ASSUME NEW i \in Infra, Start(i) \/ Finish(i) \/ CallFails(i) \/ User(i) PROVE sub' = sub
  BY <1>5 DEF Start, StartReconcile, StartDelete, Finish, CallFails, User, CreateShoot, UpdateSpec,
     DeleteShoot, ForceDelete, Migrate
<1>6. CASE Restart \/ UNCHANGED vars
  BY <1>2, <1>6 DEF Restart, vars
<1>7. CASE Gdc
  <2>1. CASE \E m \in Names : RootReady(m) \/ RootVanishes(m)
    BY <1>2, <2>1 DEF RootReady, RootVanishes
  <2>2. ASSUME NEW q \in SubKeys, SubReady(q) PROVE Aged(sub[key], sub'[key])
    <3>1. CASE q = key
      <4>1. /\ sub[key] # None /\ sub[key] \in SubObj
            /\ sub'[key] = [sub[key] EXCEPT !.cond = "Ready"]
        BY <1>1, <2>2, <3>1 DEF SubReady
      <4>2. sub'[key] \in SubObj
        BY <4>1 DEF SubObj, Conds
      <4>. QED  BY <4>1, <4>2, NoneAssumption DEF Aged, Kept, SubObj
    <3>2. CASE q # key
      BY <1>1, <1>2, <2>2, <3>2 DEF SubReady, Net
    <3>. QED  BY <3>1, <3>2
  <2>3. ASSUME NEW q \in SubKeys, SubVanishes(q) PROVE Aged(sub[key], sub'[key])
    BY <1>1, <2>3 DEF SubVanishes, Aged, Kept
  <2>4. ASSUME NEW m \in Names, NEW y \in Zones, Propagate(m, y) \/ Withdraw(m, y)
        PROVE  sub'[key] = sub[key]
    BY <1>1, <2>4 DEF Propagate, Withdraw, NodeKinds
  <2>. QED  BY <1>2, <1>7, <2>1, <2>2, <2>3, <2>4 DEF Gdc, Net
<1>. QED  BY <1>2, <1>3, <1>4, <1>5, <1>6, <1>7 DEF Next, Controller

(* Nothing deleted is ever alive again.                                      *)
LEMMA PhaseBack ==
  ASSUME TypeOK, [Next]_vars, NEW j \in Infra, cr'[j].phase \in {"none", "live", "migrated"}
  PROVE  cr[j].phase \in {"none", "live", "migrated"}
<1>1. CASE cr' = cr
  BY <1>1
<1>2. ASSUME NEW i \in Infra, User(i) PROVE cr[j].phase \in {"none", "live", "migrated"}
  BY <1>2 DEF TypeOK, CrObj, User, CreateShoot, UpdateSpec, DeleteShoot, ForceDelete, Migrate
<1>3. ASSUME NEW i \in Infra, Finish(i) PROVE cr[j].phase \in {"none", "live", "migrated"}
  BY <1>3 DEF TypeOK, CrObj, Finish
<1>4. ASSUME NEW i \in Infra, Start(i) \/ SubnetTask(i) \/ EgressTask(i) \/ CallFails(i) PROVE cr' = cr
  BY <1>4, SubnetTouch DEF Start, StartReconcile, StartDelete, CallFails, EgressTask, CreateEgress,
     WaitEgress, CreateNat, WaitNat, DeleteNat, DeleteEgress, EgressCreateStep
<1>5. CASE Gdc \/ Restart \/ UNCHANGED vars
  BY <1>1, <1>5 DEF Gdc, RootReady, RootVanishes, SubReady, SubVanishes, Propagate, Withdraw, Restart, vars
<1>. QED  BY <1>1, <1>2, <1>3, <1>4, <1>5 DEF Next, Controller

(* Without finalizers nothing lingers: deletion takes effect at once.        *)
LEMMA LiveNext == TypeOK /\ LiveInv /\ [Next]_vars => LiveInv'
<1>. SUFFICES ASSUME TypeOK, LiveInv, [Next]_vars, ~Finalizers, NEW key \in SubKeys, sub'[key] # None
              PROVE  sub'[key].life = "live"
  BY DEF LiveInv
<1>1. sub \in [SubKeys -> SubObj \cup {None}] /\ (sub[key] # None => sub[key].life = "live")
  BY DEF TypeOK, LiveInv
<1>2. CASE sub'[key] = sub[key]
  BY <1>1, <1>2
<1>3. ASSUME NEW q \in SubKeys, NEW o, sub' = [sub EXCEPT ![q] = o],
             o # None => o.life = "live"
      PROVE  sub'[key].life = "live"
  BY <1>1, <1>3
<1>4. /\ \A o : Deleted(o) = None
      /\ \A c : NewSub(c).life = "live"
  BY DEF Deleted, NewSub
<1>5. ASSUME NEW i \in Infra, SubnetTask(i) PROVE sub'[key].life = "live"
  <2>1. \A k \in SubnetKinds : Key(k, i) \in SubKeys
    BY <1>5, SubnetTouch, KeyType
  <2>2. \/ sub' = sub
        \/ \E k \in SubnetKinds : sub' = [sub EXCEPT ![Key(k, i)] = Deleted(@)]
        \/ \E k \in SubnetKinds : sub' = [sub EXCEPT ![Key(k, i)] = NewSub(Entry(i).cidr)]
    BY <1>5 DEF SubnetTask, GetRoot, AdoptRoot, CreateRoot, WaitRoot, GetZone, DeleteZoneNet, DeleteZone,
      CreateZone, WaitZone, WaitPropagated, GetNet, CreateNet, WaitNet, DelNet, DelProp, DelGlobal,
      DelRoot, DeleteStep, CreateStep, WaitStep, SubnetKinds
  <2>3. CASE \E k \in SubnetKinds : sub' = [sub EXCEPT ![Key(k, i)] = Deleted(@)]
    <3>1. PICK k \in SubnetKinds : sub' = [sub EXCEPT ![Key(k, i)] = None]
      BY <1>4, <2>3
    <3>. QED  BY <1>3, <2>1, <3>1
  <2>4. CASE \E k \in SubnetKinds : sub' = [sub EXCEPT ![Key(k, i)] = NewSub(Entry(i).cidr)]
    BY <1>3, <1>4, <2>1, <2>4
  <2>. QED  BY <1>2, <2>2, <2>3, <2>4
<1>6. ASSUME NEW i \in Infra, EgressTask(i) PROVE sub'[key].life = "live"
  <2>1. job[i].op # "none"
    BY <1>6 DEF EgressTask, CreateEgress, WaitEgress, CreateNat, WaitNat, DeleteNat, DeleteEgress,
       EgressCreateStep, EAt
  <2>2. \A k \in EgressKinds : EKey(k, i) \in SubKeys
    BY <2>1, KeyType
  <2>3. \/ sub' = sub
        \/ \E k \in EgressKinds : \/ sub' = [sub EXCEPT ![EKey(k, i)] = Deleted(@)]
                                  \/ sub' = [sub EXCEPT ![EKey(k, i)] = IF @ = None THEN NewSub(None) ELSE @]
    BY <1>6 DEF EgressTask, CreateEgress, WaitEgress, CreateNat, WaitNat, DeleteNat, DeleteEgress,
       EgressCreateStep, EgressDeleted, EgressKinds
  <2>4. CASE \E k \in EgressKinds : sub' = [sub EXCEPT ![EKey(k, i)] = Deleted(@)]
    <3>1. PICK k \in EgressKinds : sub' = [sub EXCEPT ![EKey(k, i)] = None]
      BY <1>4, <2>4
    <3>. QED  BY <1>3, <2>2, <3>1
  <2>5. CASE \E k \in EgressKinds : sub' = [sub EXCEPT ![EKey(k, i)] = IF @ = None THEN NewSub(None) ELSE @]
    <3>1. PICK k \in EgressKinds :
            sub' = [sub EXCEPT ![EKey(k, i)] = IF sub[EKey(k, i)] = None THEN NewSub(None) ELSE sub[EKey(k, i)]]
      BY <2>5
    <3>2. CASE sub[EKey(k, i)] = None
      <4>. DEFINE o == NewSub(None)
      <4>1. sub' = [sub EXCEPT ![EKey(k, i)] = o] /\ o.life = "live"
        BY <1>4, <3>1, <3>2
      <4>. HIDE DEF o
      <4>. QED  BY <1>3, <2>2, <4>1
    <3>3. CASE sub[EKey(k, i)] # None
      BY <1>1, <1>2, <2>2, <3>1, <3>3
    <3>. QED  BY <3>2, <3>3
  <2>. QED  BY <1>2, <2>3, <2>4, <2>5
<1>7. CASE Gdc
  <2>1. ASSUME NEW q \in SubKeys, SubReady(q) PROVE sub'[key].life = "live"
    <3>1. CASE q = key
      <4>1. sub[key] # None /\ sub[key] \in SubObj /\ sub'[key] = [sub[key] EXCEPT !.cond = "Ready"]
        BY <1>1, <2>1, <3>1 DEF SubReady
      <4>. QED  BY <1>1, <4>1 DEF SubObj
    <3>. QED  BY <1>1, <1>2, <2>1, <3>1 DEF SubReady
  <2>2. ASSUME NEW q \in SubKeys, SubVanishes(q) PROVE sub'[key].life = "live"
    BY <1>1, <2>2 DEF SubVanishes
  <2>3. ASSUME NEW m \in Names, NEW y \in Zones, Propagate(m, y) \/ Withdraw(m, y)
        PROVE  sub'[key].life = "live"
    <3>1. <<"propagated", m, y>> \in SubKeys
      BY DEF SubKeys, SubnetKinds
    <3>. QED  BY <1>1, <1>4, <2>3, <3>1 DEF Propagate, Withdraw
  <2>. QED  BY <1>2, <1>7, <2>1, <2>2, <2>3 DEF Gdc, RootReady, RootVanishes
<1>8. ASSUME NEW i \in Infra, Start(i) \/ Finish(i) \/ CallFails(i) \/ User(i) PROVE sub' = sub
  BY <1>8 DEF Start, StartReconcile, StartDelete, Finish, CallFails, User, CreateShoot, UpdateSpec,
     DeleteShoot, ForceDelete, Migrate
<1>9. CASE Restart \/ UNCHANGED vars
  BY <1>2, <1>9 DEF Restart, vars
<1>. QED  BY <1>2, <1>5, <1>6, <1>7, <1>8, <1>9 DEF Next, Controller

(* A job that its subnet task does not move begins, ends, fails or stays.    *)
LEMMA OtherJobs ==
  ASSUME TypeOK, [Next]_vars, NEW i \in Infra, ~SubnetTask(i)
  PROVE  \/ job'[i].op = "none"
         \/ StartReconcile(i) /\ job'[i].op = "reconcile" /\ job'[i].pc = "root_get"
         \/ StartDelete(i) /\ job'[i].op = "delete" /\ job'[i].pc = "del_net"
         \/ /\ job'[i].op = job[i].op /\ job'[i].snap = job[i].snap /\ job'[i].zi = job[i].zi
            /\ job'[i].pc \in {job[i].pc, "failed"}
<1>. DEFINE Same == /\ job'[i].op = job[i].op /\ job'[i].snap = job[i].snap /\ job'[i].zi = job[i].zi
                    /\ job'[i].pc \in {job[i].pc, "failed"}
<1>1. job \in [Infra -> JobObj]
  BY DEF TypeOK
<1>2. ASSUME NEW k \in Infra, SubnetTask(k) PROVE Same
  BY <1>2, SubnetTouch
<1>3. ASSUME NEW k \in Infra, EgressTask(k) PROVE Same
  <2>1. PICK p, l : EGoto(k, p) \/ EGotoZone(k, p, l)
    BY <1>3 DEF EgressTask, CreateEgress, WaitEgress, CreateNat, WaitNat, DeleteNat, DeleteEgress,
      EgressCreateStep
  <2>. QED  BY <1>1, <2>1 DEF EGoto, EGotoZone, JobObj
<1>4. ASSUME NEW k \in Infra, Start(k)
      PROVE  Same \/ (StartReconcile(i) /\ job'[i].op = "reconcile" /\ job'[i].pc = "root_get")
                  \/ (StartDelete(i) /\ job'[i].op = "delete" /\ job'[i].pc = "del_net")
  BY <1>1, <1>4 DEF Start, StartReconcile, StartDelete, Idle
<1>5. ASSUME NEW k \in Infra, Finish(k) PROVE Same \/ job'[i].op = "none"
  BY <1>1, <1>5 DEF Finish, Idle
<1>6. ASSUME NEW k \in Infra, CallFails(k) PROVE Same
  BY <1>1, <1>6 DEF CallFails, Goto, EGoto, JobObj
<1>7. ASSUME NEW k \in Infra, User(k) PROVE Same
  BY <1>7 DEF User, CreateShoot, UpdateSpec, DeleteShoot, ForceDelete, Migrate
<1>8. CASE Restart
  BY <1>8 DEF Restart, Idle
<1>9. CASE Gdc \/ UNCHANGED vars
  BY <1>9 DEF Gdc, RootReady, RootVanishes, SubReady, SubVanishes, Propagate, Withdraw, vars
<1>. QED  BY <1>2, <1>3, <1>4, <1>5, <1>6, <1>7, <1>8, <1>9 DEF Next, Controller

(* A status is published by the end of a reconcile only, which published    *)
(* the configuration it worked on.                                         *)
LEMMA StatusFrom ==
  ASSUME TypeOK, [Next]_vars, NEW i \in Infra,
         cr'[i].phase \in {"live", "migrated"}, cr'[i].status # None
  PROVE  \/ /\ cr[i].phase \in {"live", "migrated"} /\ cr'[i].status = cr[i].status
            /\ cr'[i].phase = "live" => cr[i].phase = "live"
         \/ /\ Finish(i) /\ job[i].op = "reconcile" /\ job[i].pc = "done"
            /\ cr'[i].status = StatusOf(job[i].snap) /\ cr[i].phase = cr'[i].phase
<1>1. cr \in [Infra -> CrObj] /\ job[i].op \in {"none", "reconcile", "delete"}
  BY DEF TypeOK, JobObj
<1>2. CASE cr' = cr
  BY <1>2
<1>3. ASSUME NEW k \in Infra, User(k)
      PROVE  /\ cr[i].phase \in {"live", "migrated"} /\ cr'[i].status = cr[i].status
             /\ cr'[i].phase = "live" => cr[i].phase = "live"
  BY <1>1, <1>3 DEF CrObj, User, CreateShoot, UpdateSpec, DeleteShoot, ForceDelete, Migrate
<1>4. ASSUME NEW k \in Infra, Finish(k), k # i PROVE cr'[i] = cr[i]
  BY <1>1, <1>4 DEF Finish
<1>5. CASE Finish(i)
  BY <1>1, <1>5 DEF Finish, Succeeded, CrObj
<1>6. ASSUME NEW k \in Infra, Start(k) \/ SubnetTask(k) \/ EgressTask(k) \/ CallFails(k) PROVE cr' = cr
  BY <1>6, SubnetTouch DEF Start, StartReconcile, StartDelete, CallFails, EgressTask, CreateEgress,
     WaitEgress, CreateNat, WaitNat, DeleteNat, DeleteEgress, EgressCreateStep
<1>7. CASE Gdc \/ Restart \/ UNCHANGED vars
  BY <1>2, <1>7 DEF Gdc, RootReady, RootVanishes, SubReady, SubVanishes, Propagate, Withdraw, Restart, vars
<1>. QED  BY <1>2, <1>3, <1>4, <1>5, <1>6, <1>7 DEF Next, Controller

(* The subnets below a shoot's own root subnet are touched by nobody else,   *)
(* as long as nobody deletes under a foreign root.                         *)
LEMMA OwnNodesAge ==
  ASSUME TypeOK, \A k \in Infra : ShootInv(k), [Next]_vars, trespassers' = {},
         NEW i \in Infra, Root(i) # None, Root(i).owner = i, ~SubnetTask(i)
  PROVE  NodesAge(NameOf[i])
<1>1. NameOf[i] \in Names /\ i # None
  BY NamesAssumption, NoneAssumption
<1>2. ASSUME NEW j \in Infra, NameOf[j] = NameOf[i], SubnetTask(j) PROVE sub' = sub
  <2>1. j # i /\ Root(j) # None /\ Root(j).owner = i /\ ~Mine(j)
    BY <1>1, <1>2 DEF Root, Mine
  <2>2. ~(DelNet(j) \/ DelProp(j) \/ DelGlobal(j))
    BY <2>1 DEF DelNet, DelProp, DelGlobal, Trespass
  <2>3. job[j].op \in {"reconcile", "delete"}
    BY <1>2, SubnetTouch DEF TypeOK, JobObj
  <2>4. job[j].pc \notin OwnershipChecked \ {"done"}
    BY <2>1, <2>3 DEF ShootInv, JobInv, OwnershipChecked, DeletePcs
  <2>5. GetRoot(j) \/ AdoptRoot(j) \/ CreateRoot(j) \/ DelRoot(j)
    BY <1>2, <2>2, <2>4 DEF SubnetTask, WaitRoot, GetZone, DeleteZoneNet, DeleteZone, CreateZone, WaitZone,
      WaitPropagated, GetNet, CreateNet, WaitNet, DeleteStep, CreateStep, WaitStep, At, OwnershipChecked
  <2>. QED  BY <2>5 DEF GetRoot, AdoptRoot, CreateRoot, DelRoot
<1>3. CASE \E j \in Infra : NameOf[j] = NameOf[i] /\ SubnetTask(j)
  BY <1>2, <1>3 DEF NodesAge, Aged, Kept, Net
<1>4. CASE \A j \in Infra : NameOf[j] = NameOf[i] => ~SubnetTask(j)
  BY <1>1, <1>4, OthersAge
<1>. QED  BY <1>3, <1>4

(* An entry's own CIDR fits, if the CIDRs of the shoot are stable.           *)
LEMMA EntryFits ==
  ASSUME TypeOK, NEW i \in Infra, job[i].op # "none", StableCidrs(i)
  PROVE  Fits(i, Entry(i).name, Entry(i).cidr)
<1>1. job[i].snap \in Configs[i] /\ job[i].zi \in 1..Len(job[i].snap.zones)
  BY DEF TypeOK
<1>. QED  BY <1>1 DEF Fits, StableCidrs, Entry

(* The current entry's CIDR is the only one that fits.                       *)
LEMMA FitsOnly ==
  ASSUME TypeOK, NEW i \in Infra, job[i].op # "none", NEW c, Fits(i, Entry(i).name, c)
  PROVE  c = Entry(i).cidr
<1>1. job[i].snap \in Configs[i] /\ job[i].zi \in 1..Len(job[i].snap.zones)
  BY DEF TypeOK
<1>. QED  BY <1>1 DEF Fits, Entry

(* Objects that nobody touches stay secured.                                *)
LEMMA SecuredAge ==
  ASSUME TypeOK, NEW i \in Infra, NEW z \in Zones, NodesAge(NameOf[i]), Secured(i, z)
  PROVE  Secured(i, z)'
<1>. DEFINE o == Net("zonal", NameOf[i], z)  g == Net("global", NameOf[i], z)
<1>1. Aged(o, o') /\ Aged(g, g')
  BY DEF NodesAge, NodeKinds
<1>2. /\ o # None /\ o.life = "live" /\ (g # None => Fits(i, z, g.cidr))
  BY DEF Secured
<1>3. o' # None /\ o'.life = "live"
  BY <1>1, <1>2 DEF Aged, Kept
<1>4. g' # None => g # None /\ g'.cidr = g.cidr
  BY <1>1 DEF Aged, Kept
<1>. HIDE DEF o, g
<1>5. g' # None => Fits(i, z, g'.cidr)
  BY <1>2, <1>4
<1>. QED  BY <1>3, <1>5 DEF Secured, o, g, Fits, Net

(* What becomes of a root subnet that no subnet task of its name touches.    *)
LEMMA RootsAge ==
  ASSUME TypeOK, [Next]_vars, NEW n \in Names,
         \A i \in Infra : NameOf[i] = n => ~SubnetTask(i)
  PROVE  \/ root'[n] = root[n]
         \/ /\ root[n] # None /\ root'[n] # None
            /\ root'[n].owner = root[n].owner /\ root'[n].life = root[n].life
            /\ root'[n].key = root[n].key
         \/ root[n] # None /\ root[n].life = "terminating" /\ root'[n] = None
<1>1. root \in [Names -> RootObj \cup {None}]
  BY DEF TypeOK
<1>2. ASSUME NEW i \in Infra, SubnetTask(i) PROVE root'[n] = root[n]
  BY <1>2, SubnetTouch
<1>3. ASSUME NEW i \in Infra, User(i) \/ Start(i) \/ EgressTask(i) \/ Finish(i) \/ CallFails(i)
      PROVE  root' = root
  BY <1>3 DEF User, CreateShoot, UpdateSpec, DeleteShoot, ForceDelete, Migrate, Start, StartReconcile,
     StartDelete, EgressTask, CreateEgress, WaitEgress, CreateNat, WaitNat, DeleteNat, DeleteEgress,
     EgressCreateStep, Finish, CallFails
<1>4. ASSUME NEW m \in Names, RootReady(m)
      PROVE  \/ root'[n] = root[n]
             \/ /\ root[n] # None /\ root'[n] # None
                /\ root'[n].owner = root[n].owner /\ root'[n].life = root[n].life
                /\ root'[n].key = root[n].key
  <2>1. CASE m = n
    <3>1. root[n] # None /\ root[n] \in RootObj /\ root'[n] = [root[n] EXCEPT !.cond = "Ready"]
      BY <1>1, <1>4, <2>1 DEF RootReady
    <3>2. root'[n] \in RootObj
      BY <3>1 DEF RootObj, Conds
    <3>. QED  BY <3>1, <3>2, NoneAssumption DEF RootObj
  <2>. QED  BY <1>1, <1>4, <2>1 DEF RootReady
<1>5. ASSUME NEW m \in Names, RootVanishes(m)
      PROVE  root'[n] = root[n] \/ (root[n] # None /\ root[n].life = "terminating" /\ root'[n] = None)
  BY <1>1, <1>5 DEF RootVanishes
<1>6. CASE Gdc
  BY <1>4, <1>5, <1>6 DEF Gdc, SubReady, SubVanishes, Propagate, Withdraw
<1>. QED  BY <1>2, <1>3, <1>4, <1>5, <1>6 DEF Next, Controller, Restart, vars

(* A calm name stays in order while its subnets only age.                    *)
LEMMA CalmAge ==
  ASSUME TypeOK, [Next]_vars, CalmInv, NEW n \in Names, Calm(n),
         \A i \in Infra : NameOf[i] = n => ~SubnetTask(i)
  PROVE  /\ root'[n] # None => root'[n].life = "live"
         /\ root'[n] = None => \A z \in Zones, k \in NodeKinds : Net(k, n, z)' = None
         /\ \A i \in Infra \ Legacy : NameOf[i] = n /\ StableCidrs(i) =>
              /\ job'[i].op = "reconcile" => job'[i].pc \notin {"zone_delnet", "zone_delglobal"}
              /\ root'[n] # None /\ root'[n].owner = i =>
                   \A z \in Zones, k \in NodeKinds : Net(k, n, z)' # None =>
                     Net(k, n, z)'.life = "live" /\ Fits(i, z, Net(k, n, z)'.cidr)
<1>1. \/ root'[n] = root[n]
      \/ /\ root[n] # None /\ root'[n] # None
         /\ root'[n].owner = root[n].owner /\ root'[n].life = root[n].life
  BY RootsAge DEF CalmInv
<1>2. NodesAge(n)
  BY OthersAge
<1>3. root'[n] # None => root'[n].life = "live"
  BY <1>1 DEF CalmInv
<1>4. root'[n] = None => \A z \in Zones, k \in NodeKinds : Net(k, n, z)' = None
  BY <1>1, <1>2 DEF CalmInv, NodesAge, Aged, Kept
<1>5. ASSUME NEW i \in Infra \ Legacy, NameOf[i] = n, StableCidrs(i)
      PROVE  /\ job'[i].op = "reconcile" => job'[i].pc \notin {"zone_delnet", "zone_delglobal"}
             /\ root'[n] # None /\ root'[n].owner = i =>
                  \A z \in Zones, k \in NodeKinds : Net(k, n, z)' # None =>
                    Net(k, n, z)'.life = "live" /\ Fits(i, z, Net(k, n, z)'.cidr)
  <2>1. job'[i].op = "reconcile" => job'[i].pc \notin {"zone_delnet", "zone_delglobal"}
    BY <1>5, OtherJobs DEF CalmInv
  <2>2. ASSUME root'[n] # None, root'[n].owner = i, NEW z \in Zones, NEW k \in NodeKinds,
               Net(k, n, z)' # None
        PROVE  Net(k, n, z)'.life = "live" /\ Fits(i, z, Net(k, n, z)'.cidr)
    <3>1. root[n] # None /\ root[n].owner = i
      BY <1>1, <2>2
    <3>2. Aged(Net(k, n, z), Net(k, n, z)')
      BY <1>2 DEF NodesAge
    <3>3. Net(k, n, z) # None
      BY <2>2, <3>2 DEF Aged, Kept
    <3>4. Net(k, n, z).life = "live" /\ Fits(i, z, Net(k, n, z).cidr)
      BY <1>5, <3>1, <3>3 DEF CalmInv
    <3>5. Net(k, n, z)'.life = "live" /\ Net(k, n, z)'.cidr = Net(k, n, z).cidr
      BY <2>2, <3>2, <3>4 DEF Aged, Kept
    <3>. QED  BY <3>4, <3>5
  <2>. QED  BY <2>1, <2>2
<1>. QED  BY <1>3, <1>4, <1>5

(* In a calm name only reconciles run, none of which deletes.               *)
LEMMA CalmJob ==
  ASSUME TypeOK, \A k \in Infra : ShootInv(k), NEW i \in Infra, Calm(NameOf[i]), SubnetTask(i)
  PROVE  job[i].op = "reconcile" /\ cr[i].phase = "live" /\ job[i].pc \notin DeletePcs
<1>1. job[i].op # "none" /\ cr[i].phase \in {"none", "live", "migrated"} /\ ShootInv(i)
  BY SubnetTouch DEF Calm
<1>. QED  BY <1>1 DEF TypeOK, JobObj, ShootInv, JobInv

(* What a creating or deleting subnet task does to its own shoot's subnets.  *)
LEMMA NetWrites ==
  ASSUME TypeOK, NEW i \in Infra, job[i].op # "none",
         NEW k \in SubnetKinds, NEW o, sub' = [sub EXCEPT ![Key(k, i)] = o]
  PROVE  \A z \in Zones, l \in NodeKinds :
           Net(l, NameOf[i], z)' = IF l = k /\ z = Entry(i).name THEN o ELSE Net(l, NameOf[i], z)
<1>1. NameOf[i] \in Names /\ Key(k, i) \in SubKeys
  BY KeyType, NamesAssumption
<1>2. ASSUME NEW z \in Zones, NEW l \in NodeKinds PROVE <<l, NameOf[i], z>> \in SubKeys
  BY <1>1, NodeType
<1>. QED  BY <1>1, <1>2 DEF TypeOK, Net, Key

(* A new subnet is an object of the current entry's CIDR.                   *)
LEMMA NewSubIs ==
  ASSUME TypeOK, NEW i \in Infra, job[i].op # "none"
  PROVE  LET o == NewSub(Entry(i).cidr) IN o # None /\ o.life = "live" /\ o.cidr = Entry(i).cidr
<1>1. Entry(i).cidr \in Cidrs
  BY KeyType
<1>2. NewSub(Entry(i).cidr) \in SubObj
  BY <1>1 DEF NewSub, SubObj, Conds, Lives
<1>. QED  BY <1>2, NoneAssumption DEF NewSub

(* A reconcile keeps its calm name in order.                                *)
LEMMA CalmTask ==
  ASSUME TypeOK, \A k \in Infra : ShootInv(k), CalmInv,
         NEW t \in Infra, SubnetTask(t), NEW n \in Names, n = NameOf[t], Calm(n)
  PROVE  /\ root'[n] # None => root'[n].life = "live"
         /\ root'[n] = None => \A z \in Zones, k \in NodeKinds : Net(k, n, z)' = None
         /\ \A i \in Infra \ Legacy : NameOf[i] = n /\ StableCidrs(i) =>
              /\ job'[i].op = "reconcile" => job'[i].pc \notin {"zone_delnet", "zone_delglobal"}
              /\ root'[n] # None /\ root'[n].owner = i =>
                   \A z \in Zones, k \in NodeKinds : Net(k, n, z)' # None =>
                     Net(k, n, z)'.life = "live" /\ Fits(i, z, Net(k, n, z)'.cidr)
<1>. DEFINE Goal(i) == NameOf[i] = n /\ StableCidrs(i) =>
              /\ job'[i].op = "reconcile" => job'[i].pc \notin {"zone_delnet", "zone_delglobal"}
              /\ root'[n] # None /\ root'[n].owner = i =>
                   \A z \in Zones, k \in NodeKinds : Net(k, n, z)' # None =>
                     Net(k, n, z)'.life = "live" /\ Fits(i, z, Net(k, n, z)'.cidr)
<1>1. /\ job[t].op = "reconcile" /\ job[t].pc \notin DeletePcs /\ ShootInv(t)
      /\ cr[t].phase = "live"
  BY CalmJob
<1>2. /\ root \in [Names -> RootObj \cup {None}] /\ Root(t) = root[n]
      /\ \A j \in Infra : j # t => job'[j] = job[j]
      /\ job \in [Infra -> JobObj]
  BY SubnetTouch DEF TypeOK, Root
<1>3. ASSUME NEW i \in Infra \ Legacy, NameOf[i] = n, StableCidrs(i)
      PROVE  /\ job[i].op = "reconcile" => job[i].pc \notin {"zone_delnet", "zone_delglobal"}
             /\ root[n] # None /\ root[n].owner = i =>
                  \A z \in Zones, k \in NodeKinds : Net(k, n, z) # None =>
                    Net(k, n, z).life = "live" /\ Fits(i, z, Net(k, n, z).cidr)
  BY <1>3 DEF CalmInv
<1>4. /\ root[n] # None => root[n].life = "live"
      /\ root[n] = None => \A z \in Zones, k \in NodeKinds : Net(k, n, z) = None
  BY DEF CalmInv
<1>5. ASSUME UNCHANGED <<root, sub>>, NEW p, NEW l, Goto(t, p) \/ GotoZone(t, p, l),
             p \notin {"zone_delnet", "zone_delglobal"} \/ t \in Legacy \/ ~StableCidrs(t),
             NEW i \in Infra \ Legacy
      PROVE  Goal(i)
  <2>1. \A z \in Zones, k \in NodeKinds : Net(k, n, z)' = Net(k, n, z)
    BY <1>5 DEF Net
  <2>2. job'[i].op = job[i].op /\ job'[i].pc = IF i = t THEN p ELSE job[i].pc
    BY <1>5, MoveJob
  <2>. QED  BY <1>3, <1>5, <2>1, <2>2
<1>6. CASE GetRoot(t) \/ WaitRoot(t)
  <2>1. UNCHANGED <<root, sub>>
    BY <1>6 DEF GetRoot, WaitRoot
  <2>2. PICK p \in {"root_create", "root_wait", "root_adopt", "del_net", "zone_get", "failed"}, l \in {1} :
          Goto(t, p) \/ GotoZone(t, p, l)
    BY <1>6 DEF GetRoot, WaitRoot, SameOrRecreate
  <2>3. \A i \in Infra \ Legacy : Goal(i)
    BY <1>5, <2>1, <2>2
  <2>. QED  BY <1>4, <2>1, <2>3 DEF Net
<1>7. CASE AdoptRoot(t)
  <2>1. HasRoot(t)
    <3>1. cr[t].status # None /\ Active(t)
      BY <1>1, <1>7 DEF AdoptRoot, At, ShootInv, JobInv, Active
    <3>. QED  BY <1>1, <3>1 DEF ShootInv, OwnRootInv
  <2>2. /\ root' = [root EXCEPT ![n].owner = t] /\ UNCHANGED sub
        /\ root[n] # None /\ root[n] \in RootObj /\ Mine(t)
    BY <1>2, <1>7, <2>1 DEF AdoptRoot, HasRoot
  <2>3. root'[n] = [root[n] EXCEPT !.owner = t]
    BY <1>2, <2>2
  <2>4. root'[n] \in RootObj /\ root'[n].owner = t /\ root'[n].life = root[n].life
    BY <2>2, <2>3 DEF RootObj
  <2>5. PICK p \in {"root_wait", "del_net"}, l \in {1} : Goto(t, p) \/ GotoZone(t, p, l)
    BY <1>7, <2>1 DEF AdoptRoot, SameOrRecreate, HasRoot
  <2>6. ASSUME NEW i \in Infra \ Legacy PROVE Goal(i)
    <3>1. \A z \in Zones, k \in NodeKinds : Net(k, n, z)' = Net(k, n, z)
      BY <2>2 DEF Net
    <3>2. job'[i].op = job[i].op /\ job'[i].pc = IF i = t THEN p ELSE job[i].pc
      BY <2>5, MoveJob
    <3>3. i = t => root[n].owner = i
      BY <1>2, <2>2 DEF Mine
    <3>. QED  BY <1>3, <2>2, <2>4, <3>1, <3>2, <3>3
  <2>7. root'[n] # None /\ root'[n].life = "live"
    BY <1>4, <2>2, <2>4, NoneAssumption
  <2>. QED  BY <2>6, <2>7
<1>8. CASE CreateRoot(t)
  <2>1. CASE root[n] # None
    <3>1. UNCHANGED <<root, sub>> /\ Goto(t, "failed")
      BY <1>2, <1>8, <2>1 DEF CreateRoot
    <3>2. \A i \in Infra \ Legacy : Goal(i)
      BY <1>5, <3>1
    <3>. QED  BY <1>4, <3>1, <3>2 DEF Net
  <2>2. CASE root[n] = None
    <3>1. /\ UNCHANGED sub /\ Goto(t, "root_wait")
          /\ root'[n] = [owner |-> t, key |-> job[t].snap.root, cond |-> "NotReady", life |-> "live"]
      BY <1>2, <1>8, <2>2 DEF CreateRoot
    <3>2. job[t].snap.root \in RootKeys
      BY <1>1, ConfigsAssumption DEF TypeOK, Config
    <3>3. root'[n] \in RootObj
      BY <3>1, <3>2 DEF RootObj, Conds, Lives
    <3>4. root'[n] # None /\ root'[n].life = "live"
      BY <3>1, <3>3, NoneAssumption
    <3>5. \A z \in Zones, k \in NodeKinds : Net(k, n, z)' = None
      BY <1>4, <2>2, <3>1 DEF Net
    <3>6. ASSUME NEW i \in Infra \ Legacy PROVE Goal(i)
      <4>1. job'[i].op = job[i].op /\ job'[i].pc = IF i = t THEN "root_wait" ELSE job[i].pc
        BY <3>1, MoveJob
      <4>. QED  BY <1>3, <3>5, <4>1
    <3>. QED  BY <3>4, <3>5, <3>6
  <2>. QED  BY <2>1, <2>2
<1>9. ASSUME job[t].pc \in OwnershipChecked PROVE root[n] # None /\ root[n].owner = t
  BY <1>1, <1>2, <1>9 DEF ShootInv, JobInv
<1>10. CASE GetZone(t)
  <2>1. root[n] # None /\ root[n].owner = t /\ UNCHANGED <<root, sub>>
    BY <1>9, <1>10 DEF GetZone, At, OwnershipChecked
  <2>2. PICK p \in {"zone_create", "zone_wait", "zone_delnet"}, l \in {1} :
          /\ Goto(t, p) \/ GotoZone(t, p, l)
          /\ p = "zone_delnet" =>
               sub[Key("global", t)] # None /\ sub[Key("global", t)].cidr # Entry(t).cidr
    BY <1>10 DEF GetZone
  <2>3. Entry(t).name \in Zones /\ sub[Key("global", t)] = Net("global", n, Entry(t).name)
    BY <1>1, EntryType DEF Entry, Key, Net, TypeOK
  <2>4. ASSUME t \notin Legacy, StableCidrs(t) PROVE p # "zone_delnet"
    <3>1. "global" \in NodeKinds
      BY DEF NodeKinds
    <3>2. Net("global", n, Entry(t).name) # None =>
            Fits(t, Entry(t).name, Net("global", n, Entry(t).name).cidr)
      BY <1>3, <2>1, <2>3, <2>4, <3>1
    <3>3. Net("global", n, Entry(t).name) # None => Net("global", n, Entry(t).name).cidr = Entry(t).cidr
      BY <1>1, <3>2, FitsOnly
    <3>. QED  BY <2>2, <2>3, <3>3
  <2>5. \A i \in Infra \ Legacy : Goal(i)
    BY <1>5, <2>1, <2>2, <2>4
  <2>. QED  BY <1>4, <2>1, <2>5 DEF Net
<1>11. CASE WaitZone(t) \/ WaitPropagated(t) \/ GetNet(t) \/ WaitNet(t)
  <2>1. root[n] # None /\ root[n].owner = t /\ UNCHANGED <<root, sub>>
    BY <1>9, <1>11 DEF WaitZone, WaitPropagated, WaitStep, GetNet, WaitNet, At, OwnershipChecked
  <2>2. PICK p \in {"prop_wait", "net_get", "net_create", "net_wait", "done", "zone_get", "failed"}, l \in {job[t].zi + 1} :
          Goto(t, p) \/ GotoZone(t, p, l)
    BY <1>11 DEF WaitZone, WaitPropagated, WaitStep, GetNet, WaitNet
  <2>3. \A i \in Infra \ Legacy : Goal(i)
    BY <1>5, <2>1, <2>2
  <2>. QED  BY <1>4, <2>1, <2>3 DEF Net
<1>12. CASE DeleteZoneNet(t) \/ DeleteZone(t)
  <2>1. root[n] # None /\ root[n].owner = t /\ UNCHANGED root
    BY <1>9, <1>12 DEF DeleteZoneNet, DeleteZone, DeleteStep, At, OwnershipChecked
  <2>2. t \in Legacy \/ ~StableCidrs(t)
    BY <1>1, <1>3, <1>12 DEF DeleteZoneNet, DeleteZone, DeleteStep, At
  <2>3. ASSUME NEW i \in Infra \ Legacy PROVE Goal(i)
    BY <1>2, <1>3, <2>1, <2>2
  <2>. QED  BY <1>4, <2>1, <2>3
<1>13. CASE CreateZone(t) \/ CreateNet(t)
  <2>1. root[n] # None /\ root[n].owner = t /\ UNCHANGED root
    BY <1>9, <1>13 DEF CreateZone, CreateNet, CreateStep, At, OwnershipChecked
  <2>2. PICK k \in NodeKinds : CreateStep(t, job[t].pc, k, IF k = "global" THEN "zone_wait" ELSE "net_wait")
    BY <1>13 DEF CreateZone, CreateNet, CreateStep, At, NodeKinds
  <2>3. CASE UNCHANGED sub /\ Goto(t, "failed")
    <3>1. \A i \in Infra \ Legacy : Goal(i)
      BY <1>5, <2>1, <2>3
    <3>. QED  BY <1>4, <2>1, <3>1
  <2>4. CASE /\ sub' = [sub EXCEPT ![Key(k, t)] = NewSub(Entry(t).cidr)]
             /\ \E p \in {"zone_wait", "net_wait"} : Goto(t, p)
    <3>1. \A z \in Zones, l \in NodeKinds : Net(l, n, z)' =
            IF l = k /\ z = Entry(t).name THEN NewSub(Entry(t).cidr) ELSE Net(l, n, z)
      <4>1. k \in SubnetKinds
        BY DEF NodeKinds, SubnetKinds
      <4>. QED  BY <1>1, <2>4, <4>1, NetWrites
    <3>2. NewSub(Entry(t).cidr).life = "live" /\ NewSub(Entry(t).cidr).cidr = Entry(t).cidr
      BY <1>1, NewSubIs
    <3>3. StableCidrs(t) => Fits(t, Entry(t).name, Entry(t).cidr)
      BY <1>1, EntryFits
    <3>4. ASSUME NEW i \in Infra \ Legacy PROVE Goal(i)
      <4>1. job'[i].op = job[i].op
            /\ (job'[i].pc = job[i].pc \/ job'[i].pc \in {"zone_wait", "net_wait"})
        BY <2>4, MoveJob
      <4>2. CASE i # t
        BY <1>2, <1>3, <2>1, <4>1, <4>2
      <4>3. CASE i = t
        BY <1>3, <2>1, <3>1, <3>2, <3>3, <4>1, <4>3
      <4>. QED  BY <4>2, <4>3
    <3>. QED  BY <1>4, <2>1, <3>4
  <2>. QED  BY <2>2, <2>3, <2>4 DEF CreateStep
<1>14. ~(DelNet(t) \/ DelProp(t) \/ DelGlobal(t) \/ DelRoot(t))
  BY <1>1 DEF DelNet, DelProp, DelGlobal, DelRoot, DeleteStep, At, DeletePcs
<1>. QED  BY <1>6, <1>7, <1>8, <1>10, <1>11, <1>12, <1>13, <1>14 DEF SubnetTask

(* The order of the calm names is kept by every step.                       *)
LEMMA CalmNext ==
  ASSUME TypeOK, \A k \in Infra : ShootInv(k), CalmInv, [Next]_vars
  PROVE  CalmInv'
<1>. SUFFICES ASSUME NEW n \in Names, Calm(n)'
              PROVE  /\ root'[n] # None => root'[n].life = "live"
                     /\ root'[n] = None => \A z \in Zones, k \in NodeKinds : Net(k, n, z)' = None
                     /\ \A i \in Infra \ Legacy : NameOf[i] = n /\ StableCidrs(i) =>
                          /\ job'[i].op = "reconcile" => job'[i].pc \notin {"zone_delnet", "zone_delglobal"}
                          /\ root'[n] # None /\ root'[n].owner = i =>
                               \A z \in Zones, k \in NodeKinds : Net(k, n, z)' # None =>
                                 Net(k, n, z)'.life = "live" /\ Fits(i, z, Net(k, n, z)'.cidr)
  BY DEF CalmInv, StableCidrs, Fits
<1>1. Calm(n)
  BY PhaseBack DEF Calm
<1>2. CASE \E i \in Infra : NameOf[i] = n /\ SubnetTask(i)
  BY <1>1, <1>2, CalmTask
<1>3. CASE \A i \in Infra : NameOf[i] = n => ~SubnetTask(i)
  BY <1>1, <1>3, CalmAge
<1>. QED  BY <1>2, <1>3

(* A migrated resource keeps its root subnet: nobody else's label, creation  *)
(* or deletion reaches it, and it runs no operation itself.                 *)
LEMMA MigratedNext ==
  ASSUME TypeOK, \A k \in Infra : ShootInv(k), MigratedInv, [Next]_vars, trespassers' = {}
  PROVE  MigratedInv'
<1>. SUFFICES ASSUME NEW i \in Infra \ Legacy, cr'[i].phase = "migrated", cr'[i].status # None
              PROVE  Root(i)' # None /\ Root(i)'.life = "live" /\ Root(i)'.owner = i
  BY DEF MigratedInv
<1>. DEFINE n == NameOf[i]
<1>1. n \in Names /\ root \in [Names -> RootObj \cup {None}] /\ Root(i) = root[n] /\ i # None
      /\ root'[n] = Root(i)' /\ ShootInv(i)
  BY NamesAssumption, NoneAssumption DEF TypeOK, Root
<1>2. cr[i].phase \in {"live", "migrated"} /\ cr[i].status # None
  <2>1. ~(job[i].op = "reconcile" /\ cr[i].phase = "migrated")
    BY <1>1 DEF ShootInv, JobInv
  <2>. QED  BY <2>1, StatusFrom
<1>3. Root(i) # None /\ Root(i).life = "live" /\ Root(i).owner = i
  <2>1. CASE cr[i].phase = "migrated"
    BY <1>2, <2>1 DEF MigratedInv
  <2>2. CASE cr[i].phase = "live"
    BY <1>1, <1>2, <2>2 DEF ShootInv, OwnRootInv, Active, HasRoot, Mine
  <2>. QED  BY <1>2, <2>1, <2>2
<1>4. ASSUME NEW t \in Infra, NameOf[t] = n, SubnetTask(t) PROVE root'[n] = root[n]
  <2>1. Root(t) = root[n] /\ ShootInv(t)
    BY <1>4 DEF Root
  <2>2. CASE AdoptRoot(t)
    <3>1. job[t].op \in {"reconcile", "delete"} /\ job[t].pc = "root_adopt"
      BY <1>4, <2>2, SubnetTouch DEF AdoptRoot, At, TypeOK, JobObj
    <3>2. HasRoot(t)
      BY <2>1, <3>1 DEF ShootInv, JobInv, OwnRootInv, Active, DeletePcs
    <3>3. t = i
      BY <1>1, <1>3, <2>1, <3>2 DEF HasRoot, Mine
    <3>4. root[n] \in RootObj /\ root'[n] = [root[n] EXCEPT !.owner = i]
      BY <1>1, <1>3, <2>1, <2>2, <3>3 DEF AdoptRoot
    <3>. QED  BY <1>1, <1>3, <3>4 DEF RootObj
  <2>3. CASE CreateRoot(t)
    BY <1>1, <1>3, <2>1, <2>3 DEF CreateRoot
  <2>4. CASE DelRoot(t)
    <3>1. Mine(t)
      BY <1>1, <1>3, <2>1, <2>4 DEF DelRoot, Trespass
    <3>2. t = i
      BY <1>1, <1>3, <2>1, <3>1 DEF Mine
    <3>3. cr[i].phase # "migrated"
      BY <2>1, <2>4, <3>2, SubnetTouch, <1>4 DEF ShootInv, JobInv, TypeOK, JobObj
    <3>4. cr'[i].phase = cr[i].phase
      BY <1>4, SubnetTouch
    <3>. QED  BY <3>3, <3>4
  <2>. QED  BY <1>4, <2>2, <2>3, <2>4 DEF SubnetTask, GetRoot, WaitRoot, GetZone, DeleteZoneNet, DeleteZone,
       CreateZone, WaitZone, WaitPropagated, GetNet, CreateNet, WaitNet, DelNet, DelProp, DelGlobal,
       DeleteStep, CreateStep, WaitStep
<1>5. CASE \E t \in Infra : NameOf[t] = n /\ SubnetTask(t)
  BY <1>1, <1>3, <1>4, <1>5
<1>6. CASE \A t \in Infra : NameOf[t] = n => ~SubnetTask(t)
  BY <1>1, <1>3, <1>6, RootsAge
<1>. QED  BY <1>5, <1>6

(* A shoot whose provisioned or half-provisioned zones the invariant speaks  *)
(* of holds the label on its root subnet.                                  *)
LEMMA SecuredOwns ==
  ASSUME \A k \in Infra : ShootInv(k), MigratedInv, NEW i \in Infra \ Legacy,
         \/ cr[i].phase \in {"live", "migrated"} /\ cr[i].status # None
         \/ cr[i].phase = "live" /\ job[i].op = "reconcile" /\ job[i].pc \in ZonePcs \cup {"done"}
  PROVE  Root(i) # None /\ Root(i).owner = i
BY DEF ShootInv, OwnRootInv, JobInv, MigratedInv, Active, HasRoot, Mine, ZonePcs, OwnershipChecked

(* The names of a configuration's zones, and of a status made of it.        *)
LEMMA ZoneNames ==
  ASSUME TypeOK, NEW i \in Infra
  PROVE  /\ job[i].op # "none" =>
              /\ Len(job[i].snap.zones) \in Nat /\ job[i].zi \in 1..Len(job[i].snap.zones)
              /\ \A k \in 1..Len(job[i].snap.zones) : job[i].snap.zones[k].name \in Zones
         /\ cr[i].status # None => cr[i].status.zones \in Seq(Zones)
         /\ cr[i].status # None => \A k \in 1..Len(cr[i].status.zones) : cr[i].status.zones[k] \in Zones
<1>1. cr[i].status # None => cr[i].status.zones \in Seq(Zones)
  BY DEF TypeOK, CrObj, StatusObj
<1>2. cr[i].status # None => \A k \in 1..Len(cr[i].status.zones) : cr[i].status.zones[k] \in Zones
  BY <1>1, ElementOfSeq
<1>3. job[i].op # "none" =>
        /\ Len(job[i].snap.zones) \in Nat /\ job[i].zi \in 1..Len(job[i].snap.zones)
        /\ \A k \in 1..Len(job[i].snap.zones) : job[i].snap.zones[k].name \in Zones
  <2>. SUFFICES ASSUME job[i].op # "none"
                PROVE  /\ Len(job[i].snap.zones) \in Nat /\ job[i].zi \in 1..Len(job[i].snap.zones)
                       /\ \A k \in 1..Len(job[i].snap.zones) : job[i].snap.zones[k].name \in Zones
    OBVIOUS
  <2>1. \A k \in 1..Len(job[i].snap.zones) : job[i].snap.zones[k].name \in Zones
    BY EntryType
  <2>2. job[i].snap.zones \in Seq(ZoneEntry)
    BY ConfigsAssumption DEF TypeOK, Config
  <2>. QED  BY <2>1, <2>2 DEF TypeOK
<1>. QED  BY <1>1, <1>2, <1>3

(* No step of its own subnet task takes a secured zone from a shoot: only    *)
(* the entry whose global subnet has a wrong CIDR is torn down.             *)
LEMMA SecuredKept ==
  ASSUME TypeOK, NEW i \in Infra, SubnetTask(i), StableCidrs(i),
         cr[i].phase = "live", job[i].op = "reconcile", job[i].pc \notin DeletePcs, JobSecured(i),
         NEW z \in Zones, Secured(i, z)
  PROVE  Secured(i, z)'
<1>. DEFINE o == Net("zonal", NameOf[i], z)  g == Net("global", NameOf[i], z)
<1>1. o # None /\ o.life = "live" /\ (g # None => Fits(i, z, g.cidr))
  BY DEF Secured
<1>2. ASSUME o' = o, g' # None => Fits(i, z, g'.cidr) PROVE Secured(i, z)'
  BY <1>1, <1>2 DEF Secured, Fits, Net
<1>3. CASE UNCHANGED sub
  <2>1. o' = o /\ g' = g
    BY <1>3 DEF Net
  <2>. QED  BY <1>1, <1>2, <2>1
<1>w. ASSUME NEW k \in SubnetKinds, NEW p, sub' = [sub EXCEPT ![Key(k, i)] = p]
      PROVE  /\ o' = IF "zonal" = k /\ z = Entry(i).name THEN p ELSE o
             /\ g' = IF "global" = k /\ z = Entry(i).name THEN p ELSE g
  <2>1. "zonal" \in NodeKinds /\ "global" \in NodeKinds
    BY DEF NodeKinds
  <2>. QED  BY <1>w, <2>1, NetWrites
<1>4. CASE DeleteZoneNet(i)
  <2>1. /\ sub' = [sub EXCEPT ![Key("zonal", i)] = Deleted(@)] /\ job[i].pc = "zone_delnet"
    BY <1>4 DEF DeleteZoneNet, DeleteStep, At
  <2>2. "zonal" \in SubnetKinds /\ "zonal" # "global"
    BY DEF SubnetKinds
  <2>3. z # Entry(i).name
    <3>1. SUFFICES ASSUME z = Entry(i).name PROVE FALSE
      OBVIOUS
    <3>2. g # None /\ g.cidr # Entry(i).cidr
      BY <2>1, <3>1 DEF JobSecured
    <3>. QED  BY <1>1, <3>1, <3>2, FitsOnly
  <2>4. PICK p : sub' = [sub EXCEPT ![Key("zonal", i)] = p]
    BY <2>1
  <2>5. o' = o /\ g' = g
    BY <1>w, <2>2, <2>3, <2>4
  <2>. QED  BY <1>1, <1>2, <2>5
<1>5. CASE DeleteZone(i)
  <2>1. sub' = [sub EXCEPT ![Key("global", i)] = Deleted(sub[Key("global", i)])]
    BY <1>5 DEF DeleteZone, DeleteStep
  <2>2. "global" \in SubnetKinds
    BY DEF SubnetKinds
  <2>3. o' = o /\ (g' = g \/ (z = Entry(i).name /\ g' = Deleted(sub[Key("global", i)])))
    BY <1>w, <2>1, <2>2
  <2>4. z = Entry(i).name => sub[Key("global", i)] = g
    BY DEF Key, Net
  <2>5. "global" \in NodeKinds /\ NameOf[i] \in Names
    BY NamesAssumption DEF NodeKinds
  <2>6. g \in SubObj \cup {None}
    BY <2>5, NodeType
  <2>7. Deleted(g) # None => g # None /\ Deleted(g).cidr = g.cidr
    BY <2>6 DEF Deleted, SubObj
  <2>. QED  BY <1>1, <1>2, <2>3, <2>4, <2>7
<1>6. CASE CreateZone(i)
  <2>1. CASE UNCHANGED sub
    BY <1>3, <2>1
  <2>2. CASE sub' = [sub EXCEPT ![Key("global", i)] = NewSub(Entry(i).cidr)]
    <3>1. "global" \in SubnetKinds
      BY DEF SubnetKinds
    <3>2. o' = o /\ (g' = g \/ (z = Entry(i).name /\ g' = NewSub(Entry(i).cidr)))
      BY <1>w, <2>2, <3>1
    <3>3. Fits(i, Entry(i).name, Entry(i).cidr) /\ NewSub(Entry(i).cidr).cidr = Entry(i).cidr
      BY EntryFits, NewSubIs
    <3>. QED  BY <1>1, <1>2, <3>2, <3>3
  <2>. QED  BY <1>6, <2>1, <2>2 DEF CreateZone, CreateStep
<1>7. CASE CreateNet(i)
  <2>1. CASE UNCHANGED sub
    BY <1>3, <2>1
  <2>2. CASE sub[Key("zonal", i)] = None /\ sub' = [sub EXCEPT ![Key("zonal", i)] = NewSub(Entry(i).cidr)]
    <3>1. "zonal" \in SubnetKinds
      BY DEF SubnetKinds
    <3>2. z # Entry(i).name
      BY <1>1, <2>2 DEF Key, Net
    <3>3. o' = o /\ g' = g
      BY <1>w, <2>2, <3>1, <3>2
    <3>. QED  BY <1>1, <1>2, <3>3
  <2>. QED  BY <1>7, <2>1, <2>2 DEF CreateNet, CreateStep
<1>8. ~(DelNet(i) \/ DelProp(i) \/ DelGlobal(i) \/ DelRoot(i))
  BY DEF DelNet, DelProp, DelGlobal, DelRoot, DeleteStep, At, DeletePcs
<1>9. CASE GetRoot(i) \/ AdoptRoot(i) \/ CreateRoot(i) \/ WaitRoot(i) \/ GetZone(i) \/ WaitZone(i)
           \/ WaitPropagated(i) \/ GetNet(i) \/ WaitNet(i)
  BY <1>3, <1>9 DEF GetRoot, AdoptRoot, CreateRoot, WaitRoot, GetZone, WaitZone, WaitPropagated,
     WaitStep, GetNet, WaitNet
<1>. QED  BY <1>4, <1>5, <1>6, <1>7, <1>8, <1>9 DEF SubnetTask

(* A zone that a reconcile leaves behind is secured.                        *)
LEMMA JobSecuredTask ==
  ASSUME TypeOK, \A k \in Infra : ShootInv(k), LiveInv, CalmInv,
         NEW i \in Infra \ Legacy, SubnetTask(i), Undisturbed(i), JobSecured(i),
         cr[i].phase = "live", job[i].op = "reconcile", job[i].pc \notin DeletePcs
  PROVE  JobSecured(i)'
<1>. DEFINE n == NameOf[i]
            G == Net("global", n, Entry(i).name)
            HaveOk == G # None => Fits(i, Entry(i).name, G.cidr)
            WrongOk == G # None /\ G.cidr # Entry(i).cidr
<1>1. StableCidrs(i)
  BY DEF Undisturbed
<1>2. /\ Len(job[i].snap.zones) \in Nat /\ job[i].zi \in 1..Len(job[i].snap.zones)
      /\ \A k \in 1..Len(job[i].snap.zones) : job[i].snap.zones[k].name \in Zones
      /\ Entry(i).name \in Zones /\ n \in Names
  BY ZoneNames, NamesAssumption DEF Entry
<1>3. \A z \in Zones : Secured(i, z) => Secured(i, z)'
  BY <1>1, SecuredKept
<1>4. /\ cr' = cr /\ job \in [Infra -> JobObj] /\ job[i] \in JobObj
  BY SubnetTouch DEF TypeOK
<1>g. ASSUME NEW p, Goto(i, p)
      PROVE  /\ job'[i].op = "reconcile" /\ job'[i].snap = job[i].snap /\ job'[i].zi = job[i].zi
             /\ job'[i].pc = p /\ Entry(i)' = Entry(i)
  BY <1>4, <1>g DEF Goto, JobObj, Entry
<1>z. ASSUME NEW p, NEW l, GotoZone(i, p, l)
      PROVE  /\ job'[i].op = "reconcile" /\ job'[i].snap = job[i].snap /\ job'[i].zi = l /\ job'[i].pc = p
  BY <1>4, <1>z DEF GotoZone, JobObj
<1>5. ASSUME NEW p, Goto(i, p), p \notin ZonePcs \cup {"done"} PROVE JobSecured(i)'
  BY <1>5, <1>g DEF JobSecured, ZonePcs, HavePcs
<1>6. ASSUME job[i].pc \in ZonePcs, NEW p, Goto(i, p), p \in ZonePcs \cup {"failed"},
             p \in HavePcs => HaveOk', p = "zone_delnet" => WrongOk'
      PROVE  JobSecured(i)'
  <2>1. ASSUME NEW k \in 1..job[i].zi-1 PROVE Secured(i, job[i].snap.zones[k].name)'
    <3>1. k \in 1..Len(job[i].snap.zones)
      BY <1>2
    <3>2. PICK z \in Zones : z = job[i].snap.zones[k].name
      BY <1>2, <3>1
    <3>3. Secured(i, z)
      BY <1>6, <3>2 DEF JobSecured
    <3>4. Secured(i, z)' /\ z = job'[i].snap.zones[k].name
      BY <1>3, <1>6, <1>g, <3>2, <3>3
    <3>. QED  BY <3>4 DEF Secured, Net, Fits
  <2>2. (\A k \in 1..job[i].zi-1 : Secured(i, job[i].snap.zones[k].name))'
    BY <1>6, <1>g, <2>1
  <2>3. p # "done"
    BY <1>6 DEF ZonePcs
  <2>. QED  BY <1>6, <1>g, <2>2, <2>3 DEF JobSecured
<1>7. ASSUME NEW p, NEW l, GotoZone(i, p, l), p \notin ZonePcs \cup {"done"} PROVE JobSecured(i)'
  BY <1>7, <1>z DEF JobSecured, ZonePcs, HavePcs
<1>8. CASE GetRoot(i) \/ AdoptRoot(i) \/ CreateRoot(i)
  <2>1. \/ \E p \in {"root_create", "root_wait", "root_adopt", "failed"} : Goto(i, p)
        \/ GotoZone(i, "del_net", 1)
    BY <1>8 DEF GetRoot, AdoptRoot, CreateRoot, SameOrRecreate
  <2>. QED  BY <1>5, <1>7, <2>1 DEF ZonePcs
<1>9. CASE WaitRoot(i)
  <2>1. CASE Goto(i, "failed")
    BY <1>5, <2>1 DEF ZonePcs
  <2>2. CASE GotoZone(i, "zone_get", 1)
    BY <1>z, <2>2 DEF JobSecured, HavePcs
  <2>. QED  BY <1>9, <2>1, <2>2 DEF WaitRoot
<1>u. ASSUME UNCHANGED sub, NEW p, Goto(i, p) PROVE G' = G
  BY <1>g, <1>u DEF Net
<1>k. sub[Key("global", i)] = G /\ sub[Key("zonal", i)] = Net("zonal", n, Entry(i).name)
  BY DEF Key, Net
<1>10. CASE GetZone(i)
  <2>1. UNCHANGED sub /\ job[i].pc = "zone_get"
    BY <1>10 DEF GetZone, At
  <2>2. \/ Goto(i, "zone_create")
        \/ Goto(i, "zone_wait") /\ G.cidr = Entry(i).cidr
        \/ Goto(i, "zone_delnet") /\ WrongOk
    BY <1>10, <1>k DEF GetZone
  <2>3. ASSUME Goto(i, "zone_wait"), G.cidr = Entry(i).cidr PROVE HaveOk'
    <3>1. Fits(i, Entry(i).name, G.cidr)
      BY <1>1, <2>3, EntryFits
    <3>. QED  BY <1>g, <1>u, <2>1, <2>3, <3>1 DEF Fits
  <2>4. ASSUME Goto(i, "zone_delnet"), WrongOk PROVE WrongOk'
    BY <1>g, <1>u, <2>1, <2>4
  <2>. QED  BY <1>6, <2>1, <2>2, <2>3, <2>4 DEF ZonePcs, HavePcs
<1>11. CASE DeleteZoneNet(i) \/ DeleteZone(i)
  <2>1. job[i].pc \in ZonePcs /\ \E p \in {"zone_delglobal", "zone_create"} : Goto(i, p)
    BY <1>11 DEF DeleteZoneNet, DeleteZone, DeleteStep, At, ZonePcs
  <2>. QED  BY <1>6, <2>1 DEF ZonePcs, HavePcs
<1>12. CASE CreateZone(i)
  <2>1. CASE Goto(i, "failed")
    BY <1>5, <2>1 DEF ZonePcs
  <2>2. CASE sub' = [sub EXCEPT ![Key("global", i)] = NewSub(Entry(i).cidr)] /\ Goto(i, "zone_wait")
    <3>2. PICK z \in Zones : z = Entry(i).name
      BY <1>2
    <3>3. Net("global", n, z)' = NewSub(Entry(i).cidr)
      <4>1. "global" \in NodeKinds /\ "global" \in SubnetKinds
        BY DEF NodeKinds, SubnetKinds
      <4>2. PICK o : o = NewSub(Entry(i).cidr)
        OBVIOUS
      <4>3. sub' = [sub EXCEPT ![Key("global", i)] = o]
        BY <2>2, <4>2
      <4>4. \A x \in Zones, l \in NodeKinds :
              Net(l, n, x)' = IF l = "global" /\ x = Entry(i).name THEN o ELSE Net(l, n, x)
        BY <4>1, <4>3, NetWrites
      <4>. QED  BY <3>2, <4>1, <4>2, <4>4
    <3>4. G' = NewSub(Entry(i).cidr)
      BY <1>g, <2>2, <3>2, <3>3 DEF Net
    <3>5. Fits(i, Entry(i).name, Entry(i).cidr) /\ NewSub(Entry(i).cidr).cidr = Entry(i).cidr
      BY <1>1, EntryFits, NewSubIs
    <3>6. HaveOk'
      BY <1>g, <2>2, <3>4, <3>5 DEF Fits
    <3>7. job[i].pc \in ZonePcs
      BY <1>12 DEF CreateZone, CreateStep, At, ZonePcs
    <3>. QED  BY <1>6, <2>2, <3>6, <3>7 DEF ZonePcs
  <2>. QED  BY <1>12, <2>1, <2>2 DEF CreateZone, CreateStep
<1>h. job[i].pc \in HavePcs => HaveOk
  BY DEF JobSecured
<1>13. CASE WaitZone(i) \/ WaitPropagated(i) \/ GetNet(i)
  <2>1. UNCHANGED sub /\ job[i].pc \in HavePcs
    BY <1>13 DEF WaitZone, WaitPropagated, WaitStep, GetNet, At, HavePcs
  <2>2. PICK p \in {"prop_wait", "net_get", "net_create", "net_wait", "failed"} : Goto(i, p)
    BY <1>13 DEF WaitZone, WaitPropagated, WaitStep, GetNet
  <2>3. HaveOk'
    BY <1>g, <1>h, <1>u, <2>1, <2>2 DEF Fits
  <2>. QED  BY <1>6, <2>1, <2>2, <2>3 DEF ZonePcs, HavePcs
<1>14. CASE CreateNet(i)
  <2>1. CASE Goto(i, "failed")
    BY <1>5, <2>1 DEF ZonePcs
  <2>2. CASE sub' = [sub EXCEPT ![Key("zonal", i)] = NewSub(Entry(i).cidr)] /\ Goto(i, "net_wait")
    <3>1. PICK z \in Zones : z = Entry(i).name
      BY <1>2
    <3>2. Net("global", n, z)' = Net("global", n, z)
      <4>1. "global" \in NodeKinds /\ "zonal" \in SubnetKinds /\ "zonal" # "global"
        BY DEF NodeKinds, SubnetKinds
      <4>. QED  BY <2>2, <3>1, <4>1, NetWrites
    <3>3. G' = G
      BY <1>g, <2>2, <3>1, <3>2 DEF Net
    <3>4. job[i].pc \in HavePcs
      BY <1>14 DEF CreateNet, CreateStep, At, HavePcs
    <3>5. HaveOk'
      BY <1>g, <1>h, <2>2, <3>3, <3>4 DEF Fits
    <3>. QED  BY <1>6, <2>2, <3>4, <3>5 DEF ZonePcs, HavePcs
  <2>. QED  BY <1>14, <2>1, <2>2 DEF CreateNet, CreateStep
<1>15. CASE WaitNet(i)
  <2>1. CASE Goto(i, "failed")
    BY <1>5, <2>1 DEF ZonePcs
  <2>2. CASE IsReady(sub[Key("zonal", i)]) /\ ~Goto(i, "failed")
    <3>1. UNCHANGED sub /\ job[i].pc = "net_wait"
      BY <1>15 DEF WaitNet, At
    <3>2. /\ Net("zonal", n, Entry(i).name) # None
          /\ <<"zonal", n, Entry(i).name>> \in SubKeys /\ "zonal" \in NodeKinds
      BY <1>2, <1>k, <2>2, NodeType DEF IsReady, NodeKinds
    <3>3. Net("zonal", n, Entry(i).name).life = "live"
      <4>1. CASE ~Finalizers
        BY <3>2, <4>1 DEF LiveInv, Net
      <4>2. CASE Finalizers
        <5>1. Calm(n)
          BY <4>2 DEF Undisturbed, Calm
        <5>2. root[n] # None /\ root[n].owner = i
          BY <3>1 DEF ShootInv, JobInv, OwnershipChecked, Root
        <5>. QED  BY <1>1, <1>2, <3>2, <5>1, <5>2 DEF CalmInv
      <4>. QED  BY <4>1, <4>2
    <3>4. Secured(i, Entry(i).name)
      BY <1>h, <3>1, <3>2, <3>3 DEF Secured, HavePcs
    <3>5. \A k \in 1..job[i].zi : Secured(i, job[i].snap.zones[k].name)
      <4>1. \A k \in 1..job[i].zi-1 : Secured(i, job[i].snap.zones[k].name)
        BY <3>1 DEF JobSecured, ZonePcs
      <4>2. Secured(i, job[i].snap.zones[job[i].zi].name)
        BY <3>4 DEF Entry
      <4>. QED  BY <1>2, <4>1, <4>2
    <3>7. CASE LastZone(i) /\ Goto(i, "done")
      <4>1. \A k \in 1..Len(job[i].snap.zones) : Secured(i, job[i].snap.zones[k].name)
        BY <3>5, <3>7 DEF LastZone
      <4>2. (\A k \in 1..Len(job[i].snap.zones) : Secured(i, job[i].snap.zones[k].name))'
        <5>1. sub' = sub /\ job'[i].snap = job[i].snap
          BY <1>g, <3>1, <3>7
        <5>. QED  BY <4>1, <5>1 DEF Secured, Net, Fits
      <4>. QED  BY <1>g, <3>7, <4>2 DEF JobSecured, ZonePcs, HavePcs
    <3>8. CASE GotoZone(i, "zone_get", job[i].zi + 1)
      <4>1. job'[i].zi - 1 = job[i].zi
        BY <1>2, <1>z, <3>8
      <4>2. (\A k \in 1..job[i].zi-1 : Secured(i, job[i].snap.zones[k].name))'
        BY <1>z, <3>1, <3>5, <3>8, <4>1 DEF Secured, Net, Fits
      <4>. QED  BY <1>z, <3>8, <4>2 DEF JobSecured, HavePcs
    <3>. QED  BY <1>15, <2>2, <3>7, <3>8 DEF WaitNet
  <2>. QED  BY <1>15, <2>1, <2>2 DEF WaitNet
<1>16. ~(DelNet(i) \/ DelProp(i) \/ DelGlobal(i) \/ DelRoot(i))
  BY DEF DelNet, DelProp, DelGlobal, DelRoot, DeleteStep, At, DeletePcs
<1>. QED  BY <1>8, <1>9, <1>10, <1>11, <1>12, <1>13, <1>14, <1>15, <1>16 DEF SubnetTask

(* What is secured, published or on the way to it, stays so: the shoot's own *)
(* steps and those of all others.                                          *)
LEMMA SecuredNext ==
  ASSUME TypeOK, \A k \in Infra : ShootInv(k), LiveInv, CalmInv, MigratedInv, SecuredInv,
         [Next]_vars, trespassers' = {}
  PROVE  SecuredInv'
<1>. SUFFICES ASSUME NEW i \in Infra \ Legacy, Undisturbed(i)'
              PROVE  StatusSecured(i)' /\ JobSecured(i)'
  BY DEF SecuredInv
<1>1. Undisturbed(i)
  BY PhaseBack DEF Undisturbed, StableCidrs
<1>2. StatusSecured(i) /\ JobSecured(i) /\ ShootInv(i) /\ job[i].op \in {"none", "reconcile", "delete"}
  BY <1>1 DEF SecuredInv, TypeOK, JobObj
<1>3. ASSUME SubnetTask(i) PROVE StatusSecured(i)' /\ JobSecured(i)'
  <2>1. cr' = cr /\ job[i].op # "none"
    BY <1>3, SubnetTouch
  <2>2. CASE cr[i].phase = "live"
    <3>1. job[i].op = "reconcile" /\ job[i].pc \notin DeletePcs
      BY <1>2, <2>1, <2>2 DEF ShootInv, JobInv
    <3>2. JobSecured(i)'
      BY <1>1, <1>2, <1>3, <2>2, <3>1, JobSecuredTask
    <3>3. \A z \in Zones : Secured(i, z) => Secured(i, z)'
      BY <1>1, <1>2, <1>3, <2>2, <3>1, SecuredKept DEF Undisturbed
    <3>4. ASSUME cr[i].status # None, NEW k \in 1..Len(cr[i].status.zones)
          PROVE  Secured(i, cr[i].status.zones[k])'
      <4>1. PICK z \in Zones : z = cr[i].status.zones[k]
        BY <3>4, ZoneNames
      <4>2. Secured(i, z)'
        BY <1>2, <2>2, <3>3, <3>4, <4>1 DEF StatusSecured
      <4>. QED  BY <2>1, <4>1, <4>2 DEF Secured, Net, Fits
    <3>5. StatusSecured(i)'
      BY <2>1, <3>4 DEF StatusSecured
    <3>. QED  BY <3>2, <3>5
  <2>3. CASE cr[i].phase # "live"
    BY <1>2, <2>1, <2>3 DEF ShootInv, JobInv, StatusSecured, JobSecured
  <2>. QED  BY <2>2, <2>3
<1>4. ASSUME ~SubnetTask(i),
             \/ cr[i].phase \in {"live", "migrated"} /\ cr[i].status # None
             \/ cr[i].phase = "live" /\ job[i].op = "reconcile" /\ job[i].pc \in ZonePcs \cup {"done"}
      PROVE  NodesAge(NameOf[i]) /\ \A z \in Zones : Secured(i, z) => Secured(i, z)'
  <2>1. Root(i) # None /\ Root(i).owner = i
    BY <1>4, SecuredOwns
  <2>2. NodesAge(NameOf[i])
    BY <1>4, <2>1, OwnNodesAge
  <2>. QED  BY <2>2, SecuredAge
<1>5. ASSUME ~SubnetTask(i) PROVE StatusSecured(i)'
  <2>1. SUFFICES ASSUME cr'[i].phase \in {"live", "migrated"}, cr'[i].status # None,
                        NEW k \in 1..Len(cr'[i].status.zones)
                 PROVE  Secured(i, cr[i].status.zones[k])'
    BY DEF StatusSecured
  <2>2. CASE cr[i].phase \in {"live", "migrated"} /\ cr'[i].status = cr[i].status
    <3>1. PICK z \in Zones : z = cr[i].status.zones[k]
      BY <2>1, <2>2, ZoneNames
    <3>2. Secured(i, z)'
      BY <1>2, <1>4, <1>5, <2>1, <2>2, <3>1 DEF StatusSecured
    <3>. QED  BY <2>2, <3>1, <3>2 DEF Secured, Net, Fits
  <2>3. CASE /\ Finish(i) /\ job[i].op = "reconcile" /\ job[i].pc = "done"
             /\ cr'[i].status = StatusOf(job[i].snap) /\ cr[i].phase = cr'[i].phase
    <3>1. cr[i].phase = "live" /\ sub' = sub
      BY <1>2, <2>1, <2>3 DEF ShootInv, JobInv, Finish
    <3>2. Len(job[i].snap.zones) \in Nat
      BY <2>3, ZoneNames
    <3>3. /\ cr'[i].status.zones = [l \in 1..Len(job[i].snap.zones) |-> job[i].snap.zones[l].name]
          /\ Len(cr'[i].status.zones) = Len(job[i].snap.zones)
      BY <2>3, <3>2 DEF StatusOf
    <3>4. k \in 1..Len(job[i].snap.zones) /\ cr'[i].status.zones[k] = job[i].snap.zones[k].name
      BY <3>3
    <3>5. PICK z : z = job[i].snap.zones[k].name
      OBVIOUS
    <3>6. Secured(i, z)
      BY <1>2, <2>3, <3>1, <3>4, <3>5 DEF JobSecured
    <3>. QED  BY <3>1, <3>4, <3>5, <3>6 DEF Secured, Net, Fits
  <2>. QED  BY <2>1, <2>2, <2>3, StatusFrom
<1>6. ASSUME ~SubnetTask(i) PROVE JobSecured(i)'
  <2>1. SUFFICES ASSUME cr'[i].phase = "live", job'[i].op = "reconcile", job'[i].pc \in ZonePcs \cup {"done"}
                 PROVE  JobSecured(i)'
    BY DEF JobSecured, ZonePcs, HavePcs
  <2>2. /\ job[i].op = "reconcile" /\ job'[i].snap = job[i].snap /\ job'[i].zi = job[i].zi
        /\ job'[i].pc = job[i].pc
    BY <1>6, <2>1, OtherJobs DEF ZonePcs
  <2>3. cr[i].phase = "live"
    BY <1>2, <2>1, <2>2, PhaseBack DEF ShootInv, JobInv
  <2>4. NodesAge(NameOf[i]) /\ \A z \in Zones : Secured(i, z) => Secured(i, z)'
    BY <1>4, <1>6, <2>1, <2>2, <2>3
  <2>5. /\ Len(job[i].snap.zones) \in Nat /\ job[i].zi \in 1..Len(job[i].snap.zones)
        /\ \A k \in 1..Len(job[i].snap.zones) : job[i].snap.zones[k].name \in Zones
        /\ Entry(i).name \in Zones /\ Entry(i)' = Entry(i)
    BY <2>2, ZoneNames DEF Entry
  <2>6. ASSUME NEW k \in 1..Len(job[i].snap.zones), Secured(i, job[i].snap.zones[k].name)
        PROVE  Secured(i, job[i].snap.zones[k].name)'
    <3>1. PICK z \in Zones : z = job[i].snap.zones[k].name
      BY <2>5
    <3>2. Secured(i, z)'
      BY <2>4, <2>6, <3>1
    <3>. QED  BY <2>2, <3>1, <3>2 DEF Secured, Net, Fits
  <2>7. job[i].pc \in ZonePcs => (\A k \in 1..job[i].zi-1 : Secured(i, job[i].snap.zones[k].name))'
    <3>1. ASSUME job[i].pc \in ZonePcs, NEW k \in 1..job[i].zi-1
          PROVE  Secured(i, job[i].snap.zones[k].name)'
      <4>1. k \in 1..Len(job[i].snap.zones)
        BY <2>5
      <4>2. Secured(i, job[i].snap.zones[k].name)
        BY <1>2, <2>2, <2>3, <3>1 DEF JobSecured
      <4>. QED  BY <2>6, <4>1, <4>2
    <3>. QED  BY <2>2, <3>1
  <2>8. job[i].pc = "done" => (\A k \in 1..Len(job[i].snap.zones) : Secured(i, job[i].snap.zones[k].name))'
    <3>1. ASSUME job[i].pc = "done", NEW k \in 1..Len(job[i].snap.zones)
          PROVE  Secured(i, job[i].snap.zones[k].name)'
      BY <1>2, <2>2, <2>3, <2>6, <3>1 DEF JobSecured
    <3>. QED  BY <2>2, <3>1
  <2>. DEFINE G == Net("global", NameOf[i], Entry(i).name)
  <2>9. Aged(G, G')
    <3>1. PICK z \in Zones : z = Entry(i).name
      BY <2>5
    <3>2. Aged(Net("global", NameOf[i], z), Net("global", NameOf[i], z)')
      BY <2>4 DEF NodesAge, NodeKinds
    <3>3. z = Entry(i)'.name
      BY <2>5, <3>1
    <3>. QED  BY <3>1, <3>2, <3>3 DEF Net
  <2>10. job[i].pc \in HavePcs => (G # None => Fits(i, Entry(i).name, G.cidr))'
    <3>1. SUFFICES ASSUME job[i].pc \in HavePcs, G' # None PROVE Fits(i, Entry(i).name, G.cidr)'
      OBVIOUS
    <3>2. G # None /\ G'.cidr = G.cidr
      BY <2>9, <3>1 DEF Aged, Kept
    <3>3. Fits(i, Entry(i).name, G.cidr)
      BY <1>2, <2>2, <2>3, <3>1, <3>2 DEF JobSecured
    <3>. QED  BY <2>5, <3>2, <3>3 DEF Fits
  <2>11. job[i].pc = "zone_delnet" => (G # None /\ G.cidr # Entry(i).cidr)'
    <3>1. SUFFICES ASSUME job[i].pc = "zone_delnet" PROVE (G # None /\ G.cidr # Entry(i).cidr)'
      OBVIOUS
    <3>2. G # None /\ G.cidr # Entry(i).cidr
      BY <1>2, <2>2, <2>3, <3>1 DEF JobSecured
    <3>3. G.life = "live"
      <4>1. NameOf[i] \in Names /\ "global" \in NodeKinds
        BY NamesAssumption DEF NodeKinds
      <4>2. ~(Finalizers /\ Calm(NameOf[i]))
        BY <1>1, <2>2, <3>1, <4>1 DEF CalmInv, Undisturbed
      <4>3. ~Finalizers
        BY <1>1, <4>2 DEF Undisturbed, Calm
      <4>4. <<"global", NameOf[i], Entry(i).name>> \in SubKeys
        BY <2>5, <4>1, NodeType
      <4>. QED  BY <3>2, <4>3, <4>4 DEF LiveInv, Net
    <3>4. G' # None /\ G'.cidr = G.cidr
      BY <2>9, <3>2, <3>3 DEF Aged, Kept
    <3>. QED  BY <2>5, <3>2, <3>4
  <2>. QED  BY <2>2, <2>7, <2>8, <2>10, <2>11 DEF JobSecured
<1>. QED  BY <1>3, <1>5, <1>6

(* Initially there are subnets of legacy shoots only, all of them alive.     *)
LEMMA NetworkInit == Init => NetworkInv
<1>. SUFFICES ASSUME NEW c \in [Legacy -> AllConfigs],
                     \A i \in Legacy : c[i] \in Configs[i],
                     cr = [i \in Infra |-> IF i \in Legacy
                       THEN [phase |-> "live", spec |-> c[i], status |-> StatusOf(c[i])]
                       ELSE [phase |-> "none", spec |-> None, status |-> None]],
                     job = [i \in Infra |-> Idle],
                     root = [n \in Names |-> IF \E i \in Legacy : NameOf[i] = n
                       THEN LegacyRoot(c[LegacyAt(n)]) ELSE None],
                     sub = [key \in SubKeys |->
                       IF /\ key[1] \in SubnetKinds
                          /\ \E i \in Legacy : NameOf[i] = key[2] /\ key[3] \in ZonesOf(c[i])
                       THEN LegacySub(c[LegacyAt(key[2])], key[3]) ELSE None]
              PROVE  NetworkInv
  BY DEF Init
<1>1. LiveInv
  <2>1. \A d, z : LegacySub(d, z).life = "live"
    BY DEF LegacySub, NewSub
  <2>. QED  BY <2>1 DEF LiveInv
<1>2. \A i \in Infra \ Legacy : cr[i].phase = "none" /\ job[i].op = "none"
  BY DEF Idle
<1>3. SecuredInv /\ MigratedInv
  BY <1>2 DEF SecuredInv, MigratedInv, StatusSecured, JobSecured
<1>4. CalmInv
  <2>. SUFFICES ASSUME NEW n \in Names
                PROVE  /\ root[n] # None => root[n].life = "live"
                       /\ root[n] = None => \A z \in Zones, k \in NodeKinds : Net(k, n, z) = None
                       /\ root[n] # None => \A i \in Infra \ Legacy : root[n].owner # i
    BY <1>2 DEF CalmInv
  <2>1. root[n] # None => root[n].life = "live" /\ root[n].owner = None
    BY DEF LegacyRoot
  <2>2. ASSUME root[n] = None, NEW z \in Zones, NEW k \in NodeKinds PROVE Net(k, n, z) = None
    <3>1. ASSUME NEW i \in Legacy, NameOf[i] = n PROVE FALSE
      <4>1. LegacyAt(n) \in Legacy
        BY <3>1 DEF LegacyAt
      <4>2. c[LegacyAt(n)].root \in RootKeys
        BY <4>1, LegacyAssumption, ConfigsAssumption DEF Config
      <4>3. LegacyRoot(c[LegacyAt(n)]) \in RootObj
        BY <4>2 DEF LegacyRoot, RootObj, Conds, Lives
      <4>. QED  BY <2>2, <3>1, <4>3, NoneAssumption
    <3>2. <<k, n, z>> \in SubKeys
      BY DEF SubKeys, SubnetKinds, NodeKinds
    <3>. QED  BY <3>1, <3>2 DEF Net
  <2>. QED  BY <2>1, <2>2, NoneAssumption
<1>. QED  BY <1>1, <1>3, <1>4 DEF NetworkInv

(* The network invariant is inductive, given the ownership invariant.       *)
LEMMA NetworkNext ==
  TypeOK /\ OwnershipInv /\ NetworkInv /\ [Next]_vars => NetworkInv'
<1>. SUFFICES ASSUME TypeOK, OwnershipInv, NetworkInv, [Next]_vars PROVE NetworkInv'
  OBVIOUS
<1>1. LiveInv'
  BY LiveNext DEF NetworkInv
<1>2. ASSUME StableRoot, trespassers' = {} PROVE (CalmInv /\ SecuredInv /\ MigratedInv)'
  <2>1. trespassers = {}
    BY <1>2, NoTrespasserBefore
  <2>2. \A k \in Infra : ShootInv(k)
    BY <1>2, <2>1 DEF OwnershipInv
  <2>3. LiveInv /\ CalmInv /\ SecuredInv /\ MigratedInv
    BY <1>2, <2>1 DEF NetworkInv
  <2>4. CalmInv'
    BY <2>2, <2>3, CalmNext
  <2>5. MigratedInv'
    BY <1>2, <2>2, <2>3, MigratedNext
  <2>6. SecuredInv'
    BY <1>2, <2>2, <2>3, SecuredNext
  <2>. QED  BY <2>4, <2>5, <2>6
<1>. QED  BY <1>1, <1>2 DEF NetworkInv, StableRoot

(* The three invariants together hold in every behaviour.                   *)
THEOREM NetworkHolds == Spec => [](TypeOK /\ OwnershipInv /\ NetworkInv)
<1>1. Init => NetworkInv
  BY NetworkInit
<1>2. TypeOK /\ OwnershipInv /\ NetworkInv /\ [Next]_vars => NetworkInv'
  BY NetworkNext
<1>. QED  BY <1>1, <1>2, OwnershipHolds, PTL DEF Spec

(* The subnets a shoot has published stay while it lives: however it gains   *)
(* and drops zones, whatever fails and is retried, and whatever shoots of   *)
(* its name in other projects attempt. Excepted, as in the property, are    *)
(* shoots that change a zone's CIDR, and where deleted objects linger, those *)
(* whose name had another shoot that was deleted.                           *)
THEOREM PublishedStay == Spec => []PublishedSubnetsStay
<1>1. TypeOK /\ OwnershipInv /\ NetworkInv => PublishedSubnetsStay
  BY DEF NetworkInv, SecuredInv, StatusSecured, Secured, Net, PublishedSubnetsStay, Provisioned, Live
<1>. QED  BY <1>1, NetworkHolds, PTL

(* What Migrate leaves to the next seed stays: the root subnet with its      *)
(* label always, and the subnets of the nodes with the exceptions of        *)
(* PublishedStay, though the next seed's reconciles are refused and retried *)
(* forever.                                                                *)
THEOREM MigratedKeeps == Spec => []MigratedKeepsNetwork
<1>1. TypeOK /\ OwnershipInv /\ NetworkInv => MigratedKeepsNetwork
  BY DEF NetworkInv, SecuredInv, StatusSecured, Secured, Net, MigratedInv, MigratedKeepsNetwork, Mine
<1>. QED  BY <1>1, NetworkHolds, PTL

---------------------------------------------------------------------------
(* What a Delete leaves behind *)

Away(o) == o = None \/ o.life = "terminating"

(* An operation runs on a resource that is there, and a Delete on one that   *)
(* is to go; a Delete creates nothing.                                      *)
OpInv(i) ==
  /\ job[i].op = "reconcile" => cr[i].phase \in {"live", "deleting"}
  /\ job[i].op = "delete" => /\ cr[i].phase = "deleting"
                             /\ job[i].pc \in DeletePcs \cup {"done", "failed"}
                             /\ job[i].epc \in {"n_delete", "e_delete", "done", "failed"}

(* A namespace has one shoot at a time.                                      *)
NamespaceInv == \A i, j \in Infra :
  /\ NamespaceOf[i] = NamespaceOf[j]
  /\ cr[i].phase \in {"live", "deleting"} /\ cr[j].phase \in {"live", "deleting"}
  => i = j

(* Where egress resources are forbidden there are none to delete.            *)
ForbiddenInv == ~EgressAllowed =>
  \A k \in EgressKinds, m \in Namespaces, z \in Zones : sub[<<k, m, z>>] = None

(* No shoot of the name has come in another namespace.                       *)
Alone(i) == \A j \in Infra : NameOf[j] = NameOf[i] =>
  NamespaceOf[j] = NamespaceOf[i] \/ cr[j].phase = "none"

(* What a Delete has passed is gone, or going.                               *)
NodesAway(i, k) == \A l \in NodeKinds : Away(Net(l, NameOf[i], job[i].snap.zones[k].name))
EgressAway(i, k) == \A l \in EgressKinds : Away(sub[<<l, NamespaceOf[i], job[i].snap.zones[k].name>>])
SubnetsPassed(i) == Alone(i) =>
  /\ job[i].pc \in {"del_net", "del_prop", "del_global"} => \A k \in 1..job[i].zi-1 : NodesAway(i, k)
  /\ job[i].pc \in {"del_prop", "del_global"} => Away(Net("zonal", NameOf[i], Entry(i).name))
  /\ job[i].pc \in {"del_root", "done"} => \A k \in 1..Len(job[i].snap.zones) : NodesAway(i, k)
RootPassed(i) == job[i].pc = "done" /\ Root(i) # None /\ Root(i).owner = i => Root(i).life = "terminating"
EgressPassed(i) ==
  /\ job[i].epc \in {"n_delete", "e_delete"} => \A k \in 1..job[i].ezi-1 : EgressAway(i, k)
  /\ job[i].epc = "e_delete" => Away(sub[EKey("nat", i)])
  /\ job[i].epc = "done" => \A k \in 1..Len(job[i].snap.zones) : EgressAway(i, k)
DeleteInv(i) == job[i].op = "delete" => SubnetsPassed(i) /\ RootPassed(i) /\ EgressPassed(i)

DeletionInv == /\ \A i \in Infra : OpInv(i)
               /\ NamespaceInv /\ ForbiddenInv
               /\ \A i \in Infra : DeleteInv(i)

(* What is gone or going comes back only by a reconcile that creates it.     *)
LEMMA AwayStays ==
  ASSUME TypeOK, \A k \in Infra : OpInv(k), [Next]_vars,
         NEW key \in SubKeys, key[1] # "propagated", Away(sub[key]), ~Away(sub'[key])
  PROVE  \E t \in Infra : /\ job[t].op = "reconcile"
                          /\ \/ \E k \in NodeKinds : key = Key(k, t)
                             \/ \E k \in EgressKinds : key = EKey(k, t)
<1>1. sub \in [SubKeys -> SubObj \cup {None}] /\ sub[key] \in SubObj \cup {None}
  BY DEF TypeOK
<1>2. sub'[key] # sub[key]
  OBVIOUS
<1>3. \A o : Away(Deleted(o)) \/ Deleted(o) = o \/ o \notin SubObj \cup {None}
  BY DEF Away, Deleted, SubObj
<1>d. ASSUME NEW q \in SubKeys, sub' = [sub EXCEPT ![q] = Deleted(@)] PROVE FALSE
  <2>1. sub'[key] = IF q = key THEN Deleted(sub[key]) ELSE sub[key]
    BY <1>1, <1>d
  <2>. QED  BY <1>1, <1>2, <1>3, <2>1
<1>4. ASSUME NEW t \in Infra, SubnetTask(t)
      PROVE  job[t].op = "reconcile" /\ \E k \in NodeKinds : key = Key(k, t)
  <2>1. job[t].op \in {"reconcile", "delete"} /\ \A k \in SubnetKinds : Key(k, t) \in SubKeys
    BY <1>4, SubnetTouch, KeyType DEF TypeOK, JobObj
  <2>2. ~(DeleteZoneNet(t) \/ DeleteZone(t) \/ DelNet(t) \/ DelProp(t) \/ DelGlobal(t))
    BY <1>d, <2>1 DEF DeleteZoneNet, DeleteZone, DelNet, DelProp, DelGlobal, DeleteStep, SubnetKinds
  <2>3. CreateZone(t) \/ CreateNet(t)
    BY <1>2, <1>4, <2>2 DEF SubnetTask, GetRoot, AdoptRoot, CreateRoot, WaitRoot, GetZone, WaitZone,
       WaitPropagated, WaitStep, GetNet, WaitNet, DelRoot
  <2>4. PICK k \in NodeKinds : sub' = [sub EXCEPT ![Key(k, t)] = NewSub(Entry(t).cidr)]
    BY <1>2, <2>3 DEF CreateZone, CreateNet, CreateStep, NodeKinds
  <2>5. key = Key(k, t)
    BY <1>1, <1>2, <2>4
  <2>6. job[t].pc \in {"zone_create", "net_create"}
    BY <2>3 DEF CreateZone, CreateNet, CreateStep, At
  <2>7. job[t].op # "delete"
    BY <2>6 DEF OpInv, DeletePcs
  <2>. QED  BY <2>1, <2>5, <2>7
<1>5. ASSUME NEW t \in Infra, EgressTask(t)
      PROVE  job[t].op = "reconcile" /\ \E k \in EgressKinds : key = EKey(k, t)
  <2>1. job[t].op \in {"reconcile", "delete"}
    BY <1>5 DEF EgressTask, CreateEgress, WaitEgress, CreateNat, WaitNat, DeleteNat, DeleteEgress,
       EgressCreateStep, EAt, TypeOK, JobObj
  <2>2. \A k \in EgressKinds : EKey(k, t) \in SubKeys
    BY <2>1, KeyType
  <2>3. ~(DeleteNat(t) \/ DeleteEgress(t))
    BY <1>2, <1>d, <2>2 DEF DeleteNat, DeleteEgress, EgressDeleted, EgressKinds
  <2>4. CreateEgress(t) \/ CreateNat(t)
    BY <1>2, <1>5, <2>3 DEF EgressTask, WaitEgress, WaitNat
  <2>5. PICK k \in EgressKinds :
          sub' = [sub EXCEPT ![EKey(k, t)] = IF @ = None THEN NewSub(None) ELSE @]
    BY <1>2, <2>4 DEF CreateEgress, CreateNat, EgressCreateStep, EgressKinds
  <2>6. key = EKey(k, t)
    BY <1>1, <1>2, <2>5
  <2>7. job[t].epc \in {"e_create", "n_create"}
    BY <2>4 DEF CreateEgress, CreateNat, EgressCreateStep, EAt
  <2>8. job[t].op # "delete"
    BY <2>7 DEF OpInv
  <2>. QED  BY <2>1, <2>6, <2>8
<1>6. ASSUME NEW t \in Infra, User(t) \/ Start(t) \/ Finish(t) \/ CallFails(t) PROVE sub' = sub
  BY <1>6 DEF User, CreateShoot, UpdateSpec, DeleteShoot, ForceDelete, Migrate, Start, StartReconcile,
     StartDelete, Finish, CallFails
<1>7. ~Gdc
  <2>1. ASSUME NEW q \in SubKeys, SubReady(q) PROVE FALSE
    <3>1. q = key
      BY <1>1, <1>2, <2>1 DEF SubReady
    <3>. QED  BY <2>1, <3>1 DEF SubReady, Away
  <2>2. ASSUME NEW q \in SubKeys, SubVanishes(q) PROVE FALSE
    <3>1. q = key /\ sub'[key] = None
      BY <1>1, <1>2, <2>2 DEF SubVanishes
    <3>. QED  BY <3>1 DEF Away
  <2>3. ASSUME NEW m \in Names, NEW y \in Zones, Propagate(m, y) \/ Withdraw(m, y) PROVE FALSE
    <3>1. key # <<"propagated", m, y>>
      OBVIOUS
    <3>. QED  BY <1>1, <1>2, <2>3, <3>1 DEF Propagate, Withdraw
  <2>. QED  BY <1>2, <2>1, <2>2, <2>3 DEF Gdc, RootReady, RootVanishes
<1>. QED  BY <1>2, <1>4, <1>5, <1>6, <1>7 DEF Next, Controller, Restart, vars

(* The moves of a Delete.                                                    *)
LEMMA DeleteMoves ==
  ASSUME TypeOK, [Next]_vars, NEW i \in Infra, OpInv(i), job'[i].op = "delete"
  PROVE  \/ StartDelete(i)
         \/ /\ job[i].op = "delete"
            /\ \/ DelNet(i) \/ DelProp(i) \/ DelGlobal(i) \/ DelRoot(i)
               \/ DeleteNat(i) \/ DeleteEgress(i)
               \/ CallFails(i)
               \/ job'[i] = job[i]
<1>1. job \in [Infra -> JobObj] /\ job[i].op \in {"none", "reconcile", "delete"}
  BY DEF TypeOK, JobObj
<1>2. ASSUME NEW t \in Infra, SubnetTask(t), t # i PROVE job'[i] = job[i]
  BY <1>2, SubnetTouch
<1>3. ASSUME SubnetTask(i)
      PROVE  job[i].op = "delete" /\ (DelNet(i) \/ DelProp(i) \/ DelGlobal(i) \/ DelRoot(i))
  <2>1. PICK p, l : Goto(i, p) \/ GotoZone(i, p, l)
    BY <1>3 DEF SubnetTask, GetRoot, AdoptRoot, CreateRoot, WaitRoot, GetZone, DeleteZoneNet, DeleteZone,
       CreateZone, WaitZone, WaitPropagated, GetNet, CreateNet, WaitNet, DelNet, DelProp, DelGlobal,
       DelRoot, DeleteStep, CreateStep, WaitStep, SameOrRecreate
  <2>2. job[i].op = "delete"
    BY <2>1, MoveJob
  <2>. QED  BY <1>3, <2>2 DEF OpInv, DeletePcs, SubnetTask, GetRoot, AdoptRoot, CreateRoot, WaitRoot, GetZone,
       DeleteZoneNet, DeleteZone, CreateZone, WaitZone, WaitPropagated, GetNet, CreateNet, WaitNet,
       DeleteStep, CreateStep, WaitStep, At
<1>4. ASSUME NEW t \in Infra, EgressTask(t)
      PROVE  job[i].op = "delete" /\ (DeleteNat(i) \/ DeleteEgress(i) \/ job'[i] = job[i])
  <2>1. PICK p, l : EGoto(t, p) \/ EGotoZone(t, p, l)
    BY <1>4 DEF EgressTask, CreateEgress, WaitEgress, CreateNat, WaitNat, DeleteNat, DeleteEgress,
      EgressCreateStep
  <2>2. job[i].op = "delete" /\ (t # i => job'[i] = job[i])
    BY <1>1, <2>1 DEF EGoto, EGotoZone, JobObj
  <2>3. t = i => DeleteNat(i) \/ DeleteEgress(i)
    BY <1>4, <2>2 DEF OpInv, EgressTask, CreateEgress, WaitEgress, CreateNat, WaitNat, EgressCreateStep, EAt
  <2>. QED  BY <2>2, <2>3
<1>5. ASSUME NEW t \in Infra, Start(t) PROVE StartDelete(i) \/ job'[i] = job[i]
  BY <1>1, <1>5 DEF Start, StartReconcile, StartDelete, Idle
<1>6. ASSUME NEW t \in Infra, Finish(t) PROVE job'[i] = job[i]
  BY <1>1, <1>6 DEF Finish, Idle
<1>7. ASSUME NEW t \in Infra, CallFails(t)
      PROVE  job[i].op = "delete" /\ (CallFails(i) \/ job'[i] = job[i])
  BY <1>1, <1>7 DEF CallFails, Goto, EGoto, JobObj
<1>8. ASSUME NEW t \in Infra, User(t) PROVE job' = job
  BY <1>8 DEF User, CreateShoot, UpdateSpec, DeleteShoot, ForceDelete, Migrate
<1>9. ~Restart
  BY DEF Restart, Idle
<1>10. CASE Gdc \/ UNCHANGED vars
  BY <1>10 DEF Gdc, RootReady, RootVanishes, SubReady, SubVanishes, Propagate, Withdraw, vars
<1>. QED  BY <1>1, <1>2, <1>3, <1>4, <1>5, <1>6, <1>7, <1>8, <1>9, <1>10 DEF Next, Controller

(* A resource changes phase under no operation but in its end, and by the    *)
(* mark for deletion.                                                       *)
LEMMA PhaseMoves ==
  ASSUME TypeOK, [Next]_vars, NEW i \in Infra
  PROVE  \/ cr'[i].phase = cr[i].phase
         \/ /\ job'[i].op = "none"
            /\ cr[i].phase \in {"live", "deleting"} => cr'[i].phase \notin {"live", "deleting"}
         \/ cr[i].phase = "live" /\ cr'[i].phase = "deleting" /\ job'[i] = job[i]
         \/ cr[i].phase \in {"live", "deleting"} /\ cr'[i].phase \notin {"live", "deleting"}
            /\ job[i].op = "none" /\ job'[i] = job[i]
         \/ cr[i].phase = "none" /\ cr'[i].phase = "live" /\ job'[i] = job[i]
<1>1. cr \in [Infra -> CrObj] /\ job \in [Infra -> JobObj]
  BY DEF TypeOK
<1>2. ASSUME NEW t \in Infra, NEW c, CreateShoot(t, c)
      PROVE  cr'[i].phase = cr[i].phase
             \/ (cr[i].phase = "none" /\ cr'[i].phase = "live" /\ job'[i] = job[i])
  BY <1>1, <1>2 DEF CreateShoot, CrObj
<1>3. ASSUME NEW t \in Infra, NEW c, UpdateSpec(t, c) PROVE cr'[i].phase = cr[i].phase
  BY <1>1, <1>3 DEF UpdateSpec, CrObj
<1>4. ASSUME NEW t \in Infra, DeleteShoot(t)
      PROVE  cr'[i].phase = cr[i].phase
             \/ (cr[i].phase = "live" /\ cr'[i].phase = "deleting" /\ job'[i] = job[i])
  BY <1>1, <1>4 DEF DeleteShoot, CrObj
<1>5. ASSUME NEW t \in Infra, ForceDelete(t)
      PROVE  cr'[i].phase = cr[i].phase
             \/ (/\ cr[i].phase \in {"live", "deleting"} /\ cr'[i].phase \notin {"live", "deleting"}
                 /\ job[i].op = "none" /\ job'[i] = job[i])
  BY <1>1, <1>5 DEF ForceDelete, CrObj
<1>6. ASSUME NEW t \in Infra, NEW k \in Infra, Migrate(t, k)
      PROVE  \/ cr'[i].phase = cr[i].phase
             \/ (/\ cr[i].phase \in {"live", "deleting"} /\ cr'[i].phase \notin {"live", "deleting"}
                 /\ job[i].op = "none" /\ job'[i] = job[i])
             \/ (cr[i].phase = "none" /\ cr'[i].phase = "live" /\ job'[i] = job[i])
  BY <1>1, <1>6 DEF Migrate, CrObj
<1>7. ASSUME NEW t \in Infra, Finish(t)
      PROVE  cr'[i].phase = cr[i].phase
             \/ (/\ job'[i].op = "none"
                 /\ cr[i].phase \in {"live", "deleting"} => cr'[i].phase \notin {"live", "deleting"})
  BY <1>1, <1>7 DEF Finish, Idle, CrObj
<1>8. ASSUME NEW t \in Infra, Start(t) \/ SubnetTask(t) \/ EgressTask(t) \/ CallFails(t) PROVE cr' = cr
  BY <1>8, SubnetTouch DEF Start, StartReconcile, StartDelete, CallFails, EgressTask, CreateEgress,
     WaitEgress, CreateNat, WaitNat, DeleteNat, DeleteEgress, EgressCreateStep
<1>9. CASE Gdc \/ Restart \/ UNCHANGED vars
  BY <1>9 DEF Gdc, RootReady, RootVanishes, SubReady, SubVanishes, Propagate, Withdraw, Restart, vars
<1>. QED  BY <1>2, <1>3, <1>4, <1>5, <1>6, <1>7, <1>8, <1>9 DEF Next, Controller, User

(* Operations stay on resources that want them.                              *)
LEMMA OpNext ==
  ASSUME TypeOK, [Next]_vars, NEW i \in Infra, OpInv(i)
  PROVE  OpInv(i)'
<1>1. job \in [Infra -> JobObj] /\ job[i].op \in {"none", "reconcile", "delete"}
  BY DEF TypeOK, JobObj
<1>2. ASSUME job'[i].op = "delete" PROVE OpInv(i)'
  <2>1. CASE StartDelete(i)
    BY <1>1, <2>1 DEF StartDelete, Idle, OpInv, DeletePcs
  <2>2. ASSUME job[i].op = "delete"
        PROVE  (DelNet(i) \/ DelProp(i) \/ DelGlobal(i) \/ DelRoot(i) \/ DeleteNat(i) \/ DeleteEgress(i)
                \/ CallFails(i) \/ job'[i] = job[i]) => OpInv(i)'
    <3>1. cr'[i].phase = "deleting"
      BY <1>2, <2>2, PhaseMoves DEF OpInv
    <3>2. ASSUME NEW p \in DeletePcs \cup {"done", "failed"}, NEW l, Goto(i, p) \/ GotoZone(i, p, l)
          PROVE  OpInv(i)'
      BY <1>1, <2>2, <3>1, <3>2 DEF Goto, GotoZone, OpInv, JobObj
    <3>3. ASSUME NEW p \in {"n_delete", "e_delete", "done", "failed"}, NEW l, EGoto(i, p) \/ EGotoZone(i, p, l)
          PROVE  OpInv(i)'
      BY <1>1, <2>2, <3>1, <3>3 DEF EGoto, EGotoZone, OpInv, JobObj
    <3>4. CASE DelNet(i) \/ DelProp(i) \/ DelGlobal(i) \/ DelRoot(i)
      BY <2>2, <3>2, <3>4 DEF DelNet, DelProp, DelGlobal, DelRoot, DeleteStep, DeletePcs
    <3>5. CASE DeleteNat(i) \/ DeleteEgress(i)
      BY <3>3, <3>5 DEF DeleteNat, DeleteEgress
    <3>6. CASE CallFails(i)
      BY <3>2, <3>3, <3>6 DEF CallFails
    <3>7. CASE job'[i] = job[i]
      BY <2>2, <3>1, <3>7 DEF OpInv
    <3>. QED  BY <3>4, <3>5, <3>6, <3>7
  <2>. QED  BY <1>2, <2>1, <2>2, DeleteMoves
<1>3. ASSUME job'[i].op = "reconcile" PROVE cr'[i].phase \in {"live", "deleting"}
  <2>1. CASE job[i].op = "reconcile"
    BY <1>3, <2>1, PhaseMoves DEF OpInv
  <2>2. CASE job[i].op # "reconcile"
    <3>1. StartReconcile(i)
      <4>1. ASSUME NEW t \in Infra, SubnetTask(t) PROVE job'[i].op = job[i].op
        <5>1. PICK p, l : Goto(t, p) \/ GotoZone(t, p, l)
          BY <4>1 DEF SubnetTask, GetRoot, AdoptRoot, CreateRoot, WaitRoot, GetZone, DeleteZoneNet,
             DeleteZone, CreateZone, WaitZone, WaitPropagated, GetNet, CreateNet, WaitNet, DelNet, DelProp,
             DelGlobal, DelRoot, DeleteStep, CreateStep, WaitStep, SameOrRecreate
        <5>. QED  BY <5>1, MoveJob
      <4>2. ASSUME NEW t \in Infra, EgressTask(t) PROVE job'[i].op = job[i].op
        <5>1. PICK p, l : EGoto(t, p) \/ EGotoZone(t, p, l)
          BY <4>2 DEF EgressTask, CreateEgress, WaitEgress, CreateNat, WaitNat, DeleteNat, DeleteEgress,
             EgressCreateStep
        <5>. QED  BY <1>1, <5>1 DEF EGoto, EGotoZone, JobObj
      <4>3. ASSUME NEW t \in Infra, Start(t) PROVE StartReconcile(i) \/ job'[i].op = job[i].op \/ job'[i].op = "delete"
        BY <1>1, <4>3 DEF Start, StartReconcile, StartDelete, Idle
      <4>4. ASSUME NEW t \in Infra, Finish(t) \/ CallFails(t) \/ User(t)
            PROVE  job'[i].op \in {job[i].op, "none"}
        BY <1>1, <4>4 DEF Finish, Idle, CallFails, Goto, EGoto, JobObj, User, CreateShoot, UpdateSpec,
           DeleteShoot, ForceDelete, Migrate
      <4>5. Restart => job'[i].op = "none"
        BY DEF Restart, Idle
      <4>6. Gdc \/ UNCHANGED vars => job' = job
        BY DEF Gdc, RootReady, RootVanishes, SubReady, SubVanishes, Propagate, Withdraw, vars
      <4>. QED  BY <1>3, <2>2, <4>1, <4>2, <4>3, <4>4, <4>5, <4>6 DEF Next, Controller
    <3>. QED  BY <3>1 DEF StartReconcile
  <2>. QED  BY <2>1, <2>2
<1>. QED  BY <1>2, <1>3 DEF OpInv

(* A namespace keeps to one shoot: a second is created only when the first   *)
(* is gone, or as its successor in another seed.                            *)
LEMMA NamespaceNext == TypeOK /\ NamespaceInv /\ [Next]_vars => NamespaceInv'
<1>. DEFINE Here(i) == cr[i].phase \in {"live", "deleting"}
<1>. SUFFICES ASSUME TypeOK, NamespaceInv, [Next]_vars, NEW i \in Infra, NEW j \in Infra,
                     NamespaceOf[i] = NamespaceOf[j], Here(i)', Here(j)'
              PROVE  i = j
  BY DEF NamespaceInv
<1>1. cr \in [Infra -> CrObj]
  BY DEF TypeOK
<1>2. CASE Here(i) /\ Here(j)
  BY <1>2 DEF NamespaceInv
<1>3. ASSUME NEW t \in Infra, NEW c, CreateShoot(t, c) PROVE i = j
  <2>1. \A k \in Infra : NamespaceOf[k] = NamespaceOf[t] => ~Here(k)
    BY <1>3 DEF CreateShoot
  <2>2. \A k \in Infra : k # t => cr'[k] = cr[k]
    BY <1>1, <1>3 DEF CreateShoot
  <2>. QED  BY <1>2, <2>1, <2>2
<1>4. ASSUME NEW t \in Infra, NEW k \in Infra, Migrate(t, k) PROVE i = j
  <2>1. /\ NamespaceOf[k] = NamespaceOf[t] /\ Here(t) /\ ~Here(t)'
        /\ \A l \in Infra : l \notin {t, k} => cr'[l] = cr[l]
    BY <1>1, <1>4 DEF Migrate, CrObj
  <2>2. \A l \in Infra : Here(l)' /\ NamespaceOf[l] = NamespaceOf[t] => l = k
    BY <2>1 DEF NamespaceInv
  <2>3. \A l \in Infra : Here(l)' /\ NamespaceOf[l] # NamespaceOf[t] => Here(l)
    BY <2>1
  <2>. QED  BY <1>2, <2>2, <2>3
<1>5. ASSUME NEW l \in Infra, Here(l)', ~Here(l)
      PROVE  \E t \in Infra, k \in Infra : (\E c : CreateShoot(t, c)) \/ Migrate(t, k)
  <2>1. ASSUME NEW t \in Infra, Start(t) \/ SubnetTask(t) \/ EgressTask(t) \/ CallFails(t) PROVE cr' = cr
    BY <2>1, SubnetTouch DEF Start, StartReconcile, StartDelete, CallFails, EgressTask, CreateEgress,
       WaitEgress, CreateNat, WaitNat, DeleteNat, DeleteEgress, EgressCreateStep
  <2>2. ASSUME NEW t \in Infra, NEW c, UpdateSpec(t, c) PROVE FALSE
    BY <1>1, <1>5, <2>2 DEF UpdateSpec, CrObj
  <2>3. ASSUME NEW t \in Infra, DeleteShoot(t) \/ ForceDelete(t) \/ Finish(t) PROVE FALSE
    BY <1>1, <1>5, <2>3 DEF DeleteShoot, ForceDelete, Finish, CrObj
  <2>4. CASE Gdc \/ Restart \/ UNCHANGED vars
    BY <1>5, <2>4 DEF Gdc, RootReady, RootVanishes, SubReady, SubVanishes, Propagate, Withdraw, Restart, vars
  <2>. QED  BY <1>5, <2>1, <2>2, <2>3, <2>4 DEF Next, Controller, User
<1>. QED  BY <1>2, <1>3, <1>4, <1>5

(* Forbidden egress resources never come into being.                         *)
LEMMA ForbiddenNext ==
  ASSUME TypeOK, [Next]_vars, ForbiddenInv
  PROVE  ForbiddenInv'
<1>. SUFFICES ASSUME ~EgressAllowed, NEW k \in EgressKinds, NEW m \in Namespaces, NEW z \in Zones
              PROVE  sub'[<<k, m, z>>] = None
  BY DEF ForbiddenInv
<1>. DEFINE key == <<k, m, z>>
<1>1. /\ key \in SubKeys /\ sub \in [SubKeys -> SubObj \cup {None}] /\ sub[key] = None
      /\ k \notin SubnetKinds
  BY DEF TypeOK, SubKeys, ForbiddenInv, EgressKinds, SubnetKinds
<1>2. ASSUME NEW t \in Infra, SubnetTask(t) PROVE sub'[key] = sub[key]
  BY <1>1, <1>2, SubnetTouch DEF Key
<1>3. ASSUME NEW t \in Infra, EgressTask(t) PROVE sub' = sub
  BY <1>3 DEF EgressTask, CreateEgress, WaitEgress, CreateNat, WaitNat, DeleteNat, DeleteEgress,
     EgressCreateStep, EgressDeleted
<1>4. ASSUME NEW t \in Infra, User(t) \/ Start(t) \/ Finish(t) \/ CallFails(t) PROVE sub' = sub
  BY <1>4 DEF User, CreateShoot, UpdateSpec, DeleteShoot, ForceDelete, Migrate, Start, StartReconcile,
     StartDelete, Finish, CallFails
<1>5. CASE Gdc
  <2>1. ASSUME NEW q \in SubKeys, SubReady(q) \/ SubVanishes(q) PROVE sub'[key] = sub[key]
    BY <1>1, <2>1 DEF SubReady, SubVanishes
  <2>2. ASSUME NEW n \in Names, NEW y \in Zones, Propagate(n, y) \/ Withdraw(n, y) PROVE sub'[key] = sub[key]
    <3>1. key # <<"propagated", n, y>>
      BY DEF EgressKinds
    <3>. QED  BY <1>1, <2>2, <3>1 DEF Propagate, Withdraw
  <2>. QED  BY <1>1, <1>5, <2>1, <2>2 DEF Gdc, RootReady, RootVanishes
<1>. QED  BY <1>1, <1>2, <1>3, <1>4, <1>5 DEF Next, Controller, Restart, vars

(* Who exists has been created, and stays on record.                         *)
LEMMA NoneBack ==
  ASSUME TypeOK, [Next]_vars, NEW j \in Infra, cr'[j].phase = "none"
  PROVE  cr[j].phase = "none"
<1>1. CASE cr' = cr
  BY <1>1
<1>2. ASSUME NEW i \in Infra, User(i) \/ Finish(i) PROVE cr[j].phase = "none"
  BY <1>2 DEF TypeOK, CrObj, User, CreateShoot, UpdateSpec, DeleteShoot, ForceDelete, Migrate, Finish
<1>3. ASSUME NEW i \in Infra, Start(i) \/ SubnetTask(i) \/ EgressTask(i) \/ CallFails(i) PROVE cr' = cr
  BY <1>3, SubnetTouch DEF Start, StartReconcile, StartDelete, CallFails, EgressTask, CreateEgress,
     WaitEgress, CreateNat, WaitNat, DeleteNat, DeleteEgress, EgressCreateStep
<1>4. CASE Gdc \/ Restart \/ UNCHANGED vars
  BY <1>1, <1>4 DEF Gdc, RootReady, RootVanishes, SubReady, SubVanishes, Propagate, Withdraw, Restart, vars
<1>. QED  BY <1>1, <1>2, <1>3, <1>4 DEF Next, Controller

(* Nobody brings back what a Delete has passed.                              *)
LEMMA PassedStays ==
  ASSUME TypeOK, \A k \in Infra : OpInv(k), NamespaceInv, [Next]_vars, NEW i \in Infra,
         job[i].op = "delete", job'[i].snap = job[i].snap,
         NEW m \in 1..Len(job[i].snap.zones)
  PROVE  /\ Alone(i) => \A l \in NodeKinds :
              Away(Net(l, NameOf[i], job[i].snap.zones[m].name)) =>
                Away(Net(l, NameOf[i], job[i].snap.zones[m].name))'
         /\ \A l \in EgressKinds :
              Away(sub[<<l, NamespaceOf[i], job[i].snap.zones[m].name>>]) =>
                Away(sub[<<l, NamespaceOf[i], job[i].snap.zones[m].name>>])'
<1>1. PICK z \in Zones : z = job[i].snap.zones[m].name
  BY ZoneNames
<1>2. NameOf[i] \in Names /\ NamespaceOf[i] \in Namespaces /\ cr[i].phase = "deleting"
  BY NamesAssumption DEF OpInv
<1>3. ASSUME NEW t \in Infra, job[t].op = "reconcile" PROVE NamespaceOf[t] # NamespaceOf[i]
  BY <1>2, <1>3 DEF OpInv, NamespaceInv
<1>4. ASSUME Alone(i), NEW l \in NodeKinds, Away(Net(l, NameOf[i], z)) PROVE Away(sub'[<<l, NameOf[i], z>>])
  <2>. DEFINE key == <<l, NameOf[i], z>>
  <2>1. key \in SubKeys /\ key[1] # "propagated" /\ key[1] \notin EgressKinds
    BY <1>2, NodeType DEF NodeKinds, EgressKinds
  <2>2. ASSUME NEW t \in Infra, job[t].op = "reconcile", NEW k \in NodeKinds, key = Key(k, t) PROVE FALSE
    <3>1. NameOf[t] = NameOf[i] /\ cr[t].phase # "none"
      BY <2>2 DEF Key, OpInv
    <3>. QED  BY <1>3, <1>4, <2>2, <3>1 DEF Alone
  <2>3. ASSUME NEW t \in Infra, NEW k \in EgressKinds, key = EKey(k, t) PROVE FALSE
    BY <2>1, <2>3 DEF EKey
  <2>4. Away(sub[key])
    BY <1>4 DEF Net
  <2>. QED  BY <2>1, <2>2, <2>3, <2>4, AwayStays
<1>5. ASSUME NEW l \in EgressKinds, Away(sub[<<l, NamespaceOf[i], z>>])
      PROVE  Away(sub'[<<l, NamespaceOf[i], z>>])
  <2>. DEFINE key == <<l, NamespaceOf[i], z>>
  <2>1. key \in SubKeys /\ key[1] # "propagated" /\ key[1] \notin NodeKinds
    BY <1>2 DEF SubKeys, NodeKinds, EgressKinds
  <2>2. ASSUME NEW t \in Infra, job[t].op = "reconcile", NEW k \in EgressKinds, key = EKey(k, t) PROVE FALSE
    BY <1>3, <2>2 DEF EKey
  <2>3. ASSUME NEW t \in Infra, NEW k \in NodeKinds, key = Key(k, t) PROVE FALSE
    BY <2>1, <2>3 DEF Key
  <2>. QED  BY <1>5, <2>1, <2>2, <2>3, AwayStays
<1>6. z = job'[i].snap.zones[m].name
  BY <1>1
<1>. QED  BY <1>1, <1>4, <1>5, <1>6 DEF Net, Away

(* What a Delete has just deleted is gone or going.                          *)
LEMMA DeletedAway == \A o \in SubObj \cup RootObj \cup {None} : Away(Deleted(o))
BY DEF Away, Deleted, SubObj, RootObj

(* A Delete passes zone by zone, and a zone's z- subnet before its global.   *)
LEMMA SubnetsPassedNext ==
  ASSUME TypeOK, \A k \in Infra : OpInv(k), NamespaceInv, [Next]_vars, NEW i \in Infra,
         job[i].op = "delete", job'[i].op = "delete", SubnetsPassed(i)
  PROVE  SubnetsPassed(i)'
<1>. SUFFICES ASSUME Alone(i)' PROVE SubnetsPassed(i)'
  BY DEF SubnetsPassed
<1>1. Alone(i)
  BY NoneBack DEF Alone
<1>2. /\ job \in [Infra -> JobObj] /\ job[i] \in JobObj /\ OpInv(i)
      /\ Len(job[i].snap.zones) \in Nat /\ job[i].zi \in 1..Len(job[i].snap.zones)
      /\ Entry(i).name \in Zones
  BY ZoneNames DEF TypeOK, Entry
<1>3. ASSUME job'[i].snap = job[i].snap, NEW k \in 1..Len(job[i].snap.zones), NodesAway(i, k)
      PROVE  NodesAway(i, k)'
  BY <1>1, <1>3, PassedStays DEF NodesAway
<1>4. ASSUME job'[i].snap = job[i].snap, job'[i].zi = job[i].zi, Away(Net("zonal", NameOf[i], Entry(i).name))
      PROVE  Away(Net("zonal", NameOf[i], Entry(i).name))'
  BY <1>1, <1>2, <1>4, PassedStays DEF Entry, NodeKinds
<1>5. ASSUME job'[i].snap = job[i].snap, job'[i].zi = job[i].zi, job'[i].pc \in {job[i].pc, "failed"}
      PROVE  SubnetsPassed(i)'
  <2>1. CASE job'[i].pc = "failed"
    BY <2>1 DEF SubnetsPassed
  <2>2. CASE job'[i].pc = job[i].pc
    <3>1. job[i].pc \in {"del_net", "del_prop", "del_global"} => (\A k \in 1..job[i].zi-1 : NodesAway(i, k))'
      <4>1. ASSUME job[i].pc \in {"del_net", "del_prop", "del_global"}, NEW k \in 1..job[i].zi-1
            PROVE  NodesAway(i, k)'
        BY <1>1, <1>2, <1>3, <1>5, <4>1 DEF SubnetsPassed
      <4>. QED  BY <1>5, <4>1
    <3>2. job[i].pc \in {"del_prop", "del_global"} => Away(Net("zonal", NameOf[i], Entry(i).name))'
      BY <1>1, <1>4, <1>5 DEF SubnetsPassed
    <3>3. job[i].pc \in {"del_root", "done"} => (\A k \in 1..Len(job[i].snap.zones) : NodesAway(i, k))'
      <4>1. ASSUME job[i].pc \in {"del_root", "done"}, NEW k \in 1..Len(job[i].snap.zones)
            PROVE  NodesAway(i, k)'
        BY <1>1, <1>3, <1>5, <4>1 DEF SubnetsPassed
      <4>. QED  BY <1>5, <4>1
    <3>. QED  BY <2>2, <3>1, <3>2, <3>3 DEF SubnetsPassed
  <2>. QED  BY <1>5, <2>1, <2>2
<1>g. ASSUME NEW p, Goto(i, p)
      PROVE  /\ job'[i].snap = job[i].snap /\ job'[i].zi = job[i].zi /\ job'[i].pc = p
             /\ Entry(i)' = Entry(i)
  BY <1>2, <1>g DEF Goto, JobObj, Entry
<1>z. ASSUME NEW p, NEW l, GotoZone(i, p, l)
      PROVE  job'[i].snap = job[i].snap /\ job'[i].zi = l /\ job'[i].pc = p
  BY <1>2, <1>z DEF GotoZone, JobObj
<1>d. ASSUME NEW k \in NodeKinds, sub' = [sub EXCEPT ![Key(k, i)] = Deleted(@)]
      PROVE  Away(sub'[<<k, NameOf[i], Entry(i).name>>])
  <2>1. k \in SubnetKinds
    BY DEF NodeKinds, SubnetKinds
  <2>2. Key(k, i) \in SubKeys
    BY <2>1, KeyType
  <2>3. sub'[Key(k, i)] = Deleted(sub[Key(k, i)]) /\ sub[Key(k, i)] \in SubObj \cup {None}
    BY <1>d, <2>2 DEF TypeOK
  <2>. QED  BY <2>3, DeletedAway DEF Key
<1>6. CASE StartDelete(i)
  <2>1. job'[i].pc = "del_net" /\ job'[i].zi = 1
    BY <1>2, <1>6 DEF StartDelete, Idle
  <2>. QED  BY <2>1 DEF SubnetsPassed
<1>7. CASE DelNet(i)
  <2>1. /\ Goto(i, "del_prop") /\ job[i].pc = "del_net"
        /\ sub' = [sub EXCEPT ![Key("zonal", i)] = Deleted(@)]
    BY <1>7 DEF DelNet, DeleteStep, At
  <2>2. ASSUME NEW k \in 1..job[i].zi-1 PROVE NodesAway(i, k)'
    BY <1>1, <1>2, <1>3, <1>g, <2>1 DEF SubnetsPassed
  <2>3. Away(Net("zonal", NameOf[i], Entry(i).name))'
    BY <1>d, <1>g, <2>1 DEF NodeKinds, Net, Away
  <2>4. (\A k \in 1..job[i].zi-1 : NodesAway(i, k))'
    BY <1>g, <2>1, <2>2
  <2>. QED  BY <1>g, <2>1, <2>3, <2>4 DEF SubnetsPassed
<1>8. CASE DelProp(i)
  <2>1. Goto(i, "del_global") /\ job[i].pc = "del_prop"
    BY <1>8 DEF DelProp, DeleteStep, At
  <2>2. ASSUME NEW k \in 1..job[i].zi-1 PROVE NodesAway(i, k)'
    BY <1>1, <1>2, <1>3, <1>g, <2>1 DEF SubnetsPassed
  <2>3. Away(Net("zonal", NameOf[i], Entry(i).name))'
    BY <1>1, <1>4, <1>g, <2>1 DEF SubnetsPassed
  <2>4. (\A k \in 1..job[i].zi-1 : NodesAway(i, k))'
    BY <1>g, <2>1, <2>2
  <2>. QED  BY <1>g, <2>1, <2>3, <2>4 DEF SubnetsPassed
<1>9. CASE DelGlobal(i)
  <2>1. /\ sub' = [sub EXCEPT ![Key("global", i)] = Deleted(@)] /\ job[i].pc = "del_global"
        /\ \/ LastZone(i) /\ Goto(i, "del_root")
           \/ GotoZone(i, "del_net", job[i].zi + 1)
    BY <1>9 DEF DelGlobal, At
  <2>2. job'[i].snap = job[i].snap
    BY <1>g, <1>z, <2>1
  <2>3. ASSUME NEW k \in 1..job[i].zi-1 PROVE NodesAway(i, k)'
    BY <1>1, <1>2, <1>3, <2>1, <2>2 DEF SubnetsPassed
  <2>4. ASSUME NEW m, m = job[i].zi PROVE NodesAway(i, m)'
    <3>2. Away(Net("zonal", NameOf[i], job[i].snap.zones[m].name))'
      <4>1. Away(Net("zonal", NameOf[i], job[i].snap.zones[m].name))
        BY <1>1, <2>1, <2>4 DEF SubnetsPassed, Entry
      <4>. QED  BY <1>1, <1>2, <2>2, <2>4, <4>1, PassedStays DEF NodeKinds
    <3>3. Away(Net("global", NameOf[i], job[i].snap.zones[m].name))'
      <4>1. Entry(i).name = job'[i].snap.zones[m].name
        BY <2>2, <2>4 DEF Entry
      <4>. QED  BY <1>d, <2>1, <4>1 DEF NodeKinds, Net, Away
    <3>. QED  BY <3>2, <3>3 DEF NodesAway, NodeKinds
  <2>5. ASSUME NEW k \in 1..job[i].zi PROVE NodesAway(i, k)'
    BY <1>2, <2>3, <2>4
  <2>6. CASE LastZone(i) /\ Goto(i, "del_root")
    <3>1. Len(job'[i].snap.zones) = job[i].zi
      BY <2>2, <2>6 DEF LastZone
    <3>2. (\A k \in 1..Len(job[i].snap.zones) : NodesAway(i, k))'
      BY <2>5, <3>1
    <3>. QED  BY <1>g, <2>6, <3>2 DEF SubnetsPassed
  <2>7. CASE GotoZone(i, "del_net", job[i].zi + 1)
    <3>1. job'[i].zi - 1 = job[i].zi
      BY <1>2, <1>z, <2>7
    <3>2. (\A k \in 1..job[i].zi-1 : NodesAway(i, k))'
      BY <2>5, <3>1
    <3>. QED  BY <1>z, <2>7, <3>2 DEF SubnetsPassed
  <2>. QED  BY <2>1, <2>6, <2>7
<1>10. CASE DelRoot(i)
  <2>1. Goto(i, "done") /\ job[i].pc = "del_root"
    BY <1>10 DEF DelRoot, At
  <2>2. ASSUME NEW k \in 1..Len(job[i].snap.zones) PROVE NodesAway(i, k)'
    BY <1>1, <1>3, <1>g, <2>1 DEF SubnetsPassed
  <2>3. (\A k \in 1..Len(job[i].snap.zones) : NodesAway(i, k))'
    BY <1>g, <2>1, <2>2
  <2>. QED  BY <1>g, <2>1, <2>3 DEF SubnetsPassed
<1>11. CASE DeleteNat(i) \/ DeleteEgress(i)
  <2>1. PICK p, l : EGoto(i, p) \/ EGotoZone(i, p, l)
    BY <1>11 DEF DeleteNat, DeleteEgress
  <2>. QED  BY <1>2, <1>5, <2>1 DEF EGoto, EGotoZone, JobObj
<1>12. CASE CallFails(i)
  BY <1>2, <1>5, <1>12 DEF CallFails, Goto, EGoto, JobObj
<1>. QED  BY <1>2, <1>5, <1>6, <1>7, <1>8, <1>9, <1>10, <1>11, <1>12, DeleteMoves

(* A label that comes back is another's, and what terminates stays so.       *)
LEMMA RootPassedNext ==
  ASSUME TypeOK, [Next]_vars, NEW i \in Infra, OpInv(i),
         job[i].op = "delete", job'[i].op = "delete", RootPassed(i)
  PROVE  RootPassed(i)'
<1>. SUFFICES ASSUME job'[i].pc = "done", Root(i)' # None, Root(i)'.owner = i
              PROVE  Root(i)'.life = "terminating"
  BY DEF RootPassed
<1>1. /\ NameOf[i] \in Names /\ root \in [Names -> RootObj \cup {None}] /\ job \in [Infra -> JobObj]
      /\ Root(i) = root[NameOf[i]] /\ Root(i)' = root'[NameOf[i]]
  BY NamesAssumption DEF TypeOK, Root
<1>2. CASE DelRoot(i)
  <2>1. Root(i)' = Deleted(Root(i)) /\ Root(i) \in RootObj \cup {None}
    BY <1>1, <1>2 DEF DelRoot
  <2>. QED  BY <2>1, DeletedAway DEF Away
<1>3. CASE ~SubnetTask(i)
  <2>1. job[i].pc = "done"
    <3>1. ~StartDelete(i)
      BY <1>1 DEF StartDelete, Idle
    <3>2. CallFails(i) => job[i].pc = "done"
      BY <1>1 DEF CallFails, Goto, EGoto, JobObj
    <3>3. DeleteNat(i) \/ DeleteEgress(i) => job[i].pc = "done"
      BY <1>1 DEF DeleteNat, DeleteEgress, EGoto, EGotoZone, JobObj
    <3>. QED  BY <1>3, <3>1, <3>2, <3>3, DeleteMoves DEF SubnetTask
  <2>2. Root(i) # None /\ Root(i).owner = i => Root(i).life = "terminating"
    BY <2>1 DEF RootPassed
  <2>3. ASSUME NEW t \in Infra, NameOf[t] = NameOf[i], SubnetTask(t)
        PROVE  Root(i)'.life = "terminating"
    <3>1. t # i /\ Root(t) = Root(i)
      BY <1>3, <2>3 DEF Root
    <3>2. ~AdoptRoot(t) \/ Root(i)' = Root(i)
      <4>1. ASSUME AdoptRoot(t), Root(t) # None PROVE FALSE
        <5>1. root' = [root EXCEPT ![NameOf[i]].owner = t]
          BY <2>3, <4>1 DEF AdoptRoot
        <5>2. Root(i) \in RootObj /\ Root(i)' = [Root(i) EXCEPT !.owner = t]
          BY <1>1, <3>1, <4>1, <5>1
        <5>. QED  BY <3>1, <5>2 DEF RootObj
      <4>. QED  BY <1>1, <3>1, <4>1 DEF AdoptRoot
    <3>3. ~CreateRoot(t) \/ Root(i)' = Root(i)
      BY <1>1, <2>3, <3>1 DEF CreateRoot
    <3>4. DelRoot(t) => Root(i)'.life = "terminating"
      <4>1. DelRoot(t) => Root(i)' = Deleted(Root(i)) /\ Root(i) \in RootObj \cup {None}
        BY <1>1, <2>3 DEF DelRoot
      <4>. QED  BY <4>1, DeletedAway DEF Away
    <3>5. DelRoot(t) \/ Root(i)' = Root(i)
      BY <1>1, <2>3, <3>2, <3>3 DEF SubnetTask, GetRoot, AdoptRoot, CreateRoot, WaitRoot, GetZone, DeleteZoneNet,
         DeleteZone, CreateZone, WaitZone, WaitPropagated, GetNet, CreateNet, WaitNet, DelNet, DelProp,
         DelGlobal, DeleteStep, CreateStep, WaitStep
    <3>. QED  BY <2>2, <3>4, <3>5
  <2>4. CASE \A t \in Infra : NameOf[t] = NameOf[i] => ~SubnetTask(t)
    BY <1>1, <2>2, <2>4, RootsAge
  <2>. QED  BY <2>3, <2>4
<1>4. ASSUME SubnetTask(i) PROVE DelRoot(i)
  <2>1. ~(DelNet(i) \/ DelProp(i) \/ DelGlobal(i))
    BY <1>1 DEF DelNet, DelProp, DelGlobal, DeleteStep, Goto, GotoZone, JobObj
  <2>. QED  BY <1>4, <2>1 DEF OpInv, DeletePcs, SubnetTask, GetRoot, AdoptRoot, CreateRoot, WaitRoot, GetZone,
       DeleteZoneNet, DeleteZone, CreateZone, WaitZone, WaitPropagated, GetNet, CreateNet, WaitNet,
       DeleteStep, CreateStep, WaitStep, At
<1>. QED  BY <1>2, <1>3, <1>4

(* A Delete passes the gateways zone by zone, where it may touch them; where *)
(* it may not, there are none.                                              *)
LEMMA EgressPassedNext ==
  ASSUME TypeOK, \A k \in Infra : OpInv(k), NamespaceInv, ForbiddenInv, [Next]_vars, NEW i \in Infra,
         job[i].op = "delete", job'[i].op = "delete", EgressPassed(i)
  PROVE  EgressPassed(i)'
<1>2. /\ job \in [Infra -> JobObj] /\ job[i] \in JobObj /\ OpInv(i) /\ NamespaceOf[i] \in Namespaces
      /\ Len(job[i].snap.zones) \in Nat /\ job[i].ezi \in 1..Len(job[i].snap.zones)
      /\ job[i].snap.zones[job[i].ezi].name \in Zones
  BY ZoneNames, NamesAssumption DEF TypeOK
<1>3. ASSUME job'[i].snap = job[i].snap, NEW k \in 1..Len(job[i].snap.zones), EgressAway(i, k)
      PROVE  EgressAway(i, k)'
  BY <1>3, PassedStays DEF EgressAway
<1>4. ASSUME job'[i].snap = job[i].snap, job'[i].ezi = job[i].ezi, Away(sub[EKey("nat", i)])
      PROVE  Away(sub[EKey("nat", i)])'
  BY <1>2, <1>4, PassedStays DEF EKey, EgressKinds
<1>5. ASSUME job'[i].snap = job[i].snap, job'[i].ezi = job[i].ezi, job'[i].epc \in {job[i].epc, "failed"}
      PROVE  EgressPassed(i)'
  <2>1. CASE job'[i].epc = "failed"
    BY <2>1 DEF EgressPassed
  <2>2. CASE job'[i].epc = job[i].epc
    <3>1. job[i].epc \in {"n_delete", "e_delete"} => (\A k \in 1..job[i].ezi-1 : EgressAway(i, k))'
      <4>1. ASSUME job[i].epc \in {"n_delete", "e_delete"}, NEW k \in 1..job[i].ezi-1
            PROVE  EgressAway(i, k)'
        BY <1>2, <1>3, <1>5, <4>1 DEF EgressPassed
      <4>. QED  BY <1>5, <4>1
    <3>2. job[i].epc = "e_delete" => Away(sub[EKey("nat", i)])'
      BY <1>4, <1>5 DEF EgressPassed
    <3>3. job[i].epc = "done" => (\A k \in 1..Len(job[i].snap.zones) : EgressAway(i, k))'
      <4>1. ASSUME job[i].epc = "done", NEW k \in 1..Len(job[i].snap.zones)
            PROVE  EgressAway(i, k)'
        BY <1>3, <1>5, <4>1 DEF EgressPassed
      <4>. QED  BY <1>5, <4>1
    <3>. QED  BY <2>2, <3>1, <3>2, <3>3 DEF EgressPassed
  <2>. QED  BY <1>5, <2>1, <2>2
<1>g. ASSUME NEW p, EGoto(i, p)
      PROVE  job'[i].snap = job[i].snap /\ job'[i].ezi = job[i].ezi /\ job'[i].epc = p
  BY <1>2, <1>g DEF EGoto, JobObj
<1>z. ASSUME NEW p, NEW l, EGotoZone(i, p, l)
      PROVE  job'[i].snap = job[i].snap /\ job'[i].ezi = l /\ job'[i].epc = p
  BY <1>2, <1>z DEF EGotoZone, JobObj
<1>d. ASSUME NEW k \in EgressKinds, EgressDeleted(i, k)
      PROVE  Away(sub'[<<k, NamespaceOf[i], job[i].snap.zones[job[i].ezi].name>>])
  <2>1. CASE EgressAllowed
    <3>1. EKey(k, i) \in SubKeys
      BY KeyType
    <3>2. sub'[EKey(k, i)] = Deleted(sub[EKey(k, i)]) /\ sub[EKey(k, i)] \in SubObj \cup {None}
      BY <1>d, <2>1, <3>1 DEF TypeOK, EgressDeleted
    <3>. QED  BY <3>2, DeletedAway DEF EKey
  <2>2. CASE ~EgressAllowed
    BY <1>2, <1>d, <2>2 DEF ForbiddenInv, EgressDeleted, Away
  <2>. QED  BY <2>1, <2>2
<1>6. CASE StartDelete(i)
  <2>1. job'[i].epc = "n_delete" /\ job'[i].ezi = 1
    BY <1>2, <1>6 DEF StartDelete, Idle
  <2>. QED  BY <2>1 DEF EgressPassed
<1>7. CASE DeleteNat(i)
  <2>1. EGoto(i, "e_delete") /\ job[i].epc = "n_delete" /\ EgressDeleted(i, "nat")
    BY <1>7 DEF DeleteNat, EAt
  <2>2. ASSUME NEW k \in 1..job[i].ezi-1 PROVE EgressAway(i, k)'
    BY <1>2, <1>3, <1>g, <2>1 DEF EgressPassed
  <2>3. Away(sub[EKey("nat", i)])'
    BY <1>d, <1>g, <2>1 DEF EgressKinds, EKey, Away
  <2>4. (\A k \in 1..job[i].ezi-1 : EgressAway(i, k))'
    BY <1>g, <2>1, <2>2
  <2>. QED  BY <1>g, <2>1, <2>3, <2>4 DEF EgressPassed
<1>8. CASE DeleteEgress(i)
  <2>1. /\ job[i].epc = "e_delete" /\ EgressDeleted(i, "egress")
        /\ \/ LastEZone(i) /\ EGoto(i, "done")
           \/ EGotoZone(i, "n_delete", job[i].ezi + 1)
    BY <1>8 DEF DeleteEgress, EAt
  <2>2. job'[i].snap = job[i].snap
    BY <1>g, <1>z, <2>1
  <2>3. ASSUME NEW k \in 1..job[i].ezi-1 PROVE EgressAway(i, k)'
    BY <1>2, <1>3, <2>1, <2>2 DEF EgressPassed
  <2>4. ASSUME NEW m, m = job[i].ezi PROVE EgressAway(i, m)'
    <3>1. Away(sub[<<"nat", NamespaceOf[i], job[i].snap.zones[m].name>>])'
      <4>1. Away(sub[<<"nat", NamespaceOf[i], job[i].snap.zones[m].name>>])
        BY <2>1, <2>4 DEF EgressPassed, EKey
      <4>. QED  BY <1>2, <2>2, <2>4, <4>1, PassedStays DEF EgressKinds
    <3>2. Away(sub[<<"egress", NamespaceOf[i], job[i].snap.zones[m].name>>])'
      BY <1>d, <2>1, <2>2, <2>4 DEF EgressKinds, Away
    <3>. QED  BY <3>1, <3>2 DEF EgressAway, EgressKinds
  <2>5. ASSUME NEW k \in 1..job[i].ezi PROVE EgressAway(i, k)'
    BY <1>2, <2>3, <2>4
  <2>6. CASE LastEZone(i) /\ EGoto(i, "done")
    <3>1. Len(job'[i].snap.zones) = job[i].ezi
      BY <2>2, <2>6 DEF LastEZone
    <3>2. (\A k \in 1..Len(job[i].snap.zones) : EgressAway(i, k))'
      BY <2>5, <3>1
    <3>. QED  BY <1>g, <2>6, <3>2 DEF EgressPassed
  <2>7. CASE EGotoZone(i, "n_delete", job[i].ezi + 1)
    <3>1. job'[i].ezi - 1 = job[i].ezi
      BY <1>2, <1>z, <2>7
    <3>2. (\A k \in 1..job[i].ezi-1 : EgressAway(i, k))'
      BY <2>5, <3>1
    <3>. QED  BY <1>z, <2>7, <3>2 DEF EgressPassed
  <2>. QED  BY <2>1, <2>6, <2>7
<1>9. CASE DelNet(i) \/ DelProp(i) \/ DelGlobal(i) \/ DelRoot(i)
  <2>1. PICK p, l : Goto(i, p) \/ GotoZone(i, p, l)
    BY <1>9 DEF DelNet, DelProp, DelGlobal, DelRoot, DeleteStep
  <2>. QED  BY <1>2, <1>5, <2>1 DEF Goto, GotoZone, JobObj
<1>10. CASE CallFails(i)
  BY <1>2, <1>5, <1>10 DEF CallFails, Goto, EGoto, JobObj
<1>. QED  BY <1>2, <1>5, <1>6, <1>7, <1>8, <1>9, <1>10, DeleteMoves

(* Initially nothing runs, a namespace holds one legacy shoot at most, and    *)
(* there are no gateways.                                                   *)
LEMMA DeletionInit == Init => DeletionInv
<1>. SUFFICES ASSUME NEW c \in [Legacy -> AllConfigs],
                     cr = [i \in Infra |-> IF i \in Legacy
                       THEN [phase |-> "live", spec |-> c[i], status |-> StatusOf(c[i])]
                       ELSE [phase |-> "none", spec |-> None, status |-> None]],
                     job = [i \in Infra |-> Idle],
                     sub = [key \in SubKeys |->
                       IF /\ key[1] \in SubnetKinds
                          /\ \E i \in Legacy : NameOf[i] = key[2] /\ key[3] \in ZonesOf(c[i])
                       THEN LegacySub(c[LegacyAt(key[2])], key[3]) ELSE None]
              PROVE  DeletionInv
  BY DEF Init
<1>1. \A i \in Infra : OpInv(i) /\ DeleteInv(i)
  BY DEF OpInv, DeleteInv, Idle
<1>2. NamespaceInv
  BY LegacyAssumption DEF NamespaceInv
<1>3. ForbiddenInv
  <2>1. \A k \in EgressKinds, m \in Namespaces, z \in Zones : <<k, m, z>> \in SubKeys /\ k \notin SubnetKinds
    BY DEF SubKeys, EgressKinds, SubnetKinds
  <2>. QED  BY <2>1 DEF ForbiddenInv
<1>. QED  BY <1>1, <1>2, <1>3 DEF DeletionInv

(* The deletion invariant is inductive.                                      *)
LEMMA DeletionNext == TypeOK /\ DeletionInv /\ [Next]_vars => DeletionInv'
<1>. SUFFICES ASSUME TypeOK, DeletionInv, [Next]_vars PROVE DeletionInv'
  OBVIOUS
<1>1. (\A k \in Infra : OpInv(k)) /\ NamespaceInv /\ ForbiddenInv
  BY DEF DeletionInv
<1>2. (\A i \in Infra : OpInv(i))'
  <2>1. ASSUME NEW i \in Infra PROVE OpInv(i)'
    BY <1>1, OpNext
  <2>. QED  BY <2>1
<1>3. NamespaceInv' /\ ForbiddenInv'
  BY <1>1, NamespaceNext, ForbiddenNext
<1>4. ASSUME NEW i \in Infra, job'[i].op = "delete"
      PROVE  SubnetsPassed(i)' /\ RootPassed(i)' /\ EgressPassed(i)'
  <2>1. CASE job[i].op = "delete"
    <3>1. SubnetsPassed(i) /\ RootPassed(i) /\ EgressPassed(i)
      BY <2>1 DEF DeletionInv, DeleteInv
    <3>. QED  BY <1>1, <1>4, <2>1, <3>1, SubnetsPassedNext, RootPassedNext, EgressPassedNext
  <2>2. CASE job[i].op # "delete"
    <3>1. StartDelete(i)
      BY <1>1, <1>4, <2>2, DeleteMoves
    <3>2. /\ job'[i].pc = "del_net" /\ job'[i].zi = 1
          /\ job'[i].epc = "n_delete" /\ job'[i].ezi = 1
      BY <3>1 DEF StartDelete, Idle, TypeOK
    <3>. QED  BY <3>2 DEF SubnetsPassed, RootPassed, EgressPassed
  <2>. QED  BY <2>1, <2>2
<1>. QED  BY <1>2, <1>3, <1>4 DEF DeletionInv, DeleteInv

(* The deletion invariant holds in every behaviour.                          *)
THEOREM DeletionHolds == Spec => [](TypeOK /\ DeletionInv)
<1>1. Init => TypeOK /\ DeletionInv
  BY TypeInit, DeletionInit
<1>2. TypeOK /\ DeletionInv /\ [Next]_vars => (TypeOK /\ DeletionInv)'
  BY TypeNext, DeletionNext
<1>. QED  BY <1>1, <1>2, PTL DEF Spec

(* When Delete reports success nothing of its configuration stays behind,    *)
(* whatever failed and was retried on the way: gateways always, subnets     *)
(* unless a shoot of the name in another namespace has come meanwhile.      *)
THEOREM DeleteLeavesNothing == Spec => DeleteComplete
<1>. DEFINE Off(o) == o = None \/ o.life = "terminating"
            Complete == \A i \in Infra : cr[i].phase = "deleting" /\ cr'[i].phase = "gone" =>
              /\ Root(i) # None /\ Root(i).owner = i => Root(i).life = "terminating"
              /\ \A k \in 1..Len(job[i].snap.zones) :
                   LET z == job[i].snap.zones[k].name IN
                   /\ Off(sub[<<"egress", NamespaceOf[i], z>>])
                   /\ Off(sub[<<"nat", NamespaceOf[i], z>>])
                   /\ (\A j \in Infra : NameOf[j] = NameOf[i] =>
                         NamespaceOf[j] = NamespaceOf[i] \/ cr[j].phase = "none") =>
                        Off(sub[<<"zonal", NameOf[i], z>>]) /\ Off(sub[<<"global", NameOf[i], z>>])
<1>1. TypeOK /\ DeletionInv /\ [Next]_vars => Complete
  <2>. SUFFICES ASSUME TypeOK, DeletionInv, [Next]_vars, NEW i \in Infra,
                       cr[i].phase = "deleting", cr'[i].phase = "gone"
                PROVE  /\ Root(i) # None /\ Root(i).owner = i => Root(i).life = "terminating"
                       /\ \A k \in 1..Len(job[i].snap.zones) :
                            LET z == job[i].snap.zones[k].name IN
                            /\ Off(sub[<<"egress", NamespaceOf[i], z>>])
                            /\ Off(sub[<<"nat", NamespaceOf[i], z>>])
                            /\ Alone(i) => /\ Off(sub[<<"zonal", NameOf[i], z>>])
                                           /\ Off(sub[<<"global", NameOf[i], z>>])
    BY DEF Alone
  <2>1. cr \in [Infra -> CrObj] /\ job[i].op \in {"none", "reconcile", "delete"}
    BY DEF TypeOK, JobObj
  <2>2. Finish(i)
    <3>1. ASSUME NEW t \in Infra, User(t) PROVE FALSE
      BY <2>1, <3>1 DEF User, CreateShoot, UpdateSpec, DeleteShoot, ForceDelete, Migrate, CrObj
    <3>2. ASSUME NEW t \in Infra, Start(t) \/ SubnetTask(t) \/ EgressTask(t) \/ CallFails(t) PROVE FALSE
      BY <3>2, SubnetTouch DEF Start, StartReconcile, StartDelete, CallFails, EgressTask, CreateEgress,
         WaitEgress, CreateNat, WaitNat, DeleteNat, DeleteEgress, EgressCreateStep
    <3>3. ASSUME NEW t \in Infra, Finish(t), t # i PROVE FALSE
      BY <2>1, <3>3 DEF Finish
    <3>4. ~(Gdc \/ Restart \/ UNCHANGED vars)
      BY DEF Gdc, RootReady, RootVanishes, SubReady, SubVanishes, Propagate, Withdraw, Restart, vars
    <3>. QED  BY <3>1, <3>2, <3>3, <3>4 DEF Next, Controller
  <2>3. job[i].op = "delete" /\ job[i].pc = "done" /\ job[i].epc = "done"
    BY <2>1, <2>2 DEF Finish, Succeeded, CrObj
  <2>4. SubnetsPassed(i) /\ RootPassed(i) /\ EgressPassed(i)
    BY <2>3 DEF DeletionInv, DeleteInv
  <2>. QED  BY <2>3, <2>4 DEF SubnetsPassed, RootPassed, EgressPassed, NodesAway, EgressAway, NodeKinds,
       EgressKinds, Net, Away
<1>2. DeleteComplete <=> [][Complete]_vars
  BY DEF DeleteComplete
<1>. HIDE DEF Complete
<1>3. TypeOK /\ DeletionInv /\ [Next]_vars => [Complete]_vars
  BY <1>1
<1>. QED  BY <1>2, <1>3, DeletionHolds, PTL DEF Spec

---------------------------------------------------------------------------
(* A z- subnet beside the global subnet it was cut from *)

(* Nobody disturbs the reconciles of a shoot that has its name for itself,   *)
(* nor, while no shoot of the name has been deleted, those of the owner of   *)
(* the root subnet.                                                         *)
Quiet(n) == Sole(n) \/ (StableRoot /\ trespassers = {} /\ Calm(n))

(* A z- subnet stands on the global subnet it was cut from, also between the *)
(* steps of the job that is about to replace the two.                       *)
Cut(n, z) == LET o == Net("zonal", n, z)
                 g == Net("global", n, z) IN
             o # None => g # None /\ g.cidr = o.cidr
ReplacePcs == {"zone_delglobal", "zone_create", "del_prop", "del_global"}
CutPcs == {"zone_wait", "prop_wait", "net_get", "net_create"}
JobCuts(i) == job[i].op # "none" =>
  /\ job[i].pc \in ReplacePcs => Net("zonal", NameOf[i], Entry(i).name) = None
  /\ job[i].pc \in CutPcs => LET g == Net("global", NameOf[i], Entry(i).name) IN
       g # None /\ g.cidr = Entry(i).cidr
CutInv == ~Finalizers => \A n \in Names : Quiet(n) =>
  /\ \A z \in Zones : Cut(n, z)
  /\ \A i \in Infra : NameOf[i] = n => JobCuts(i)

(* The steps of the shoot's own subnet task keep it so.                      *)
LEMMA CutTask ==
  ASSUME TypeOK, ~Finalizers, NEW i \in Infra, SubnetTask(i),
         \A z \in Zones : Cut(NameOf[i], z), JobCuts(i)
  PROVE  (\A z \in Zones : Cut(NameOf[i], z))' /\ JobCuts(i)'
<1>. DEFINE n == NameOf[i]  e == Entry(i).name
            o(z) == Net("zonal", n, z)  g(z) == Net("global", n, z)
<1>1. /\ job[i].op # "none" /\ e \in Zones /\ job \in [Infra -> JobObj]
      /\ "zonal" \in SubnetKinds \cap NodeKinds /\ "global" \in SubnetKinds \cap NodeKinds
      /\ "propagated" \in SubnetKinds \ NodeKinds
  <2>1. job[i].op # "none"
    BY SubnetTouch
  <2>2. e \in Zones
    BY <2>1, ZoneNames DEF Entry
  <2>. QED  BY <2>1, <2>2 DEF TypeOK, SubnetKinds, NodeKinds
<1>2. ASSUME NEW k \in SubnetKinds, NEW p, sub' = [sub EXCEPT ![Key(k, i)] = p], NEW z \in Zones
      PROVE  /\ o(z)' = IF "zonal" = k /\ z = e THEN p ELSE o(z)
             /\ g(z)' = IF "global" = k /\ z = e THEN p ELSE g(z)
  BY <1>1, <1>2, NetWrites
<1>3. ASSUME NEW p, Goto(i, p)
      PROVE  job'[i].op = job[i].op /\ job'[i].pc = p /\ Entry(i)' = Entry(i)
  BY <1>1, <1>3 DEF Goto, JobObj, Entry
<1>4. ASSUME NEW p, NEW k, GotoZone(i, p, k) PROVE job'[i].pc = p
  BY <1>1, <1>4 DEF GotoZone, JobObj
<1>5. ASSUME \A z \in Zones : o(z)' # None => g(z)' # None /\ g(z)'.cidr = o(z)'.cidr
      PROVE  (\A z \in Zones : Cut(n, z))'
  BY <1>5 DEF Cut, Net
<1>6. ASSUME job'[i].pc \notin ReplacePcs \cup CutPcs PROVE JobCuts(i)'
  BY <1>6 DEF JobCuts
<1>7. ASSUME Entry(i)' = Entry(i),
             job'[i].pc \in ReplacePcs => o(e)' = None,
             job'[i].pc \in CutPcs => g(e)' # None /\ g(e)'.cidr = Entry(i).cidr
      PROVE  JobCuts(i)'
  BY <1>7 DEF JobCuts, Net, ReplacePcs, CutPcs
<1>8. \A z \in Zones : o(z) # None => g(z) # None /\ g(z).cidr = o(z).cidr
  BY DEF Cut
<1>9. /\ job[i].pc \in ReplacePcs => o(e) = None
      /\ job[i].pc \in CutPcs => g(e) # None /\ g(e).cidr = Entry(i).cidr
  BY <1>1 DEF JobCuts
<1>10. /\ sub[Key("zonal", i)] = o(e) /\ sub[Key("global", i)] = g(e)
       /\ \A p : Deleted(p) = None
  BY DEF Key, Net, Deleted
<1>11. UNCHANGED sub => \A z \in Zones : o(z)' = o(z) /\ g(z)' = g(z)
  BY DEF Net
<1>. HIDE DEF o, g
<1>12. CASE GetRoot(i) \/ AdoptRoot(i) \/ CreateRoot(i) \/ WaitRoot(i) \/ WaitNet(i) \/ DelRoot(i)
  <2>1. sub' = sub
    BY <1>12 DEF GetRoot, AdoptRoot, CreateRoot, WaitRoot, WaitNet, DelRoot
  <2>2. job'[i].pc \notin ReplacePcs \cup CutPcs
    BY <1>3, <1>4, <1>12 DEF GetRoot, AdoptRoot, CreateRoot, WaitRoot, WaitNet, DelRoot, SameOrRecreate,
       ReplacePcs, CutPcs
  <2>. QED  BY <1>5, <1>6, <1>8, <1>11, <2>1, <2>2
<1>13. CASE GetZone(i)
  <2>1. sub' = sub /\ Entry(i)' = Entry(i)
        /\ IF g(e) = None THEN job'[i].pc = "zone_create"
           ELSE IF g(e).cidr = Entry(i).cidr THEN job'[i].pc = "zone_wait" ELSE job'[i].pc = "zone_delnet"
    BY <1>3, <1>10, <1>13 DEF GetZone
  <2>2. JobCuts(i)'
    BY <1>1, <1>7, <1>8, <1>11, <2>1 DEF ReplacePcs, CutPcs
  <2>. QED  BY <1>5, <1>8, <1>11, <2>1, <2>2
<1>14. CASE DeleteZoneNet(i) \/ DelNet(i)
  <2>1. sub' = [sub EXCEPT ![Key("zonal", i)] = None] /\ Entry(i)' = Entry(i)
        /\ job'[i].pc \in {"zone_delglobal", "del_prop"}
    BY <1>3, <1>10, <1>14 DEF DeleteZoneNet, DelNet, DeleteStep
  <2>2. \A z \in Zones : o(z)' = (IF z = e THEN None ELSE o(z)) /\ g(z)' = g(z)
    BY <1>1, <1>2, <2>1
  <2>3. JobCuts(i)'
    BY <1>1, <1>7, <2>1, <2>2 DEF ReplacePcs, CutPcs
  <2>. QED  BY <1>5, <1>8, <2>2, <2>3
<1>15. CASE DeleteZone(i) \/ DelGlobal(i)
  <2>1. sub' = [sub EXCEPT ![Key("global", i)] = None] /\ o(e) = None
    BY <1>9, <1>10, <1>15 DEF DeleteZone, DelGlobal, DeleteStep, At, ReplacePcs
  <2>2. \A z \in Zones : g(z)' = (IF z = e THEN None ELSE g(z)) /\ o(z)' = o(z)
    BY <1>1, <1>2, <2>1
  <2>3. CASE DeleteZone(i)
    <3>1. Entry(i)' = Entry(i) /\ job'[i].pc = "zone_create"
      BY <1>3, <2>3 DEF DeleteZone, DeleteStep
    <3>. QED  BY <1>1, <1>5, <1>7, <1>8, <2>1, <2>2, <3>1 DEF ReplacePcs, CutPcs
  <2>4. CASE DelGlobal(i)
    <3>1. job'[i].pc \in {"del_root", "del_net"}
      BY <1>3, <1>4, <2>4 DEF DelGlobal
    <3>. QED  BY <1>5, <1>6, <1>8, <2>1, <2>2, <3>1 DEF ReplacePcs, CutPcs
  <2>. QED  BY <1>15, <2>3, <2>4
<1>16. CASE CreateZone(i)
  <2>1. CASE sub' = sub /\ Goto(i, "failed")
    BY <1>3, <1>5, <1>6, <1>8, <1>11, <2>1 DEF ReplacePcs, CutPcs
  <2>2. CASE sub' = [sub EXCEPT ![Key("global", i)] = NewSub(Entry(i).cidr)] /\ Goto(i, "zone_wait")
    <3>1. Entry(i)' = Entry(i) /\ job'[i].pc = "zone_wait"
      BY <1>3, <2>2
    <3>2. o(e) = None
      BY <1>9, <1>16 DEF CreateZone, CreateStep, At, ReplacePcs
    <3>3. \A z \in Zones : g(z)' = (IF z = e THEN NewSub(Entry(i).cidr) ELSE g(z)) /\ o(z)' = o(z)
      <4>. DEFINE p == NewSub(Entry(i).cidr)
      <4>1. sub' = [sub EXCEPT ![Key("global", i)] = p]
        BY <2>2
      <4>. HIDE DEF p
      <4>2. \A z \in Zones : g(z)' = (IF z = e THEN p ELSE g(z)) /\ o(z)' = o(z)
        BY <1>1, <1>2, <4>1
      <4>. QED  BY <4>2 DEF p
    <3>4. NewSub(Entry(i).cidr) # None /\ NewSub(Entry(i).cidr).cidr = Entry(i).cidr
      BY <1>1, NewSubIs
    <3>. QED  BY <1>1, <1>5, <1>7, <1>8, <3>1, <3>2, <3>3, <3>4 DEF ReplacePcs, CutPcs
  <2>. QED  BY <1>16, <2>1, <2>2 DEF CreateZone, CreateStep
<1>17. CASE WaitZone(i) \/ WaitPropagated(i) \/ GetNet(i)
  <2>1. sub' = sub /\ job[i].pc \in CutPcs /\ Entry(i)' = Entry(i) /\ job'[i].pc \notin ReplacePcs
    BY <1>3, <1>17 DEF WaitZone, WaitPropagated, GetNet, WaitStep, At, CutPcs, ReplacePcs
  <2>. QED  BY <1>1, <1>5, <1>7, <1>8, <1>9, <1>11, <2>1
<1>18. CASE CreateNet(i)
  <2>1. CASE sub' = sub /\ Goto(i, "failed")
    BY <1>3, <1>5, <1>6, <1>8, <1>11, <2>1 DEF ReplacePcs, CutPcs
  <2>2. CASE sub' = [sub EXCEPT ![Key("zonal", i)] = NewSub(Entry(i).cidr)] /\ Goto(i, "net_wait")
    <3>1. job'[i].pc = "net_wait"
      BY <1>3, <2>2
    <3>2. g(e) # None /\ g(e).cidr = Entry(i).cidr
      BY <1>9, <1>18 DEF CreateNet, CreateStep, At, CutPcs
    <3>3. \A z \in Zones : o(z)' = (IF z = e THEN NewSub(Entry(i).cidr) ELSE o(z)) /\ g(z)' = g(z)
      BY <1>1, <1>2, <2>2
    <3>4. NewSub(Entry(i).cidr).cidr = Entry(i).cidr
      BY <1>1, NewSubIs
    <3>. QED  BY <1>5, <1>6, <1>8, <3>1, <3>2, <3>3, <3>4 DEF ReplacePcs, CutPcs
  <2>. QED  BY <1>18, <2>1, <2>2 DEF CreateNet, CreateStep
<1>19. CASE DelProp(i)
  <2>1. /\ sub' = [sub EXCEPT ![Key("propagated", i)] = None]
        /\ job[i].pc \in ReplacePcs /\ Entry(i)' = Entry(i) /\ job'[i].pc = "del_global"
    BY <1>3, <1>10, <1>19 DEF DelProp, DeleteStep, At, ReplacePcs
  <2>2. \A z \in Zones : o(z)' = o(z) /\ g(z)' = g(z)
    BY <1>1, <1>2, <2>1
  <2>. QED  BY <1>1, <1>5, <1>7, <1>8, <1>9, <2>1, <2>2 DEF CutPcs
<1>. QED  BY <1>12, <1>13, <1>14, <1>15, <1>16, <1>17, <1>18, <1>19 DEF SubnetTask

(* Nor does any other step.                                                 *)
LEMMA CutNext == TypeOK /\ OwnershipInv /\ LiveInv /\ CutInv /\ [Next]_vars => CutInv'
<1>. SUFFICES ASSUME TypeOK, OwnershipInv, LiveInv, CutInv, [Next]_vars, ~Finalizers,
                     NEW n \in Names, Quiet(n)'
              PROVE  /\ (\A z \in Zones : Cut(n, z))'
                     /\ \A i \in Infra : NameOf[i] = n => JobCuts(i)'
  BY DEF CutInv
<1>1. Quiet(n) /\ (~Sole(n) => StableRoot /\ trespassers = {} /\ Calm(n))
  <2>1. CASE Sole(n)
    BY <2>1 DEF Quiet
  <2>2. CASE ~Sole(n)
    <3>1. StableRoot /\ trespassers' = {} /\ Calm(n)'
      BY <2>2 DEF Quiet, Sole, StableRoot
    <3>2. trespassers = {} /\ Calm(n)
      BY <3>1, NoTrespasserBefore, PhaseBack DEF Calm
    <3>. QED  BY <3>1, <3>2 DEF Quiet
  <2>. QED  BY <2>1, <2>2
<1>2. (\A z \in Zones : Cut(n, z)) /\ \A i \in Infra : NameOf[i] = n => JobCuts(i)
  BY <1>1 DEF CutInv
<1>3. CASE \A i \in Infra : NameOf[i] = n => ~SubnetTask(i)
  <2>1. NodesAge(n)
    BY <1>3, OthersAge
  <2>2. ASSUME NEW z \in Zones, NEW k \in NodeKinds PROVE Kept(Net(k, n, z), Net(k, n, z)')
    <3>1. <<k, n, z>> \in SubKeys
      BY NodeType
    <3>2. Net(k, n, z) # None => Net(k, n, z).life = "live"
      BY <3>1 DEF LiveInv, Net
    <3>. QED  BY <2>1, <3>2 DEF NodesAge, Aged
  <2>3. "zonal" \in NodeKinds /\ "global" \in NodeKinds
    BY DEF NodeKinds
  <2>4. ASSUME NEW z \in Zones PROVE Cut(n, z)'
    <3>1. Kept(Net("zonal", n, z), Net("zonal", n, z)') /\ Kept(Net("global", n, z), Net("global", n, z)')
      BY <2>2, <2>3
    <3>. QED  BY <1>2, <3>1 DEF Cut, Kept, Net
  <2>5. ASSUME NEW i \in Infra, NameOf[i] = n, job'[i].op # "none" PROVE JobCuts(i)'
    <3>1. CASE job'[i].pc \notin ReplacePcs \cup CutPcs
      BY <3>1 DEF JobCuts
    <3>2. CASE job'[i].pc \in ReplacePcs \cup CutPcs
      <4>1. job[i].op # "none" /\ job'[i].pc = job[i].pc /\ Entry(i)' = Entry(i)
        BY <1>3, <2>5, <3>2, OtherJobs DEF ReplacePcs, CutPcs, Entry
      <4>2. Entry(i).name \in Zones
        BY <4>1, ZoneNames DEF Entry
      <4>. DEFINE o == Net("zonal", n, Entry(i).name)  g == Net("global", n, Entry(i).name)
      <4>3. Kept(o, o') /\ Kept(g, g')
        BY <2>2, <2>3, <4>1, <4>2 DEF Net
      <4>4. /\ job[i].pc \in ReplacePcs => o = None
            /\ job[i].pc \in CutPcs => g # None /\ g.cidr = Entry(i).cidr
        BY <1>2, <2>5, <4>1 DEF JobCuts
      <4>5. /\ job'[i].pc \in ReplacePcs => o' = None
            /\ job'[i].pc \in CutPcs => g' # None /\ g'.cidr = Entry(i)'.cidr
        BY <4>1, <4>3, <4>4 DEF Kept
      <4>. QED  BY <2>5, <4>1, <4>5 DEF JobCuts
    <3>. QED  BY <3>1, <3>2
  <2>6. ASSUME NEW i \in Infra, NameOf[i] = n PROVE JobCuts(i)'
    BY <2>5, <2>6 DEF JobCuts
  <2>. QED  BY <2>4, <2>6
<1>4. ASSUME NEW i \in Infra, NameOf[i] = n, SubnetTask(i)
      PROVE  /\ (\A z \in Zones : Cut(n, z))'
             /\ \A j \in Infra : NameOf[j] = n => JobCuts(j)'
  <2>1. (\A z \in Zones : Cut(n, z))' /\ JobCuts(i)'
    BY <1>2, <1>4, CutTask
  <2>2. ASSUME NEW j \in Infra, NameOf[j] = n, j # i PROVE JobCuts(j)'
    <3>1. StableRoot /\ trespassers = {} /\ Calm(n)
      BY <1>1, <1>4, <2>2 DEF Sole
    <3>2. \A k \in Infra : ShootInv(k)
      BY <3>1 DEF OwnershipInv
    <3>3. job'[j] = job[j] /\ job[i].op = "reconcile" /\ job[i].pc \notin DeletePcs
      BY <1>4, <2>2, <3>1, <3>2, SubnetTouch, CalmJob
    <3>4. CASE job[j].op = "none" \/ job[j].pc \notin ReplacePcs \cup CutPcs
      BY <3>3, <3>4 DEF JobCuts
    <3>5. CASE job[j].op # "none" /\ job[j].pc \in ReplacePcs \cup CutPcs
      <4>1. job[j].op = "reconcile" /\ job[j].pc \notin DeletePcs
        <5>1. job[j].op \in {"reconcile", "delete"}
          BY <3>5 DEF TypeOK, JobObj
        <5>2. JobInv(j) /\ cr[j].phase \in {"none", "live", "migrated"}
          BY <2>2, <3>1, <3>2 DEF ShootInv, Calm
        <5>. QED  BY <5>1, <5>2 DEF JobInv
      <4>2. Root(j).owner = j
        BY <3>2, <3>5, <4>1 DEF ShootInv, JobInv, ReplacePcs, CutPcs, OwnershipChecked, DeletePcs
      <4>3. job[i].pc \notin OwnershipChecked
        BY <1>4, <2>2, <3>2, <3>3, <4>2 DEF ShootInv, JobInv, Root
      <4>4. sub' = sub
        BY <1>4, <3>3, <4>3 DEF SubnetTask, GetRoot, AdoptRoot, CreateRoot, WaitRoot, GetZone, DeleteZoneNet,
           DeleteZone, CreateZone, WaitZone, WaitPropagated, GetNet, CreateNet, WaitNet, DelNet, DelProp,
           DelGlobal, DelRoot, DeleteStep, CreateStep, WaitStep, At, OwnershipChecked, DeletePcs
      <4>5. JobCuts(j)
        BY <1>2, <2>2
      <4>. QED  BY <3>3, <4>4, <4>5 DEF JobCuts, Net, Entry
    <3>. QED  BY <3>4, <3>5
  <2>. QED  BY <2>1, <2>2
<1>. QED  BY <1>3, <1>4

(* A shoot from before has the pair of the same CIDR in every zone.          *)
LEMMA CutInit == Init => CutInv
<1>1. ASSUME Init, NEW i \in Infra PROVE JobCuts(i)
  BY <1>1 DEF Init, Idle, JobCuts
<1>2. ASSUME Init, NEW n \in Names, NEW z \in Zones PROVE Cut(n, z)
  <2>1. <<"zonal", n, z>> \in SubKeys /\ <<"global", n, z>> \in SubKeys
    BY DEF SubKeys, SubnetKinds
  <2>2. PICK c \in [Legacy -> AllConfigs] : sub = [key \in SubKeys |->
         IF /\ key[1] \in SubnetKinds
            /\ \E j \in Legacy : NameOf[j] = key[2] /\ key[3] \in ZonesOf(c[j])
         THEN LegacySub(c[LegacyAt(key[2])], key[3]) ELSE None]
    BY <1>2 DEF Init
  <2>3. Net("zonal", n, z) = Net("global", n, z)
    BY <2>1, <2>2 DEF Net, SubnetKinds
  <2>. QED  BY <2>3 DEF Cut
<1>. QED  BY <1>1, <1>2 DEF CutInv

(* Without lingering deletions, a z- subnet never stands beside a global     *)
(* subnet of another CIDR: whatever specs are written and however often,    *)
(* for a shoot that has its name for itself; for several of a name as long  *)
(* as none is deleted and the check of the owner holds.                     *)
THEOREM CutWhereNothingLingers == Spec => [](~Finalizers => \A n \in Names : Quiet(n) => ZonalMatches(n))
<1>1. TypeOK /\ OwnershipInv /\ NetworkInv /\ CutInv /\ [Next]_vars => CutInv'
  BY CutNext DEF NetworkInv
<1>2. CutInv => (~Finalizers => \A n \in Names : Quiet(n) => ZonalMatches(n))
  BY DEF CutInv, Cut, Net, ZonalMatches
<1>. QED  BY <1>1, <1>2, CutInit, NetworkHolds, PTL DEF Spec

---------------------------------------------------------------------------
(* The same where subnets linger *)

(* Where deleted subnets linger, or take their finalizers' time, a shoot that *)
(* has its name for itself and whose spec changes once at most still never   *)
(* has a live z- subnet beside a live global subnet of another CIDR.         *)
Standing(o) == o # None /\ o.life = "live"
Gives(c, z, x) == \E k \in 1..Len(c.zones) : c.zones[k].name = z /\ c.zones[k].cidr = x

(* A live z- subnet whose global subnet is gone or going is one the spec      *)
(* asks for, so that the global subnet to come will be of its CIDR.          *)
Replaceable(i, z) == LET o == Net("zonal", NameOf[i], z)
                         g == Net("global", NameOf[i], z) IN
  Standing(o) => IF Standing(g) THEN g.cidr = o.cidr ELSE Gives(cr[i].spec, z, o.cidr)
JobReplaces(i) == job[i].op # "none" =>
  LET o == Net("zonal", NameOf[i], Entry(i).name)
      g == Net("global", NameOf[i], Entry(i).name) IN
  /\ job[i].pc \in {"zone_delglobal", "del_prop", "del_global"} => ~Standing(o)
  /\ job[i].pc = "zone_create" => (Standing(o) => o.cidr = Entry(i).cidr)
  /\ job[i].pc \in CutPcs => (Standing(g) => g.cidr = Entry(i).cidr)

(* Until a reconcile of the changed spec begins, all stands as the first      *)
(* spec has it, and nothing has been deleted.                               *)
Working(i) == IF job[i].op = "none" THEN cr[i].spec ELSE job[i].snap
Untouched(i) == \/ updates = 0 /\ (cr[i].phase = "live" \/ job[i].op = "reconcile")
                \/ job[i].op = "reconcile" /\ job[i].snap # cr[i].spec
FirstBuilt(c, i) ==
  /\ Root(i) # None => Root(i).key = c.root
  /\ \A z \in Zones :
       /\ \A k \in NodeKinds : LET o == Net(k, NameOf[i], z) IN
            o # None => o.life = "live" /\ Gives(c, z, o.cidr)
       /\ Net("zonal", NameOf[i], z) # None => Net("global", NameOf[i], z) # None
JobFirst(i) == job[i].op # "none" =>
  /\ job[i].pc \notin DeletePcs \cup {"zone_delnet", "zone_delglobal"}
  /\ job[i].pc \in CutPcs => Net("global", NameOf[i], Entry(i).name) # None

OnceInv(i) ==
  /\ \A z \in Zones : Replaceable(i, z)
  /\ JobReplaces(i)
  /\ job[i].op # "none" /\ job[i].snap # cr[i].spec => job[i].op = "reconcile" /\ updates # 0
  /\ Untouched(i) => FirstBuilt(Working(i), i) /\ JobFirst(i)
  /\ cr[i].phase = "none" =>
       Root(i) = None /\ \A z \in Zones, k \in NodeKinds : Net(k, NameOf[i], z) = None
ReplacedInv == \A i \in Infra : Sole(NameOf[i]) /\ Distinct(i) /\ updates <= 1 => OnceInv(i)

(* Where a job goes on, it works on what it worked on.                       *)
LEMMA TaskMoves ==
  ASSUME TypeOK, NEW i \in Infra, job[i].op # "none"
  PROVE  /\ Entry(i).name \in Zones
         /\ \A p : Goto(i, p) => /\ job'[i].op = job[i].op /\ job'[i].snap = job[i].snap
                                 /\ job'[i].pc = p /\ Entry(i)' = Entry(i)
         /\ \A p, k : GotoZone(i, p, k) => /\ job'[i].op = job[i].op /\ job'[i].snap = job[i].snap
                                           /\ job'[i].pc = p
<1>1. job[i] \in JobObj /\ job \in [Infra -> JobObj]
  BY DEF TypeOK
<1>2. Entry(i).name \in Zones
  BY ZoneNames DEF Entry
<1>. QED  BY <1>1, <1>2 DEF Goto, GotoZone, JobObj, Entry

(* So does every step of the subnet task, and it leaves the resource alone.  *)
LEMMA TaskKeeps ==
  ASSUME TypeOK, NEW i \in Infra, SubnetTask(i)
  PROVE  /\ job[i].op # "none" /\ job'[i].op = job[i].op /\ job'[i].snap = job[i].snap
         /\ cr' = cr /\ updates' = updates
<1>1. job[i].op # "none" /\ cr' = cr
  BY SubnetTouch
<1>2. updates' = updates /\ \E p, k : Goto(i, p) \/ GotoZone(i, p, k)
  BY DEF SubnetTask, GetRoot, AdoptRoot, CreateRoot, WaitRoot, GetZone, DeleteZoneNet, DeleteZone,
     CreateZone, WaitZone, WaitPropagated, GetNet, CreateNet, WaitNet, DelNet, DelProp, DelGlobal, DelRoot,
     DeleteStep, CreateStep, WaitStep, SameOrRecreate
<1>. QED  BY <1>1, <1>2, TaskMoves

(* The configuration gives the zone of an entry no other CIDR than its own.   *)
LEMMA GivesEntry ==
  ASSUME TypeOK, NEW i \in Infra, job[i].op # "none", Distinct(i)
  PROVE  /\ \A x : Gives(job[i].snap, Entry(i).name, x) <=> x = Entry(i).cidr
         /\ \A c \in Configs[i] : \A z, x, y : Gives(c, z, x) /\ Gives(c, z, y) => x = y
<1>1. job[i].snap \in Configs[i] /\ job[i].zi \in 1..Len(job[i].snap.zones)
  BY DEF TypeOK
<1>. QED  BY <1>1 DEF Distinct, Gives, Entry

(* What the first spec has built is of the first spec's CIDRs throughout,   *)
(* between the steps of its job too.                                        *)
LEMMA FirstReplaceable ==
  ASSUME NEW i \in Infra, Distinct(i), NEW c \in Configs[i], FirstBuilt(c, i)
  PROVE  \A z \in Zones : Replaceable(i, z)
<1>. SUFFICES ASSUME NEW z \in Zones PROVE Replaceable(i, z)
  OBVIOUS
<1>1. "zonal" \in NodeKinds /\ "global" \in NodeKinds
  BY DEF NodeKinds
<1>2. \A x, y : Gives(c, z, x) /\ Gives(c, z, y) => x = y
  BY DEF Distinct, Gives
<1>. DEFINE o == Net("zonal", NameOf[i], z)  g == Net("global", NameOf[i], z)
<1>3. /\ o # None => o.life = "live" /\ Gives(c, z, o.cidr) /\ g # None
      /\ g # None => g.life = "live" /\ Gives(c, z, g.cidr)
  BY <1>1 DEF FirstBuilt
<1>. HIDE DEF o, g
<1>4. Standing(o) => Standing(g) /\ g.cidr = o.cidr
  BY <1>2, <1>3 DEF Standing
<1>. QED  BY <1>4 DEF Replaceable, o, g

(* So is what the job of the first spec is about to build on.               *)
LEMMA FirstJobReplaces ==
  ASSUME TypeOK, NEW i \in Infra, Distinct(i), job[i].op # "none",
         FirstBuilt(job[i].snap, i), JobFirst(i)
  PROVE  JobReplaces(i)
<1>1. "zonal" \in NodeKinds /\ "global" \in NodeKinds /\ Entry(i).name \in Zones
  BY TaskMoves DEF NodeKinds
<1>. DEFINE o == Net("zonal", NameOf[i], Entry(i).name)  g == Net("global", NameOf[i], Entry(i).name)
<1>2. /\ o # None => Gives(job[i].snap, Entry(i).name, o.cidr)
      /\ g # None => Gives(job[i].snap, Entry(i).name, g.cidr)
  BY <1>1 DEF FirstBuilt
<1>3. /\ o # None => o.cidr = Entry(i).cidr
      /\ g # None => g.cidr = Entry(i).cidr
  BY <1>2, GivesEntry
<1>4. job[i].pc \notin {"zone_delglobal", "del_prop", "del_global"}
  BY DEF JobFirst, DeletePcs
<1>. QED  BY <1>3, <1>4 DEF JobReplaces, Standing

(* The steps of the first reconciles build and tear nothing down.            *)
LEMMA FirstTask ==
  ASSUME TypeOK, NEW i \in Infra, SubnetTask(i), Distinct(i),
         NEW c, c = job[i].snap, FirstBuilt(c, i), JobFirst(i)
  PROVE  FirstBuilt(c, i)' /\ JobFirst(i)'
<1>. DEFINE n == NameOf[i]  e == Entry(i).name
            o(z) == Net("zonal", n, z)  g(z) == Net("global", n, z)
            Built(z, a, b) == /\ a # None => a.life = "live" /\ Gives(c, z, a.cidr) /\ b # None
                              /\ b # None => b.life = "live" /\ Gives(c, z, b.cidr)
            SameKey == Root(i)' # None => Root(i)'.key = c.root
<1>1. /\ job[i].op # "none" /\ e \in Zones /\ job'[i].op = job[i].op
      /\ "zonal" \in SubnetKinds \cap NodeKinds /\ "global" \in SubnetKinds \cap NodeKinds
      /\ NodeKinds = {"zonal", "global"}
  BY TaskKeeps, TaskMoves DEF SubnetKinds, NodeKinds
<1>2. ASSUME NEW k \in SubnetKinds, NEW p, sub' = [sub EXCEPT ![Key(k, i)] = p], NEW z \in Zones
      PROVE  /\ o(z)' = IF "zonal" = k /\ z = e THEN p ELSE o(z)
             /\ g(z)' = IF "global" = k /\ z = e THEN p ELSE g(z)
  BY <1>1, <1>2, NetWrites
<1>3. ASSUME NEW p, Goto(i, p) PROVE job'[i].pc = p /\ Entry(i)' = Entry(i)
  BY <1>1, <1>3, TaskMoves
<1>4. ASSUME NEW p, NEW k, GotoZone(i, p, k) PROVE job'[i].pc = p
  BY <1>1, <1>4, TaskMoves
<1>5. \A z \in Zones : Built(z, o(z), g(z))
  BY <1>1 DEF FirstBuilt
<1>6. ASSUME \A z \in Zones : Built(z, o(z)', g(z)'), SameKey PROVE FirstBuilt(c, i)'
  <2>1. ASSUME NEW z \in Zones
        PROVE  /\ \A k \in NodeKinds : sub'[<<k, n, z>>] # None =>
                    sub'[<<k, n, z>>].life = "live" /\ Gives(c, z, sub'[<<k, n, z>>].cidr)
               /\ sub'[<<"zonal", n, z>>] # None => sub'[<<"global", n, z>>] # None
    <3>1. Built(z, sub'[<<"zonal", n, z>>], sub'[<<"global", n, z>>])
      BY <1>6 DEF Net
    <3>2. \A k \in NodeKinds : k = "zonal" \/ k = "global"
      BY <1>1
    <3>. QED  BY <3>1, <3>2, Zenon
  <2>. QED  BY <1>6, <2>1 DEF FirstBuilt, Net, Gives
<1>7. \A x : Gives(c, e, x) <=> x = Entry(i).cidr
  BY <1>1, GivesEntry
<1>8. (Root(i) # None => Root(i).key = c.root) /\ root \in [Names -> RootObj \cup {None}] /\ n \in Names
  BY NamesAssumption DEF FirstBuilt, TypeOK
<1>9. /\ job[i].pc \notin DeletePcs \cup {"zone_delnet", "zone_delglobal"}
      /\ job[i].pc \in CutPcs => g(e) # None
  BY <1>1 DEF JobFirst
<1>10. ASSUME job'[i].pc \notin DeletePcs \cup CutPcs \cup {"zone_delnet", "zone_delglobal"} PROVE JobFirst(i)'
  BY <1>10 DEF JobFirst
<1>11. ASSUME job'[i].pc \in CutPcs, Entry(i)' = Entry(i), g(e)' # None PROVE JobFirst(i)'
  BY <1>11 DEF JobFirst, CutPcs, DeletePcs, Net
<1>12. UNCHANGED sub => \A z \in Zones : o(z)' = o(z) /\ g(z)' = g(z) /\ Built(z, o(z)', g(z)')
  BY <1>1, <1>5 DEF Net
<1>13. sub[Key("zonal", i)] = o(e) /\ sub[Key("global", i)] = g(e)
  BY DEF Key, Net
<1>14. UNCHANGED root => SameKey
  BY <1>8 DEF Root
<1>. HIDE DEF o, g
<1>16. CASE GetRoot(i) \/ WaitRoot(i) \/ WaitNet(i)
  <2>1. sub' = sub /\ root' = root
    BY <1>16 DEF GetRoot, WaitRoot, WaitNet
  <2>2. job'[i].pc \notin DeletePcs \cup CutPcs \cup {"zone_delnet", "zone_delglobal"}
    BY <1>3, <1>4, <1>8, <1>16 DEF GetRoot, WaitRoot, WaitNet, SameOrRecreate, DeletePcs, CutPcs
  <2>. QED  BY <1>6, <1>10, <1>12, <1>14, <2>1, <2>2
<1>17. CASE AdoptRoot(i) \/ CreateRoot(i)
  <2>1. sub' = sub /\ job'[i].pc \notin DeletePcs \cup CutPcs \cup {"zone_delnet", "zone_delglobal"}
    BY <1>3, <1>4, <1>8, <1>17 DEF AdoptRoot, CreateRoot, SameOrRecreate, DeletePcs, CutPcs
  <2>2. SameKey
    <3>1. CASE AdoptRoot(i)
      <4>1. CASE Root(i) = None
        BY <1>14, <3>1, <4>1 DEF AdoptRoot
      <4>2. CASE Root(i) # None
        <5>1. Root(i) \in RootObj /\ Root(i)' = [Root(i) EXCEPT !.owner = i]
          BY <1>8, <3>1, <4>2 DEF AdoptRoot, Root
        <5>. QED  BY <1>8, <4>2, <5>1 DEF RootObj
      <4>. QED  BY <4>1, <4>2
    <3>2. CASE CreateRoot(i)
      BY <1>8, <1>14, <3>2 DEF CreateRoot, Root
    <3>. QED  BY <1>17, <3>1, <3>2
  <2>. QED  BY <1>6, <1>10, <1>12, <2>1, <2>2
<1>18. CASE GetZone(i)
  <2>1. /\ sub' = sub /\ root' = root /\ Entry(i)' = Entry(i)
        /\ \/ job'[i].pc = "zone_create"
           \/ g(e) # None /\ g(e).cidr = Entry(i).cidr /\ job'[i].pc = "zone_wait"
           \/ g(e) # None /\ g(e).cidr # Entry(i).cidr
    BY <1>3, <1>13, <1>18 DEF GetZone
  <2>2. job'[i].pc = "zone_create" \/ (g(e) # None /\ job'[i].pc = "zone_wait")
    BY <1>1, <1>5, <1>7, <2>1
  <2>3. JobFirst(i)'
    BY <1>1, <1>10, <1>11, <1>12, <2>1, <2>2 DEF DeletePcs, CutPcs
  <2>. QED  BY <1>6, <1>12, <1>14, <2>1, <2>3
<1>19. CASE CreateZone(i) \/ CreateNet(i)
  <2>1. root' = root
    BY <1>19 DEF CreateZone, CreateNet, CreateStep
  <2>2. CASE sub' = sub /\ Goto(i, "failed")
    BY <1>3, <1>6, <1>10, <1>12, <1>14, <2>1, <2>2 DEF DeletePcs, CutPcs
  <2>. DEFINE p == NewSub(Entry(i).cidr)
  <2>3. p # None /\ p.life = "live" /\ p.cidr = Entry(i).cidr
    BY <1>1, NewSubIs
  <2>4. CASE sub' = [sub EXCEPT ![Key("global", i)] = p] /\ Goto(i, "zone_wait")
    <3>. HIDE DEF p
    <3>1. \A z \in Zones : g(z)' = (IF z = e THEN p ELSE g(z)) /\ o(z)' = o(z)
      BY <1>1, <1>2, <2>4
    <3>2. \A z \in Zones : Built(z, o(z)', g(z)')
      BY <1>5, <1>7, <2>3, <3>1
    <3>3. JobFirst(i)'
      BY <1>1, <1>3, <1>11, <2>3, <2>4, <3>1 DEF CutPcs
    <3>. QED  BY <1>6, <1>14, <2>1, <3>2, <3>3
  <2>5. CASE CreateNet(i) /\ sub' = [sub EXCEPT ![Key("zonal", i)] = p] /\ Goto(i, "net_wait")
    <3>1. g(e) # None
      BY <1>9, <2>5 DEF CreateNet, CreateStep, At, CutPcs
    <3>. HIDE DEF p
    <3>2. \A z \in Zones : o(z)' = (IF z = e THEN p ELSE o(z)) /\ g(z)' = g(z)
      BY <1>1, <1>2, <2>5
    <3>3. \A z \in Zones : Built(z, o(z)', g(z)')
      BY <1>5, <1>7, <2>3, <3>1, <3>2
    <3>4. JobFirst(i)'
      BY <1>3, <1>10, <2>5 DEF DeletePcs, CutPcs
    <3>. QED  BY <1>6, <1>14, <2>1, <3>3, <3>4
  <2>. QED  BY <1>19, <2>2, <2>4, <2>5 DEF CreateZone, CreateNet, CreateStep
<1>20. CASE WaitZone(i) \/ WaitPropagated(i) \/ GetNet(i)
  <2>1. sub' = sub /\ root' = root /\ job[i].pc \in CutPcs /\ Entry(i)' = Entry(i)
        /\ job'[i].pc \in CutPcs \cup {"failed", "net_wait"}
    BY <1>3, <1>20 DEF WaitZone, WaitPropagated, GetNet, WaitStep, At, CutPcs
  <2>2. JobFirst(i)'
    BY <1>1, <1>9, <1>10, <1>11, <1>12, <2>1 DEF DeletePcs, CutPcs
  <2>. QED  BY <1>6, <1>12, <1>14, <2>1, <2>2
<1>21. ~(DeleteZoneNet(i) \/ DeleteZone(i) \/ DelNet(i) \/ DelProp(i) \/ DelGlobal(i) \/ DelRoot(i))
  BY <1>9 DEF DeleteZoneNet, DeleteZone, DelNet, DelProp, DelGlobal, DelRoot, DeleteStep, At, DeletePcs
<1>. QED  BY <1>16, <1>17, <1>18, <1>19, <1>20, <1>21 DEF SubnetTask

(* Nor do the steps of a reconcile or a Delete that works on the spec as it   *)
(* is leave a live z- subnet where the CIDR is to be another.               *)
LEMMA ReplaceTask ==
  ASSUME TypeOK, NEW i \in Infra, SubnetTask(i), Distinct(i), job[i].snap = cr[i].spec,
         \A z \in Zones : Replaceable(i, z), JobReplaces(i)
  PROVE  (\A z \in Zones : Replaceable(i, z))' /\ JobReplaces(i)'
<1>. DEFINE n == NameOf[i]  e == Entry(i).name  c == cr[i].spec
            o(z) == Net("zonal", n, z)  g(z) == Net("global", n, z)
            Fine(z, a, b) == Standing(a) => IF Standing(b) THEN b.cidr = a.cidr ELSE Gives(c, z, a.cidr)
            Mid == {"zone_delglobal", "del_prop", "del_global"}
            Claims == Mid \cup CutPcs \cup {"zone_create"}
<1>1. /\ job[i].op # "none" /\ e \in Zones /\ cr' = cr
      /\ "zonal" \in SubnetKinds \cap NodeKinds /\ "global" \in SubnetKinds \cap NodeKinds
      /\ "propagated" \in SubnetKinds \ NodeKinds
  BY TaskKeeps, TaskMoves DEF SubnetKinds, NodeKinds
<1>2. ASSUME NEW k \in SubnetKinds, NEW p, sub' = [sub EXCEPT ![Key(k, i)] = p], NEW z \in Zones
      PROVE  /\ o(z)' = IF "zonal" = k /\ z = e THEN p ELSE o(z)
             /\ g(z)' = IF "global" = k /\ z = e THEN p ELSE g(z)
  BY <1>1, <1>2, NetWrites
<1>3. ASSUME NEW p, Goto(i, p) PROVE job'[i].pc = p /\ Entry(i)' = Entry(i)
  BY <1>1, <1>3, TaskMoves
<1>4. ASSUME NEW p, NEW k, GotoZone(i, p, k) PROVE job'[i].pc = p
  BY <1>1, <1>4, TaskMoves
<1>5. \A z \in Zones : Fine(z, o(z), g(z))
  BY DEF Replaceable
<1>6. ASSUME \A z \in Zones : Fine(z, o(z)', g(z)') PROVE (\A z \in Zones : Replaceable(i, z))'
  BY <1>1, <1>6 DEF Replaceable, Standing, Gives, Net
<1>7. \A x : Gives(c, e, x) <=> x = Entry(i).cidr
  BY <1>1, GivesEntry
<1>8. /\ job[i].pc \in Mid => ~Standing(o(e))
      /\ job[i].pc = "zone_create" => (Standing(o(e)) => o(e).cidr = Entry(i).cidr)
      /\ job[i].pc \in CutPcs => (Standing(g(e)) => g(e).cidr = Entry(i).cidr)
  BY <1>1 DEF JobReplaces
<1>9. ASSUME job'[i].pc \notin Claims PROVE JobReplaces(i)'
  BY <1>9 DEF JobReplaces
<1>10. ASSUME Entry(i)' = Entry(i),
              job'[i].pc \in Mid => ~Standing(o(e)'),
              job'[i].pc = "zone_create" => (Standing(o(e)') => o(e)'.cidr = Entry(i).cidr),
              job'[i].pc \in CutPcs => (Standing(g(e)') => g(e)'.cidr = Entry(i).cidr)
       PROVE  JobReplaces(i)'
  BY <1>10 DEF JobReplaces, Net, CutPcs, Standing
<1>11. UNCHANGED sub => \A z \in Zones : o(z)' = o(z) /\ g(z)' = g(z)
  BY DEF Net
<1>12. /\ sub[Key("zonal", i)] = o(e) /\ sub[Key("global", i)] = g(e)
       /\ o(e) \in SubObj \cup {None} /\ g(e) \in SubObj \cup {None}
  BY <1>1, NodeType, NamesAssumption DEF Key, Net
<1>13. \A p \in SubObj \cup {None} : ~Standing(Deleted(p))
  BY DEF Standing, Deleted, SubObj
<1>. HIDE DEF o, g
<1>14. CASE GetRoot(i) \/ AdoptRoot(i) \/ CreateRoot(i) \/ WaitRoot(i) \/ WaitNet(i) \/ DelRoot(i)
  <2>1. sub' = sub
    BY <1>14 DEF GetRoot, AdoptRoot, CreateRoot, WaitRoot, WaitNet, DelRoot
  <2>2. job'[i].pc \notin Claims
    BY <1>3, <1>4, <1>14 DEF GetRoot, AdoptRoot, CreateRoot, WaitRoot, WaitNet, DelRoot, SameOrRecreate, CutPcs
  <2>. QED  BY <1>5, <1>6, <1>9, <1>11, <2>1, <2>2
<1>15. CASE GetZone(i)
  <2>1. /\ sub' = sub /\ Entry(i)' = Entry(i)
        /\ IF g(e) = None THEN job'[i].pc = "zone_create"
           ELSE IF g(e).cidr = Entry(i).cidr THEN job'[i].pc = "zone_wait" ELSE job'[i].pc = "zone_delnet"
    BY <1>3, <1>12, <1>15 DEF GetZone
  <2>2. g(e) = None /\ Standing(o(e)) => o(e).cidr = Entry(i).cidr
    BY <1>1, <1>5, <1>7 DEF Standing
  <2>3. JobReplaces(i)'
    BY <1>1, <1>10, <1>11, <2>1, <2>2 DEF CutPcs
  <2>. QED  BY <1>5, <1>6, <1>11, <2>1, <2>3
<1>16. CASE DeleteZoneNet(i) \/ DelNet(i)
  <2>. DEFINE p == Deleted(o(e))
  <2>1. /\ sub' = [sub EXCEPT ![Key("zonal", i)] = p] /\ Entry(i)' = Entry(i)
        /\ job'[i].pc \in {"zone_delglobal", "del_prop"}
    BY <1>3, <1>12, <1>16 DEF DeleteZoneNet, DelNet, DeleteStep
  <2>2. ~Standing(p)
    BY <1>12, <1>13
  <2>. HIDE DEF p
  <2>3. \A z \in Zones : o(z)' = (IF z = e THEN p ELSE o(z)) /\ g(z)' = g(z)
    BY <1>1, <1>2, <2>1
  <2>4. JobReplaces(i)'
    BY <1>1, <1>10, <2>1, <2>2, <2>3 DEF CutPcs
  <2>. QED  BY <1>5, <1>6, <2>2, <2>3, <2>4
<1>17. CASE DeleteZone(i) \/ DelGlobal(i)
  <2>. DEFINE p == Deleted(g(e))
  <2>1. sub' = [sub EXCEPT ![Key("global", i)] = p] /\ ~Standing(o(e))
    BY <1>8, <1>12, <1>17 DEF DeleteZone, DelGlobal, DeleteStep, At
  <2>2. ~Standing(p)
    BY <1>12, <1>13
  <2>. HIDE DEF p
  <2>3. \A z \in Zones : g(z)' = (IF z = e THEN p ELSE g(z)) /\ o(z)' = o(z)
    BY <1>1, <1>2, <2>1
  <2>4. \A z \in Zones : Fine(z, o(z)', g(z)')
    BY <1>5, <2>1, <2>2, <2>3
  <2>5. CASE DeleteZone(i)
    <3>1. Entry(i)' = Entry(i) /\ job'[i].pc = "zone_create"
      BY <1>3, <2>5 DEF DeleteZone, DeleteStep
    <3>. QED  BY <1>1, <1>6, <1>10, <2>1, <2>3, <2>4, <3>1 DEF CutPcs
  <2>6. CASE DelGlobal(i)
    <3>1. job'[i].pc \in {"del_root", "del_net"}
      BY <1>3, <1>4, <2>6 DEF DelGlobal
    <3>. QED  BY <1>6, <1>9, <2>4, <3>1 DEF CutPcs
  <2>. QED  BY <1>17, <2>5, <2>6
<1>18. CASE CreateZone(i) \/ CreateNet(i)
  <2>. DEFINE p == NewSub(Entry(i).cidr)
  <2>1. p # None /\ Standing(p) /\ p.cidr = Entry(i).cidr
    BY <1>1, NewSubIs DEF Standing
  <2>2. CASE sub' = sub /\ Goto(i, "failed")
    BY <1>3, <1>5, <1>6, <1>9, <1>11, <2>2 DEF CutPcs
  <2>3. CASE CreateZone(i) /\ sub' = [sub EXCEPT ![Key("global", i)] = p] /\ Goto(i, "zone_wait")
    <3>1. Standing(o(e)) => o(e).cidr = Entry(i).cidr
      BY <1>8, <2>3 DEF CreateZone, CreateStep, At
    <3>. HIDE DEF p
    <3>2. \A z \in Zones : g(z)' = (IF z = e THEN p ELSE g(z)) /\ o(z)' = o(z)
      BY <1>1, <1>2, <2>3
    <3>3. \A z \in Zones : Fine(z, o(z)', g(z)')
      BY <1>5, <2>1, <3>1, <3>2
    <3>4. JobReplaces(i)'
      BY <1>1, <1>3, <1>10, <2>1, <2>3, <3>2 DEF CutPcs
    <3>. QED  BY <1>6, <3>3, <3>4
  <2>4. CASE CreateNet(i) /\ sub' = [sub EXCEPT ![Key("zonal", i)] = p] /\ Goto(i, "net_wait")
    <3>1. Standing(g(e)) => g(e).cidr = Entry(i).cidr
      BY <1>8, <2>4 DEF CreateNet, CreateStep, At, CutPcs
    <3>. HIDE DEF p
    <3>2. \A z \in Zones : o(z)' = (IF z = e THEN p ELSE o(z)) /\ g(z)' = g(z)
      BY <1>1, <1>2, <2>4
    <3>3. \A z \in Zones : Fine(z, o(z)', g(z)')
      BY <1>5, <1>7, <2>1, <3>1, <3>2
    <3>4. JobReplaces(i)'
      BY <1>3, <1>9, <2>4 DEF CutPcs
    <3>. QED  BY <1>6, <3>3, <3>4
  <2>. QED  BY <1>18, <2>2, <2>3, <2>4 DEF CreateZone, CreateNet, CreateStep
<1>19. CASE WaitZone(i) \/ WaitPropagated(i) \/ GetNet(i)
  <2>1. /\ sub' = sub /\ job[i].pc \in CutPcs /\ Entry(i)' = Entry(i)
        /\ job'[i].pc \in CutPcs \cup {"failed", "net_wait"}
    BY <1>3, <1>19 DEF WaitZone, WaitPropagated, GetNet, WaitStep, At, CutPcs
  <2>2. JobReplaces(i)'
    BY <1>1, <1>8, <1>10, <1>11, <2>1 DEF CutPcs
  <2>. QED  BY <1>5, <1>6, <1>11, <2>1, <2>2
<1>20. CASE DelProp(i)
  <2>1. /\ sub' = [sub EXCEPT ![Key("propagated", i)] = Deleted(@)]
        /\ job[i].pc \in Mid /\ Entry(i)' = Entry(i) /\ job'[i].pc = "del_global"
    BY <1>3, <1>20 DEF DelProp, DeleteStep, At
  <2>2. PICK p : sub' = [sub EXCEPT ![Key("propagated", i)] = p]
    BY <2>1
  <2>3. \A z \in Zones : o(z)' = o(z) /\ g(z)' = g(z)
    BY <1>1, <1>2, <2>2
  <2>4. JobReplaces(i)'
    BY <1>1, <1>8, <1>10, <2>1, <2>3 DEF CutPcs
  <2>. QED  BY <1>5, <1>6, <2>3, <2>4
<1>. QED  BY <1>14, <1>15, <1>16, <1>17, <1>18, <1>19, <1>20 DEF SubnetTask

(* What the other steps do to the resource and to the count of updates.       *)
LEMMA SpecMoves ==
  ASSUME TypeOK, [Next]_vars, NEW i \in Infra, ~SubnetTask(i), Sole(NameOf[i])
  PROVE  /\ updates' = updates \/ updates' = updates + 1
         /\ \/ /\ cr'[i].spec = cr[i].spec
               /\ cr'[i].phase = cr[i].phase \/ cr'[i].phase \in {"deleting", "gone", "forced"}
            \/ \E c \in Configs[i] : CreateShoot(i, c) \/ UpdateSpec(i, c)
<1>. DEFINE Same == /\ cr'[i].spec = cr[i].spec
                    /\ cr'[i].phase = cr[i].phase \/ cr'[i].phase \in {"deleting", "gone", "forced"}
            Count == updates' = updates \/ updates' = updates + 1
<1>1. cr \in [Infra -> CrObj]
  BY DEF TypeOK
<1>2. ASSUME NEW k \in Infra, User(k)
      PROVE  Count /\ (Same \/ \E c \in Configs[i] : CreateShoot(i, c) \/ UpdateSpec(i, c))
  <2>1. ASSUME NEW c \in Configs[k], CreateShoot(k, c) \/ UpdateSpec(k, c)
        PROVE  Count /\ (Same \/ \E d \in Configs[i] : CreateShoot(i, d) \/ UpdateSpec(i, d))
    <3>1. Count
      BY <2>1 DEF CreateShoot, UpdateSpec
    <3>2. CASE k = i
      BY <2>1, <3>1, <3>2
    <3>3. CASE k # i
      BY <1>1, <2>1, <3>1, <3>3 DEF CreateShoot, UpdateSpec
    <3>. QED  BY <3>2, <3>3
  <2>2. ASSUME DeleteShoot(k) \/ ForceDelete(k) PROVE Count /\ Same
    BY <1>1, <2>2 DEF DeleteShoot, ForceDelete, CrObj
  <2>3. ASSUME NEW j \in Infra, Migrate(k, j) PROVE Count /\ Same
    <3>1. k # j /\ NameOf[k] = NameOf[j]
      BY <2>3 DEF Migrate
    <3>2. i # k /\ i # j
      BY <3>1 DEF Sole
    <3>. QED  BY <1>1, <2>3, <3>2 DEF Migrate
  <2>. QED  BY <1>2, <2>1, <2>2, <2>3 DEF User
<1>3. ASSUME NEW k \in Infra, Finish(k) PROVE Count /\ Same
  BY <1>1, <1>3 DEF Finish, CrObj
<1>4. ASSUME NEW k \in Infra, SubnetTask(k) PROVE Count /\ Same
  BY <1>4, TaskKeeps
<1>5. ASSUME NEW k \in Infra, Start(k) \/ EgressTask(k) \/ CallFails(k) PROVE Count /\ Same
  BY <1>5 DEF Start, StartReconcile, StartDelete, CallFails, EgressTask, CreateEgress,
     WaitEgress, CreateNat, WaitNat, DeleteNat, DeleteEgress, EgressCreateStep
<1>6. CASE Gdc \/ Restart \/ UNCHANGED vars
  BY <1>6 DEF Gdc, RootReady, RootVanishes, SubReady, SubVanishes, Propagate, Withdraw, Restart, vars
<1>. QED  BY <1>2, <1>3, <1>4, <1>5, <1>6 DEF Next, Controller

(* What has been built of a configuration ages in place.                     *)
LEMMA FirstAges ==
  ASSUME TypeOK, [Next]_vars, NEW i \in Infra, ~SubnetTask(i), Sole(NameOf[i]), NEW c, FirstBuilt(c, i)
  PROVE  FirstBuilt(c, i)'
<1>. DEFINE n == NameOf[i]
<1>1. n \in Names /\ \A j \in Infra : NameOf[j] = n => ~SubnetTask(j)
  BY NamesAssumption DEF Sole
<1>2. NodesAge(n)
  BY <1>1, OthersAge
<1>3. root'[n] # None => root'[n] = root[n] \/ (root[n] # None /\ root'[n].key = root[n].key)
  BY <1>1, RootsAge
<1>4. (Root(i) # None => Root(i).key = c.root)'
  BY <1>3 DEF FirstBuilt, Root
<1>5. ASSUME NEW z \in Zones
      PROVE  /\ \A k \in NodeKinds : Net(k, n, z)' # None =>
                  Net(k, n, z)'.life = "live" /\ Gives(c, z, Net(k, n, z)'.cidr)
             /\ Net("zonal", n, z)' # None => Net("global", n, z)' # None
  <2>1. ASSUME NEW k \in NodeKinds
        PROVE  /\ Net(k, n, z)' # None => /\ Net(k, n, z) # None /\ Net(k, n, z)'.life = "live"
                                          /\ Gives(c, z, Net(k, n, z)'.cidr)
               /\ Net(k, n, z) # None => Net(k, n, z)' # None
    <3>. DEFINE o == Net(k, n, z)
    <3>1. Aged(o, o') /\ (o # None => o.life = "live" /\ Gives(c, z, o.cidr))
      BY <1>2 DEF NodesAge, FirstBuilt
    <3>2. /\ o' # None => o # None /\ o'.life = "live" /\ o'.cidr = o.cidr
          /\ o # None => o' # None
      BY <3>1 DEF Aged, Kept
    <3>. QED  BY <3>1, <3>2
  <2>2. "zonal" \in NodeKinds /\ "global" \in NodeKinds
    BY DEF NodeKinds
  <2>3. Net("zonal", n, z) # None => Net("global", n, z) # None
    BY DEF FirstBuilt
  <2>. QED  BY <2>1, <2>2, <2>3
<1>. QED  BY <1>4, <1>5 DEF FirstBuilt, Net, Gives

(* Standing subnets come from standing ones.                                *)
LEMMA StandingAges ==
  ASSUME NEW o, NEW p, Aged(o, p)
  PROVE  (Standing(p) <=> Standing(o)) /\ (Standing(p) => p.cidr = o.cidr)
BY DEF Aged, Kept, Standing

(* What the steps of others and of the cloud leave is still replaceable.     *)
LEMMA ReplaceAges ==
  ASSUME TypeOK, [Next]_vars, NEW i \in Infra, ~SubnetTask(i), Sole(NameOf[i])
  PROVE  /\ cr'[i].spec = cr[i].spec => \A z \in Zones : Replaceable(i, z) => Replaceable(i, z)'
         /\ JobReplaces(i) => JobReplaces(i)'
         /\ Untouched(i) /\ JobFirst(i) /\ FirstBuilt(Working(i), i) => JobFirst(i)'
<1>. DEFINE n == NameOf[i]
<1>1. n \in Names /\ \A j \in Infra : NameOf[j] = n => ~SubnetTask(j)
  BY NamesAssumption DEF Sole
<1>2. NodesAge(n) /\ "zonal" \in NodeKinds /\ "global" \in NodeKinds
  BY <1>1, OthersAge DEF NodeKinds
<1>3. ASSUME NEW z \in Zones, NEW k \in NodeKinds
      PROVE  /\ Standing(Net(k, n, z)') <=> Standing(Net(k, n, z))
             /\ Standing(Net(k, n, z)') => Net(k, n, z)'.cidr = Net(k, n, z).cidr
  BY <1>2, StandingAges DEF NodesAge
<1>4. ASSUME cr'[i].spec = cr[i].spec, NEW z \in Zones, Replaceable(i, z) PROVE Replaceable(i, z)'
  <2>. DEFINE o == Net("zonal", n, z)  g == Net("global", n, z)
  <2>1. /\ Standing(o') <=> Standing(o)
        /\ Standing(o') => o'.cidr = o.cidr
        /\ Standing(g') <=> Standing(g)
        /\ Standing(g') => g'.cidr = g.cidr
    BY <1>2, <1>3
  <2>2. Standing(o) => IF Standing(g) THEN g.cidr = o.cidr ELSE Gives(cr[i].spec, z, o.cidr)
    BY <1>4 DEF Replaceable
  <2>3. Standing(o') => IF Standing(g') THEN g'.cidr = o'.cidr ELSE Gives(cr[i].spec, z, o'.cidr)
    BY <2>1, <2>2
  <2>. QED  BY <1>4, <2>3 DEF Replaceable, Standing, Gives, Net
<1>. DEFINE Claims == {"zone_delglobal", "del_prop", "del_global", "zone_create"} \cup CutPcs
<1>5. job'[i].op = "none" \/ job'[i].pc \notin Claims
      \/ /\ job[i].op # "none" /\ job'[i].pc = job[i].pc /\ Entry(i)' = Entry(i)
         /\ Entry(i).name \in Zones
  BY OtherJobs, ZoneNames DEF CutPcs, Entry
<1>6. ASSUME JobReplaces(i) PROVE JobReplaces(i)'
  <2>1. CASE job'[i].op = "none" \/ job'[i].pc \notin Claims
    BY <2>1 DEF JobReplaces
  <2>2. CASE /\ job[i].op # "none" /\ job'[i].pc = job[i].pc /\ Entry(i)' = Entry(i)
             /\ Entry(i).name \in Zones
    <3>. DEFINE o == Net("zonal", n, Entry(i).name)  g == Net("global", n, Entry(i).name)
    <3>1. /\ Standing(o') <=> Standing(o)
          /\ Standing(o') => o'.cidr = o.cidr
          /\ Standing(g') <=> Standing(g)
          /\ Standing(g') => g'.cidr = g.cidr
      BY <1>2, <1>3, <2>2 DEF Net
    <3>2. /\ job[i].pc \in {"zone_delglobal", "del_prop", "del_global"} => ~Standing(o)
          /\ job[i].pc = "zone_create" => (Standing(o) => o.cidr = Entry(i).cidr)
          /\ job[i].pc \in CutPcs => (Standing(g) => g.cidr = Entry(i).cidr)
      BY <1>6, <2>2 DEF JobReplaces
    <3>3. /\ job'[i].pc \in {"zone_delglobal", "del_prop", "del_global"} => ~Standing(o')
          /\ job'[i].pc = "zone_create" => (Standing(o') => o'.cidr = Entry(i)'.cidr)
          /\ job'[i].pc \in CutPcs => (Standing(g') => g'.cidr = Entry(i)'.cidr)
      BY <2>2, <3>1, <3>2
    <3>. QED  BY <3>3 DEF JobReplaces, Standing, CutPcs
  <2>. QED  BY <1>5, <2>1, <2>2
<1>7. ASSUME Untouched(i), JobFirst(i), FirstBuilt(Working(i), i), job'[i].op # "none"
      PROVE  JobFirst(i)'
  <2>1. job'[i].pc \notin DeletePcs \cup {"zone_delnet", "zone_delglobal"}
    <3>1. ~StartDelete(i)
      BY <1>7 DEF StartDelete, Untouched
    <3>2. job[i].op # "none" => job[i].pc \notin DeletePcs \cup {"zone_delnet", "zone_delglobal"}
      BY <1>7 DEF JobFirst
    <3>. QED  BY <1>7, <3>1, <3>2, OtherJobs DEF DeletePcs
  <2>2. ASSUME job'[i].pc \in CutPcs PROVE Net("global", NameOf[i], Entry(i).name)' # None
    <3>. DEFINE g == Net("global", n, Entry(i).name)
    <3>1. /\ job[i].op # "none" /\ job'[i].pc = job[i].pc /\ Entry(i)' = Entry(i)
          /\ Entry(i).name \in Zones
      BY <1>5, <1>7, <2>2
    <3>2. g # None /\ g.life = "live"
      BY <1>2, <1>7, <2>2, <3>1 DEF JobFirst, FirstBuilt
    <3>3. Aged(g, g')
      BY <1>2, <3>1 DEF NodesAge, Net
    <3>. QED  BY <3>2, <3>3 DEF Aged, Kept
  <2>. QED  BY <2>1, <2>2 DEF JobFirst
<1>8. job'[i].op = "none" => JobFirst(i)'
  BY DEF JobFirst
<1>. QED  BY <1>4, <1>6, <1>7, <1>8

(* What the first spec has built serves in every state,                       *)
LEMMA FirstBuiltServes ==
  /\ \A i \in Infra : \A c \in Configs[i] :
       Distinct(i) /\ FirstBuilt(c, i) => \A z \in Zones : Replaceable(i, z)
  /\ \A i \in Infra :
       TypeOK /\ Distinct(i) /\ job[i].op # "none" /\ FirstBuilt(job[i].snap, i) /\ JobFirst(i)
         => JobReplaces(i)
BY FirstReplaceable, FirstJobReplaces

(* And after a step: the fact about every state, at the next one.            *)
LEMMA FirstBuiltServesNext ==
  (/\ \A i \in Infra : \A c \in Configs[i] :
        Distinct(i) /\ FirstBuilt(c, i) => \A z \in Zones : Replaceable(i, z)
   /\ \A i \in Infra :
        TypeOK /\ Distinct(i) /\ job[i].op # "none" /\ FirstBuilt(job[i].snap, i) /\ JobFirst(i)
          => JobReplaces(i))'
BY FirstBuiltServes, PTL

(* A step that is not one of the subnet task keeps the invariant.            *)
LEMMA OnceOther ==
  ASSUME TypeOK, NEW i \in Infra, OpInv(i), [Next]_vars, ~SubnetTask(i), Sole(NameOf[i]), Distinct(i),
         updates' <= 1, OnceInv(i)
  PROVE  OnceInv(i)'
<1>. DEFINE n == NameOf[i]  c == Working(i)
<1>1. /\ updates \in Nat /\ (updates' = updates \/ updates' = updates + 1)
      /\ job[i].op \in {"none", "reconcile", "delete"}
      /\ n \in Names /\ \A j \in Infra : NameOf[j] = n => ~SubnetTask(j)
  BY SpecMoves, NamesAssumption, BoundsAssumption DEF TypeOK, JobObj, Sole
<1>2. /\ Untouched(i) => FirstBuilt(c, i) /\ JobFirst(i)
      /\ job[i].op # "none" /\ job[i].snap # cr[i].spec => job[i].op = "reconcile" /\ updates # 0
      /\ JobReplaces(i) /\ \A z \in Zones : Replaceable(i, z)
  BY DEF OnceInv
<1>3. Untouched(i) => c \in Configs[i] /\ \E d : d = c /\ FirstBuilt(d, i)'
  <2>1. SUFFICES ASSUME Untouched(i) PROVE c \in Configs[i] /\ \E d : d = c /\ FirstBuilt(d, i)'
    OBVIOUS
  <2>2. c \in Configs[i]
    BY <1>1, <2>1 DEF Untouched, Working, TypeOK
  <2>3. PICK d : d = c
    OBVIOUS
  <2>4. FirstBuilt(d, i)'
    BY <1>2, <2>1, <2>3, FirstAges
  <2>. QED  BY <2>2, <2>3, <2>4
<1>4. Untouched(i) => \A z \in Zones : Replaceable(i, z)'
  <2>1. SUFFICES ASSUME Untouched(i) PROVE \A z \in Zones : Replaceable(i, z)'
    OBVIOUS
  <2>2. PICK d : d \in Configs[i] /\ FirstBuilt(d, i)'
    BY <1>3, <2>1
  <2>3. (\A z \in Zones : Replaceable(i, z))'
    BY <2>2, FirstBuiltServesNext DEF Distinct
  <2>. QED  BY <2>3
<1>5. JobReplaces(i)'
  BY <1>2, ReplaceAges
<1>. DEFINE Snap == job[i].op # "none" /\ job[i].snap # cr[i].spec => job[i].op = "reconcile" /\ updates # 0
            Empty == Root(i) = None /\ \A z \in Zones, k \in NodeKinds : Net(k, n, z) = None
<1>6. ASSUME NEW d \in Configs[i], CreateShoot(i, d) PROVE OnceInv(i)'
  <2>1. /\ cr[i].phase = "none" /\ cr'[i].phase = "live" /\ cr'[i].spec = d
        /\ job' = job /\ sub' = sub /\ root' = root /\ job[i].op = "none"
    BY <1>1, <1>6 DEF CreateShoot, OpInv, TypeOK
  <2>2. Empty'
    BY <2>1 DEF OnceInv, Root, Net
  <2>3. FirstBuilt(d, i)'
    <3>1. "zonal" \in NodeKinds
      BY DEF NodeKinds
    <3>. QED  BY <2>2, <3>1 DEF FirstBuilt
  <2>4. (\A z \in Zones : Replaceable(i, z))'
    BY <2>3, FirstBuiltServesNext DEF Distinct
  <2>5. JobReplaces(i)' /\ JobFirst(i)' /\ Snap' /\ Working(i)' = d
    BY <2>1 DEF JobReplaces, JobFirst, Working
  <2>6. cr'[i].phase # "none"
    BY <2>1
  <2>. QED  BY <2>3, <2>4, <2>5, <2>6 DEF OnceInv
<1>7. ASSUME NEW d \in Configs[i], UpdateSpec(i, d) PROVE OnceInv(i)'
  <2>1. /\ cr[i].phase = "live" /\ cr'[i].phase = "live" /\ cr'[i].spec = d /\ d # cr[i].spec
        /\ job' = job /\ updates = 0 /\ updates' = 1 /\ Untouched(i)
    BY <1>1, <1>7 DEF UpdateSpec, TypeOK, Untouched, CrObj
  <2>2. job[i].op # "none" => job[i].op = "reconcile" /\ job[i].snap = cr[i].spec
    BY <1>1, <1>2, <2>1 DEF OpInv
  <2>3. Untouched(i)' => job[i].op = "reconcile" /\ Working(i)' = c
    BY <2>1 DEF Untouched, Working
  <2>4. Untouched(i)' => FirstBuilt(Working(i), i)'
    BY <1>3, <2>1, <2>3 DEF FirstBuilt, Gives, Root, Net
  <2>5. JobFirst(i)'
    BY <1>2, <2>1, ReplaceAges
  <2>6. Snap'
    BY <2>1, <2>2
  <2>7. (\A z \in Zones : Replaceable(i, z))' /\ cr'[i].phase # "none"
    BY <1>4, <2>1
  <2>. QED  BY <1>5, <2>4, <2>5, <2>6, <2>7 DEF OnceInv
<1>8. ASSUME cr'[i].spec = cr[i].spec,
             cr'[i].phase = cr[i].phase \/ cr'[i].phase \in {"deleting", "gone", "forced"}
      PROVE  OnceInv(i)'
  <2>1. (\A z \in Zones : Replaceable(i, z))'
    BY <1>2, <1>8, ReplaceAges
  <2>2. \/ job'[i].op = "none"
        \/ StartReconcile(i) /\ job'[i].op = "reconcile"
        \/ StartDelete(i) /\ job'[i].op = "delete"
        \/ job'[i].op = job[i].op /\ job'[i].snap = job[i].snap
    BY OtherJobs
  <2>3. StartReconcile(i) \/ StartDelete(i) => job'[i].snap = cr[i].spec /\ job[i].op = "none" /\ cr' = cr
    <3>1. job \in [Infra -> JobObj]
      BY DEF TypeOK
    <3>2. CASE StartReconcile(i)
      BY <3>1, <3>2 DEF StartReconcile
    <3>3. CASE StartDelete(i)
      BY <3>1, <3>3 DEF StartDelete
    <3>. QED  BY <3>2, <3>3
  <2>4. Snap'
    BY <1>1, <1>2, <1>8, <2>2, <2>3
  <2>5. ASSUME Untouched(i)' PROVE Untouched(i) /\ Working(i)' = c
    <3>1. CASE job'[i].op = "none"
      <4>1. updates = 0 /\ cr[i].phase = "live"
        BY <1>1, <1>8, <2>5, <3>1 DEF Untouched
      <4>2. job[i].op # "none" => job[i].snap = cr[i].spec
        BY <1>2, <4>1
      <4>. QED  BY <1>8, <3>1, <4>1, <4>2 DEF Untouched, Working
    <3>2. CASE StartReconcile(i) /\ job'[i].op = "reconcile"
      <4>1. cr[i].phase = "live" /\ updates' = 0
        BY <1>8, <2>3, <2>5, <3>2 DEF StartReconcile, Untouched
      <4>. QED  BY <1>1, <1>8, <2>3, <3>2, <4>1 DEF Untouched, Working
    <3>3. CASE StartDelete(i) /\ job'[i].op = "delete"
      BY <2>3, <2>5, <3>3 DEF StartDelete, Untouched
    <3>4. CASE job'[i].op # "none" /\ job'[i].op = job[i].op /\ job'[i].snap = job[i].snap
      BY <1>1, <1>8, <2>5, <3>4 DEF Untouched, Working
    <3>. QED  BY <2>2, <3>1, <3>2, <3>3, <3>4
  <2>6. Untouched(i)' => FirstBuilt(Working(i), i)'
    BY <1>3, <2>5 DEF FirstBuilt, Gives, Root, Net
  <2>7. Untouched(i)' => JobFirst(i)'
    BY <1>2, <2>5, ReplaceAges
  <2>8. ASSUME cr'[i].phase = "none" PROVE Empty'
    <3>1. Empty
      BY <1>8, <2>8 DEF OnceInv
    <3>2. NodesAge(n)
      BY <1>1, OthersAge
    <3>3. root'[n] = None
      BY <1>1, <3>1, RootsAge DEF Root
    <3>4. \A z \in Zones, k \in NodeKinds : Net(k, n, z)' = None
      BY <3>1, <3>2 DEF NodesAge, Aged, Kept
    <3>. QED  BY <3>3, <3>4 DEF Root
  <2>. QED  BY <1>5, <2>1, <2>4, <2>6, <2>7, <2>8 DEF OnceInv
<1>. QED  BY <1>6, <1>7, <1>8, SpecMoves

(* A step of the subnet task keeps it, whichever spec the job works on.      *)
LEMMA OnceTask ==
  ASSUME TypeOK, NEW i \in Infra, OpInv(i), SubnetTask(i), Distinct(i), OnceInv(i)
  PROVE  OnceInv(i)'
<1>1. /\ job[i].op # "none" /\ job'[i].op = job[i].op /\ job'[i].snap = job[i].snap
      /\ cr' = cr /\ updates' = updates
  BY TaskKeeps
<1>2. /\ Untouched(i)' <=> Untouched(i)
      /\ Working(i) = job[i].snap /\ Working(i)' = Working(i)
  BY <1>1 DEF Untouched, Working
<1>3. job[i].op = "reconcile" \/ job[i].op = "delete"
  BY <1>1 DEF TypeOK, JobObj
<1>4. cr[i].phase # "none" /\ job[i].snap \in Configs[i]
  BY <1>1 DEF TypeOK
<1>5. CASE Untouched(i)
  <2>1. PICK c : c = job[i].snap
    OBVIOUS
  <2>2. FirstBuilt(c, i) /\ JobFirst(i)
    BY <1>2, <1>5, <2>1 DEF OnceInv
  <2>3. FirstBuilt(c, i)' /\ JobFirst(i)'
    BY <2>1, <2>2, FirstTask
  <2>4. (\A z \in Zones : Replaceable(i, z))'
    BY <1>4, <2>1, <2>3, FirstBuiltServesNext DEF Distinct
  <2>5. FirstBuilt(Working(i), i)'
    BY <1>2, <2>1, <2>3 DEF FirstBuilt, Gives, Root, Net
  <2>6. JobReplaces(i)'
    <3>1. TypeOK'
      BY TypeNext DEF Next, Controller
    <3>2. FirstBuilt(job[i].snap, i)'
      BY <1>1, <2>1, <2>3 DEF FirstBuilt, Gives, Root, Net
    <3>. QED  BY <1>1, <2>3, <3>1, <3>2, FirstBuiltServesNext DEF Distinct
  <2>. QED  BY <1>1, <1>4, <2>3, <2>4, <2>5, <2>6 DEF OnceInv
<1>6. CASE ~Untouched(i)
  <2>1. job[i].snap = cr[i].spec
    BY <1>1, <1>6 DEF OnceInv, Untouched
  <2>2. (\A z \in Zones : Replaceable(i, z))' /\ JobReplaces(i)'
    BY <2>1, ReplaceTask DEF OnceInv
  <2>. QED  BY <1>1, <1>2, <1>4, <1>6, <2>1, <2>2 DEF OnceInv
<1>. QED  BY <1>5, <1>6

(* The first spec of a shoot from before root subnets were labelled is found  *)
(* built, any other shoot finds nothing.                                    *)
LEMMA OnceInit == Init => ReplacedInv
<1>. SUFFICES ASSUME Init, NEW i \in Infra, Sole(NameOf[i]), Distinct(i) PROVE OnceInv(i)
  BY DEF ReplacedInv
<1>. DEFINE n == NameOf[i]
<1>1. PICK c \in [Legacy -> AllConfigs] :
  /\ \A j \in Legacy : c[j] \in Configs[j]
  /\ cr = [j \in Infra |-> IF j \in Legacy
             THEN [phase |-> "live", spec |-> c[j], status |-> StatusOf(c[j])]
             ELSE [phase |-> "none", spec |-> None, status |-> None]]
  /\ root = [m \in Names |-> IF \E j \in Legacy : NameOf[j] = m
               THEN LegacyRoot(c[LegacyAt(m)]) ELSE None]
  /\ sub = [key \in SubKeys |->
       IF /\ key[1] \in SubnetKinds
          /\ \E j \in Legacy : NameOf[j] = key[2] /\ key[3] \in ZonesOf(c[j])
       THEN LegacySub(c[LegacyAt(key[2])], key[3]) ELSE None]
  BY DEF Init
<1>2. job[i] = Idle /\ updates = 0 /\ n \in Names
  BY NamesAssumption DEF Init
<1>3. JobReplaces(i) /\ JobFirst(i) /\ job[i].op = "none"
  BY <1>2 DEF Idle, JobReplaces, JobFirst
<1>4. \A j \in Legacy : NameOf[j] = n => j = i
  BY LegacyAssumption DEF Sole
<1>5. \A k \in NodeKinds, z \in Zones : <<k, n, z>> \in SubKeys /\ k \in SubnetKinds
  BY <1>2 DEF SubKeys, SubnetKinds, NodeKinds
<1>6. CASE i \notin Legacy
  <2>1. cr[i].phase = "none" /\ Root(i) = None
    BY <1>1, <1>2, <1>4, <1>6 DEF Root
  <2>2. \A z \in Zones, k \in NodeKinds : Net(k, n, z) = None
    BY <1>1, <1>4, <1>5, <1>6 DEF Net
  <2>3. "zonal" \in NodeKinds
    BY DEF NodeKinds
  <2>4. \A z \in Zones : Replaceable(i, z)
    BY <2>2, <2>3 DEF Replaceable, Standing
  <2>5. ~Untouched(i)
    BY <1>3, <2>1 DEF Untouched
  <2>. QED  BY <1>3, <2>1, <2>2, <2>4, <2>5 DEF OnceInv
<1>7. CASE i \in Legacy
  <2>1. LegacyAt(n) = i
    BY <1>4, <1>7 DEF LegacyAt
  <2>2. /\ cr[i].phase = "live" /\ cr[i].spec = c[i] /\ c[i] \in Configs[i]
        /\ Root(i) = LegacyRoot(c[i])
    BY <1>1, <1>2, <1>7, <2>1 DEF Root
  <2>3. \A k \in NodeKinds, z \in Zones :
          Net(k, n, z) = IF z \in ZonesOf(c[i]) THEN LegacySub(c[i], z) ELSE None
    <3>1. ASSUME NEW k \in NodeKinds, NEW z \in Zones
          PROVE  Net(k, n, z) = IF z \in ZonesOf(c[i]) THEN LegacySub(c[i], z) ELSE None
      <4>1. (\E j \in Legacy : NameOf[j] = n /\ z \in ZonesOf(c[j])) <=> z \in ZonesOf(c[i])
        BY <1>4, <1>7
      <4>. QED  BY <1>1, <1>5, <2>1, <4>1 DEF Net
    <3>. QED  BY <3>1
  <2>4. \A z \in ZonesOf(c[i]) : LegacySub(c[i], z).life = "live" /\ Gives(c[i], z, LegacySub(c[i], z).cidr)
    <3>1. ASSUME NEW z \in ZonesOf(c[i])
          PROVE  LegacySub(c[i], z).life = "live" /\ Gives(c[i], z, LegacySub(c[i], z).cidr)
      <4>. DEFINE k == CHOOSE k \in 1..Len(c[i].zones) : c[i].zones[k].name = z
      <4>1. k \in 1..Len(c[i].zones) /\ c[i].zones[k].name = z
        BY DEF ZonesOf
      <4>2. LegacySub(c[i], z) = [NewSub(c[i].zones[k].cidr) EXCEPT !.cond = "Ready"]
        BY DEF LegacySub
      <4>. HIDE DEF k
      <4>3. LegacySub(c[i], z).life = "live" /\ LegacySub(c[i], z).cidr = c[i].zones[k].cidr
        BY <4>2 DEF NewSub
      <4>. QED  BY <4>1, <4>3 DEF Gives
    <3>. QED  BY <3>1
  <2>5. LegacyRoot(c[i]).key = c[i].root
    BY DEF LegacyRoot
  <2>6. "zonal" \in NodeKinds /\ "global" \in NodeKinds
    BY DEF NodeKinds
  <2>7. FirstBuilt(c[i], i)
    BY <2>2, <2>3, <2>4, <2>5, <2>6 DEF FirstBuilt
  <2>8. \A z \in Zones : Replaceable(i, z)
    BY <2>2, <2>7, FirstReplaceable
  <2>9. Working(i) = c[i]
    BY <1>3, <2>2 DEF Working
  <2>. QED  BY <1>3, <2>2, <2>7, <2>8, <2>9 DEF OnceInv
<1>. QED  BY <1>6, <1>7

(* Every step keeps the invariant of the shoots that are alone with their    *)
(* names.                                                                   *)
LEMMA ReplacedNext == TypeOK /\ DeletionInv /\ ReplacedInv /\ [Next]_vars => ReplacedInv'
<1>. SUFFICES ASSUME TypeOK, DeletionInv, ReplacedInv, [Next]_vars, NEW i \in Infra,
                     Sole(NameOf[i]), Distinct(i), updates' <= 1
              PROVE  OnceInv(i)'
  BY DEF ReplacedInv, Sole, Distinct
<1>1. OpInv(i)
  BY DEF DeletionInv
<1>2. updates <= 1
  <2>1. updates \in Nat
    BY BoundsAssumption DEF TypeOK
  <2>2. CASE SubnetTask(i)
    BY <2>2, TaskKeeps
  <2>3. CASE ~SubnetTask(i)
    BY <2>1, <2>3, SpecMoves
  <2>. QED  BY <2>2, <2>3
<1>3. OnceInv(i)
  BY <1>2 DEF ReplacedInv
<1>. QED  BY <1>1, <1>3, OnceTask, OnceOther

(* For any number of changes where nothing lingers, and for one where deleted *)
(* subnets do: a shoot that has its name for itself and names no zone twice  *)
(* has no live z- subnet beside a live global subnet of another CIDR.       *)
THEOREM ZonalMatchesHolds == Spec => []ZonalMatchesGlobal
<1>1. ReplacedInv /\ (~Finalizers => \A n \in Names : Quiet(n) => ZonalMatches(n)) => ZonalMatchesGlobal
  <2>1. SUFFICES ASSUME ReplacedInv, NEW i \in Infra, Sole(NameOf[i]), Distinct(i), updates <= 1
                 PROVE  ZonalMatches(NameOf[i])
    BY NamesAssumption, SwitchAssumption DEF ZonalMatchesGlobal, Quiet
  <2>2. \A z \in Zones : Replaceable(i, z)
    BY <2>1 DEF ReplacedInv, OnceInv
  <2>. QED  BY <2>2 DEF Replaceable, Standing, Net, ZonalMatches
<1>. QED
  BY <1>1, OnceInit, ReplacedNext, DeletionHolds, CutWhereNothingLingers, PTL DEF Spec
===============================================================================
