------------------------ MODULE InfrastructureProofs ------------------------
(***************************************************************************)
(* Types and ownership of the infrastructure controller, and the refinement *)
(* of the lock of RootLock.tla: for any resources, names, zones and         *)
(* configurations.                                                         *)
(***************************************************************************)
EXTENDS InfrastructureProperties, SequenceTheorems, TLAPS

---------------------------------------------------------------------------
(* Typing *)

(* An entry of the configuration a job works on is a zone with a CIDR.      *)
LEMMA EntryType ==
  ASSUME TypeOK, NEW i \in Infra, job[i].op # "none", NEW k \in 1..Len(job[i].snap.zones)
  PROVE  /\ job[i].snap \in Config
         /\ job[i].snap.zones \in Seq(ZoneEntry)
         /\ job[i].snap.zones[k].name \in Zones
         /\ job[i].snap.zones[k].cidr \in Cidrs
<1>1. job[i].snap \in Config
  BY ConfigsAssumption DEF TypeOK
<1>2. job[i].snap.zones \in Seq(ZoneEntry)
  BY <1>1 DEF Config
<1>3. job[i].snap.zones[k] \in ZoneEntry
  BY <1>2, ElementOfSeq
<1>. QED  BY <1>1, <1>2, <1>3 DEF ZoneEntry

(* The names under which a job looks for its objects are names of objects.  *)
LEMMA KeyType ==
  ASSUME TypeOK, NEW i \in Infra, job[i].op # "none"
  PROVE  /\ \A k \in SubnetKinds : Key(k, i) \in SubKeys
         /\ \A k \in EgressKinds : EKey(k, i) \in SubKeys
         /\ Entry(i).cidr \in Cidrs
<1>1. job[i].zi \in 1..Len(job[i].snap.zones) /\ job[i].ezi \in 1..Len(job[i].snap.zones)
  BY DEF TypeOK
<1>2. /\ job[i].snap.zones[job[i].zi].name \in Zones
      /\ job[i].snap.zones[job[i].zi].cidr \in Cidrs
      /\ job[i].snap.zones[job[i].ezi].name \in Zones
  BY <1>1, EntryType
<1>. QED  BY <1>2, NamesAssumption DEF Key, EKey, Entry, SubKeys

(* The status made of a configuration is a status.                          *)
LEMMA StatusType ==
  ASSUME NEW c \in Config PROVE StatusOf(c) \in StatusObj
<1>1. c.zones \in Seq(ZoneEntry) /\ Len(c.zones) \in Nat
  BY DEF Config
<1>2. ASSUME NEW k \in 1..Len(c.zones) PROVE c.zones[k].name \in Zones
  <2>1. c.zones[k] \in ZoneEntry
    BY <1>1, ElementOfSeq
  <2>. QED  BY <2>1 DEF ZoneEntry
<1>3. [k \in 1..Len(c.zones) |-> c.zones[k].name] \in Seq(Zones)
  BY <1>1, <1>2, SeqDef
<1>. QED  BY <1>3 DEF StatusOf, StatusObj, Config

(* A deletion leaves an object of its type in deletion, or nothing.          *)
LEMMA DeletedType ==
  /\ \A o \in SubObj \cup {None} : Deleted(o) \in SubObj \cup {None}
  /\ \A o \in RootObj \cup {None} : Deleted(o) \in RootObj \cup {None}
BY DEF Deleted, SubObj, RootObj, Lives

(* The part of the typing that speaks of jobs and resources.                *)
JobsTyped ==
  /\ cr \in [Infra -> CrObj]
  /\ job \in [Infra -> JobObj]
  /\ \A i \in Infra :
       /\ cr[i].phase # "none" => cr[i].spec \in Configs[i]
       /\ job[i].op # "none" => /\ cr[i].phase # "none" /\ job[i].snap \in Configs[i]
                                /\ job[i].zi \in 1..Len(job[i].snap.zones)
                                /\ job[i].ezi \in 1..Len(job[i].snap.zones)

(* Moving the program counter of either task, or its zone, keeps the types. *)
LEMMA GotoType ==
  ASSUME JobsTyped, NEW i \in Infra, job[i].op # "none", cr' = cr,
         \/ \E p \in SubnetPcs : Goto(i, p)
         \/ \E p \in SubnetPcs, k \in 1..Len(job[i].snap.zones) : GotoZone(i, p, k)
         \/ \E p \in EgressPcs : EGoto(i, p)
         \/ \E p \in EgressPcs, k \in 1..Len(job[i].snap.zones) : EGotoZone(i, p, k)
  PROVE  JobsTyped'
<1>1. /\ job \in [Infra -> JobObj] /\ job[i] \in JobObj
      /\ Len(job[i].snap.zones) \in Nat
  BY ConfigsAssumption DEF JobsTyped, Config
<1>2. CASE \E p \in SubnetPcs : Goto(i, p)
  <2>1. PICK p \in SubnetPcs : job' = [job EXCEPT ![i].pc = p]
    BY <1>2 DEF Goto
  <2>2. job' \in [Infra -> JobObj]
    BY <1>1, <2>1 DEF JobObj
  <2>3. \A j \in Infra : /\ job'[j].op = job[j].op /\ job'[j].snap = job[j].snap
                         /\ job'[j].zi = job[j].zi /\ job'[j].ezi = job[j].ezi
    BY <1>1, <2>1 DEF JobObj
  <2>. QED  BY <2>2, <2>3 DEF JobsTyped
<1>3. CASE \E p \in SubnetPcs, k \in 1..Len(job[i].snap.zones) : GotoZone(i, p, k)
  <2>1. PICK p \in SubnetPcs, k \in 1..Len(job[i].snap.zones) : job' = [job EXCEPT ![i].pc = p, ![i].zi = k]
    BY <1>3 DEF GotoZone
  <2>2. k \in Nat
    BY <1>1
  <2>3. job' \in [Infra -> JobObj]
    BY <1>1, <2>1, <2>2 DEF JobObj
  <2>4. \A j \in Infra : /\ job'[j].op = job[j].op /\ job'[j].snap = job[j].snap
                         /\ (j # i => job'[j].zi = job[j].zi) /\ job'[i].zi = k
                         /\ job'[j].ezi = job[j].ezi
    BY <1>1, <2>1 DEF JobObj
  <2>. QED  BY <2>3, <2>4 DEF JobsTyped
<1>4. CASE \E p \in EgressPcs : EGoto(i, p)
  <2>1. PICK p \in EgressPcs : job' = [job EXCEPT ![i].epc = p]
    BY <1>4 DEF EGoto
  <2>2. job' \in [Infra -> JobObj]
    BY <1>1, <2>1 DEF JobObj
  <2>3. \A j \in Infra : /\ job'[j].op = job[j].op /\ job'[j].snap = job[j].snap
                         /\ job'[j].zi = job[j].zi /\ job'[j].ezi = job[j].ezi
    BY <1>1, <2>1 DEF JobObj
  <2>. QED  BY <2>2, <2>3 DEF JobsTyped
<1>5. CASE \E p \in EgressPcs, k \in 1..Len(job[i].snap.zones) : EGotoZone(i, p, k)
  <2>1. PICK p \in EgressPcs, k \in 1..Len(job[i].snap.zones) : job' = [job EXCEPT ![i].epc = p, ![i].ezi = k]
    BY <1>5 DEF EGotoZone
  <2>2. k \in Nat
    BY <1>1
  <2>3. job' \in [Infra -> JobObj]
    BY <1>1, <2>1, <2>2 DEF JobObj
  <2>4. \A j \in Infra : /\ job'[j].op = job[j].op /\ job'[j].snap = job[j].snap
                         /\ (j # i => job'[j].ezi = job[j].ezi) /\ job'[i].ezi = k
                         /\ job'[j].zi = job[j].zi
    BY <1>1, <2>1 DEF JobObj
  <2>. QED  BY <2>3, <2>4 DEF JobsTyped
<1>. QED  BY <1>2, <1>3, <1>4, <1>5

(* Init is typed: a legacy shoot's objects are made from its configuration. *)
LEMMA TypeInit == Init => TypeOK
<1>. SUFFICES ASSUME NEW c \in [Legacy -> AllConfigs],
                     \A i \in Legacy : c[i] \in Configs[i],
                     cr = [i \in Infra |-> IF i \in Legacy
                       THEN [phase |-> "live", spec |-> c[i], status |-> StatusOf(c[i])]
                       ELSE [phase |-> "none", spec |-> None, status |-> None]],
                     job = [i \in Infra |-> Idle],
                     root = [n \in Names |-> IF \E i \in Legacy : NameOf[i] = n
                       THEN LegacyRoot(c[LegacyAt(n)]) ELSE None],
                     sub = [key \in SubKeys |->
                       IF /\ key[1] \in SubnetKinds
                          /\ \E i \in Legacy : NameOf[i] = key[2] /\ key[3] \in ZonesOf(c[i])
                       THEN LegacySub(c[LegacyAt(key[2])], key[3]) ELSE None],
                     updates = 0, faults = 0, trespassers = {}
              PROVE  TypeOK
  BY DEF Init
<1>1. \A i \in Legacy : /\ i \in Infra /\ c[i] \in Config /\ c[i] \in AllConfigs
                        /\ StatusOf(c[i]) \in StatusObj
  BY LegacyAssumption, ConfigsAssumption, StatusType
<1>2. cr \in [Infra -> CrObj]
  BY <1>1 DEF CrObj
<1>3. job \in [Infra -> JobObj]
  BY DEF Idle, JobObj, SubnetPcs, EgressPcs
<1>4. root \in [Names -> RootObj \cup {None}]
  <2>1. ASSUME NEW n \in Names, \E i \in Legacy : NameOf[i] = n
        PROVE  LegacyRoot(c[LegacyAt(n)]) \in RootObj
    <3>1. LegacyAt(n) \in Legacy
      BY <2>1 DEF LegacyAt
    <3>2. c[LegacyAt(n)].root \in RootKeys
      BY <1>1, <3>1 DEF Config
    <3>. QED  BY <3>2 DEF LegacyRoot, RootObj, Conds, Lives
  <2>. QED  BY <2>1
<1>5. sub \in [SubKeys -> SubObj \cup {None}]
  <2>1. ASSUME NEW d \in Config, NEW z \in ZonesOf(d)
        PROVE  LegacySub(d, z) \in SubObj
    <3>. DEFINE m == CHOOSE k \in 1..Len(d.zones) : d.zones[k].name = z
    <3>1. m \in 1..Len(d.zones)
      BY DEF ZonesOf
    <3>2. d.zones \in Seq(ZoneEntry)
      BY DEF Config
    <3>3. d.zones[m] \in ZoneEntry
      BY <3>1, <3>2, ElementOfSeq
    <3>4. d.zones[m].cidr \in Cidrs
      BY <3>3 DEF ZoneEntry
    <3>. QED  BY <3>4 DEF LegacySub, NewSub, SubObj, Conds, Lives
  <2>2. ASSUME NEW i \in Legacy, NEW n, NameOf[i] = n
        PROVE  LegacyAt(n) = i
    BY <2>2, LegacyAssumption DEF LegacyAt
  <2>. QED  BY <1>1, <2>1, <2>2
<1>6. \A i \in Infra : /\ cr[i].phase # "none" => cr[i].spec \in Configs[i]
                       /\ job[i].op = "none"
  BY DEF Idle
<1>. QED  BY <1>2, <1>3, <1>4, <1>5, <1>6, BoundsAssumption DEF TypeOK

(* Every step keeps the types. *)
LEMMA TypeNext == TypeOK /\ [Next]_vars => TypeOK'
<1>. SUFFICES ASSUME TypeOK, [Next]_vars PROVE TypeOK'
  OBVIOUS
<1>j. JobsTyped
  BY DEF TypeOK, JobsTyped
<1>r. /\ root \in [Names -> RootObj \cup {None}] /\ sub \in [SubKeys -> SubObj \cup {None}]
      /\ updates \in 0..MaxUpdates /\ faults \in 0..MaxFaults /\ trespassers \subseteq Infra
  BY DEF TypeOK
<1>q. ASSUME JobsTyped',
             (root \in [Names -> RootObj \cup {None}])', (sub \in [SubKeys -> SubObj \cup {None}])',
             (updates \in 0..MaxUpdates)', (faults \in 0..MaxFaults)', (trespassers \subseteq Infra)'
      PROVE  TypeOK'
  BY <1>q DEF TypeOK, JobsTyped
<1>1. ASSUME NEW i \in Infra, User(i) PROVE TypeOK'
  <2>1. ASSUME NEW c \in Configs[i], CreateShoot(i, c) PROVE TypeOK'
    <3>1. c \in AllConfigs
      BY DEF AllConfigs
    <3>2. cr' \in [Infra -> CrObj]
      BY <1>j, <2>1, <3>1 DEF CreateShoot, JobsTyped, CrObj
    <3>3. \A k \in Infra : cr'[k].phase # "none" => cr'[k].spec \in Configs[k]
      BY <1>j, <2>1 DEF CreateShoot, JobsTyped, CrObj
    <3>4. \A k \in Infra : cr[k].phase # "none" => cr'[k].phase # "none"
      BY <1>j, <2>1 DEF CreateShoot, JobsTyped, CrObj
    <3>5. JobsTyped'
      BY <1>j, <2>1, <3>2, <3>3, <3>4 DEF CreateShoot, JobsTyped
    <3>. QED  BY <1>r, <1>q, <2>1, <3>5 DEF CreateShoot
  <2>2. ASSUME NEW c \in Configs[i], UpdateSpec(i, c) PROVE TypeOK'
    <3>1. c \in AllConfigs
      BY DEF AllConfigs
    <3>2. cr' \in [Infra -> CrObj]
      BY <1>j, <2>2, <3>1 DEF UpdateSpec, JobsTyped, CrObj
    <3>3. \A k \in Infra : cr'[k].phase # "none" => cr'[k].spec \in Configs[k]
      BY <1>j, <2>2 DEF UpdateSpec, JobsTyped, CrObj
    <3>4. \A k \in Infra : cr[k].phase # "none" => cr'[k].phase # "none"
      BY <1>j, <2>2 DEF UpdateSpec, JobsTyped, CrObj
    <3>5. JobsTyped'
      BY <1>j, <2>2, <3>2, <3>3, <3>4 DEF UpdateSpec, JobsTyped
    <3>6. updates' \in 0..MaxUpdates
      BY <1>r, <2>2, BoundsAssumption DEF UpdateSpec
    <3>. QED  BY <1>r, <1>q, <2>2, <3>5, <3>6 DEF UpdateSpec
  <2>3. CASE DeleteShoot(i)
    BY <1>j, <1>r, <1>q, <2>3 DEF DeleteShoot, JobsTyped, CrObj
  <2>4. CASE ForceDelete(i)
    BY <1>j, <1>r, <1>q, <2>4 DEF ForceDelete, JobsTyped, CrObj
  <2>5. ASSUME NEW j \in Infra, Migrate(i, j) PROVE TypeOK'
    <3>1. cr' \in [Infra -> CrObj]
      BY <1>j, <2>5 DEF Migrate, JobsTyped, CrObj, AllConfigs
    <3>2. \A k \in Infra : cr'[k].phase # "none" => cr'[k].spec \in Configs[k]
      BY <1>j, <2>5 DEF Migrate, JobsTyped, CrObj
    <3>3. \A k \in Infra : cr[k].phase # "none" => cr'[k].phase # "none"
      BY <1>j, <2>5 DEF Migrate, JobsTyped, CrObj
    <3>. QED  BY <1>j, <1>r, <1>q, <2>5, <3>1, <3>2, <3>3 DEF Migrate, JobsTyped
  <2>. QED  BY <1>1, <2>1, <2>2, <2>3, <2>4, <2>5 DEF User
<1>2. ASSUME NEW i \in Infra, Start(i) PROVE TypeOK'
  <2>. DEFINE Fresh(o, p, e) == [Idle EXCEPT !.op = o, !.snap = cr[i].spec, !.pc = p, !.epc = e]
  <2>1. /\ cr[i].phase # "none" /\ cr[i].spec \in Configs[i] /\ cr[i].spec \in AllConfigs
        /\ UNCHANGED <<cr, root, sub, updates, faults, trespassers>>
    BY <1>j, <1>2 DEF Start, StartReconcile, StartDelete, JobsTyped, AllConfigs
  <2>2. Len(cr[i].spec.zones) \in Nat \ {0}
    BY <2>1, ConfigsAssumption DEF Config
  <2>3. PICK o \in {"reconcile", "delete"}, p \in SubnetPcs, e \in EgressPcs :
          job' = [job EXCEPT ![i] = Fresh(o, p, e)]
    <3>1. CASE StartReconcile(i)
      BY <3>1 DEF StartReconcile, SubnetPcs, EgressPcs
    <3>2. CASE StartDelete(i)
      BY <3>2 DEF StartDelete, SubnetPcs, EgressPcs
    <3>. QED  BY <1>2, <3>1, <3>2 DEF Start
  <2>4. /\ Fresh(o, p, e) \in JobObj /\ Fresh(o, p, e).snap = cr[i].spec
        /\ Fresh(o, p, e).zi = 1 /\ Fresh(o, p, e).ezi = 1
    BY <2>1 DEF Idle, JobObj
  <2>. HIDE DEF Fresh
  <2>5. /\ job' \in [Infra -> JobObj] /\ job'[i] = Fresh(o, p, e)
        /\ \A k \in Infra : k # i => job'[k] = job[k]
    BY <1>j, <2>3, <2>4 DEF JobsTyped
  <2>6. 1 \in 1..Len(cr[i].spec.zones)
    BY <2>2
  <2>7. JobsTyped'
    BY <1>j, <2>1, <2>4, <2>5, <2>6 DEF JobsTyped
  <2>. QED  BY <1>r, <1>q, <2>1, <2>7
<1>3. ASSUME NEW i \in Infra, SubnetTask(i) PROVE TypeOK'
  <2>1. job[i].op # "none" /\ cr' = cr
    BY <1>3 DEF SubnetTask, GetRoot, AdoptRoot, CreateRoot, WaitRoot, GetZone, DeleteZoneNet, DeleteZone,
      CreateZone, WaitZone, WaitPropagated, GetNet, CreateNet, WaitNet, DelNet, DelProp, DelGlobal,
      DelRoot, DeleteStep, CreateStep, WaitStep, At
  <2>2. /\ \A k \in SubnetKinds : Key(k, i) \in SubKeys
        /\ Entry(i).cidr \in Cidrs
    BY <2>1, KeyType
  <2>3. /\ job[i].zi \in 1..Len(job[i].snap.zones) /\ Len(job[i].snap.zones) \in Nat \ {0}
        /\ job[i].snap \in Config
    BY <1>j, <2>1, ConfigsAssumption DEF JobsTyped, Config
  <2>4. JobsTyped'
    <3>1. \/ \E p \in SubnetPcs : Goto(i, p)
          \/ \E p \in SubnetPcs, k \in 1..Len(job[i].snap.zones) : GotoZone(i, p, k)
      BY <1>3, <2>3 DEF SubnetTask, GetRoot, AdoptRoot, CreateRoot, WaitRoot, GetZone, DeleteZoneNet, DeleteZone,
        CreateZone, WaitZone, WaitPropagated, GetNet, CreateNet, WaitNet, DelNet, DelProp, DelGlobal,
        DelRoot, DeleteStep, CreateStep, WaitStep, SubnetPcs, SameOrRecreate, LastZone
    <3>. QED  BY <1>j, <2>1, <3>1, GotoType
  <2>5. (root \in [Names -> RootObj \cup {None}])'
    <3>1. job[i].snap.root \in RootKeys
      BY <2>3 DEF Config
    <3>2. CASE AdoptRoot(i)
      BY <1>r, <3>2, NamesAssumption DEF AdoptRoot, Root, RootObj
    <3>3. CASE CreateRoot(i)
      BY <1>r, <3>1, <3>3 DEF CreateRoot, RootObj, Conds, Lives
    <3>4. CASE DelRoot(i)
      BY <1>r, <3>4, DeletedType, NamesAssumption DEF DelRoot
    <3>. QED  BY <1>r, <1>3, <3>2, <3>3, <3>4 DEF SubnetTask, GetRoot, WaitRoot, GetZone, DeleteZoneNet,
        DeleteZone, CreateZone, WaitZone, WaitPropagated, GetNet, CreateNet, WaitNet, DelNet, DelProp,
        DelGlobal, DeleteStep, CreateStep, WaitStep
  <2>6. (sub \in [SubKeys -> SubObj \cup {None}])'
    <3>1. ASSUME NEW k \in SubnetKinds, sub' = [sub EXCEPT ![Key(k, i)] = Deleted(@)]
          PROVE  sub' \in [SubKeys -> SubObj \cup {None}]
      BY <1>r, <2>2, <3>1, DeletedType
    <3>2. ASSUME NEW k \in SubnetKinds, sub' = [sub EXCEPT ![Key(k, i)] = NewSub(Entry(i).cidr)]
          PROVE  sub' \in [SubKeys -> SubObj \cup {None}]
      BY <1>r, <2>2, <3>2 DEF NewSub, SubObj, Conds, Lives
    <3>3. \/ UNCHANGED sub
          \/ \E k \in SubnetKinds : sub' = [sub EXCEPT ![Key(k, i)] = Deleted(@)]
          \/ \E k \in SubnetKinds : sub' = [sub EXCEPT ![Key(k, i)] = NewSub(Entry(i).cidr)]
      BY <1>3 DEF SubnetTask, GetRoot, AdoptRoot, CreateRoot, WaitRoot, GetZone, DeleteZoneNet, DeleteZone,
        CreateZone, WaitZone, WaitPropagated, GetNet, CreateNet, WaitNet, DelNet, DelProp, DelGlobal,
        DelRoot, DeleteStep, CreateStep, WaitStep, SubnetKinds
    <3>. QED  BY <1>r, <3>1, <3>2, <3>3
  <2>7. (updates \in 0..MaxUpdates)' /\ (faults \in 0..MaxFaults)' /\ (trespassers \subseteq Infra)'
    BY <1>r, <1>3 DEF SubnetTask, GetRoot, AdoptRoot, CreateRoot, WaitRoot, GetZone, DeleteZoneNet, DeleteZone,
      CreateZone, WaitZone, WaitPropagated, GetNet, CreateNet, WaitNet, DelNet, DelProp, DelGlobal,
      DelRoot, DeleteStep, CreateStep, WaitStep, Trespass
  <2>. QED  BY <1>q, <2>4, <2>5, <2>6, <2>7
<1>4. ASSUME NEW i \in Infra, EgressTask(i) PROVE TypeOK'
  <2>1. job[i].op # "none" /\ cr' = cr /\ UNCHANGED <<root, updates, faults, trespassers>>
    BY <1>4 DEF EgressTask, CreateEgress, WaitEgress, CreateNat, WaitNat, DeleteNat, DeleteEgress,
      EgressCreateStep, EAt
  <2>2. \A k \in EgressKinds : EKey(k, i) \in SubKeys
    BY <2>1, KeyType
  <2>3. job[i].ezi \in 1..Len(job[i].snap.zones) /\ Len(job[i].snap.zones) \in Nat \ {0}
    BY <1>j, <2>1, ConfigsAssumption DEF JobsTyped, Config
  <2>4. JobsTyped'
    <3>1. \/ \E p \in EgressPcs : EGoto(i, p)
          \/ \E p \in EgressPcs, k \in 1..Len(job[i].snap.zones) : EGotoZone(i, p, k)
      BY <1>4, <2>3 DEF EgressTask, CreateEgress, WaitEgress, CreateNat, WaitNat, DeleteNat, DeleteEgress,
        EgressCreateStep, EgressPcs, LastEZone
    <3>. QED  BY <1>j, <2>1, <3>1, GotoType
  <2>5. (sub \in [SubKeys -> SubObj \cup {None}])'
    <3>1. ASSUME NEW k \in EgressKinds, sub' = [sub EXCEPT ![EKey(k, i)] = Deleted(@)]
          PROVE  sub' \in [SubKeys -> SubObj \cup {None}]
      BY <1>r, <2>2, <3>1, DeletedType
    <3>2. ASSUME NEW k \in EgressKinds,
                 sub' = [sub EXCEPT ![EKey(k, i)] = IF @ = None THEN NewSub(None) ELSE @]
          PROVE  sub' \in [SubKeys -> SubObj \cup {None}]
      BY <1>r, <2>2, <3>2 DEF NewSub, SubObj, Conds, Lives
    <3>3. \/ UNCHANGED sub
          \/ \E k \in EgressKinds : sub' = [sub EXCEPT ![EKey(k, i)] = Deleted(@)]
          \/ \E k \in EgressKinds : sub' = [sub EXCEPT ![EKey(k, i)] = IF @ = None THEN NewSub(None) ELSE @]
      BY <1>4 DEF EgressTask, CreateEgress, WaitEgress, CreateNat, WaitNat, DeleteNat, DeleteEgress,
        EgressCreateStep, EgressDeleted, EgressKinds
    <3>. QED  BY <1>r, <3>1, <3>2, <3>3
  <2>. QED  BY <1>q, <1>r, <2>1, <2>4, <2>5
<1>5. ASSUME NEW i \in Infra, Finish(i) PROVE TypeOK'
  <2>1. job[i].op # "none" => job[i].snap \in Config /\ StatusOf(job[i].snap) \in StatusObj
    BY <1>j, ConfigsAssumption, StatusType DEF JobsTyped
  <2>2. \/ UNCHANGED cr
        \/ job[i].op = "reconcile" /\ cr' = [cr EXCEPT ![i].status = StatusOf(job[i].snap)]
        \/ job[i].op = "delete" /\ cr' = [cr EXCEPT ![i].phase = "gone"]
    BY <1>5, <1>j DEF Finish, Succeeded, JobsTyped, JobObj
  <2>3. cr' \in [Infra -> CrObj]
    <3>1. CASE UNCHANGED cr
      BY <1>j, <3>1 DEF JobsTyped
    <3>2. CASE job[i].op = "reconcile" /\ cr' = [cr EXCEPT ![i].status = StatusOf(job[i].snap)]
      BY <1>j, <2>1, <3>2 DEF JobsTyped, CrObj
    <3>3. CASE job[i].op = "delete" /\ cr' = [cr EXCEPT ![i].phase = "gone"]
      BY <1>j, <3>3 DEF JobsTyped, CrObj
    <3>. QED  BY <2>2, <3>1, <3>2, <3>3
  <2>4. \A k \in Infra : /\ cr'[k].spec = cr[k].spec
                         /\ cr[k].phase # "none" => cr'[k].phase # "none"
                         /\ k # i => cr'[k].phase = cr[k].phase
    BY <1>j, <2>2 DEF JobsTyped, CrObj
  <2>5. cr[i].phase # "none" /\ cr[i].spec \in Configs[i]
    BY <1>5, <1>j DEF Finish, JobsTyped
  <2>6. /\ job' \in [Infra -> JobObj] /\ \A k \in Infra : k # i => job'[k] = job[k]
        /\ job'[i].op = "none"
    BY <1>5, <1>j DEF Finish, JobsTyped, Idle, JobObj, SubnetPcs, EgressPcs
  <2>7. JobsTyped'
    BY <1>j, <2>3, <2>4, <2>5, <2>6 DEF JobsTyped
  <2>. QED  BY <1>q, <1>r, <1>5, <2>7 DEF Finish
<1>6. ASSUME NEW i \in Infra, CallFails(i) PROVE TypeOK'
  <2>1. JobsTyped'
    BY <1>j, <1>6, GotoType DEF CallFails, SubnetPcs, EgressPcs
  <2>. QED  BY <1>q, <1>r, <1>6, <2>1, BoundsAssumption DEF CallFails
<1>7. CASE Restart
  <2>1. JobsTyped'
    BY <1>j, <1>7 DEF Restart, JobsTyped, Idle, JobObj, SubnetPcs, EgressPcs
  <2>. QED  BY <1>q, <1>r, <1>7, <2>1, BoundsAssumption DEF Restart
<1>8. CASE Gdc
  <2>1. UNCHANGED <<cr, job, updates, faults, trespassers>>
    BY <1>8 DEF Gdc, RootReady, RootVanishes, SubReady, SubVanishes, Propagate, Withdraw
  <2>2. (root \in [Names -> RootObj \cup {None}])'
    BY <1>r, <1>8 DEF Gdc, RootReady, RootVanishes, SubReady, SubVanishes, Propagate, Withdraw, RootObj, Conds
  <2>3. (sub \in [SubKeys -> SubObj \cup {None}])'
    <3>1. ASSUME NEW n \in Names, NEW z \in Zones, Propagate(n, z)
          PROVE  sub' \in [SubKeys -> SubObj \cup {None}]
      <4>1. <<"global", n, z>> \in SubKeys
        BY DEF SubKeys, SubnetKinds
      <4>. QED  BY <1>r, <3>1, <4>1 DEF Propagate, NewSub, SubObj, Conds, Lives
    <3>2. ASSUME NEW n \in Names, NEW z \in Zones, Withdraw(n, z)
          PROVE  sub' \in [SubKeys -> SubObj \cup {None}]
      BY <1>r, <3>2 DEF Withdraw
    <3>3. ASSUME NEW k \in SubKeys, SubReady(k) \/ SubVanishes(k)
          PROVE  sub' \in [SubKeys -> SubObj \cup {None}]
      BY <1>r, <3>3 DEF SubReady, SubVanishes, SubObj, Conds
    <3>. QED  BY <1>r, <1>8, <3>1, <3>2, <3>3 DEF Gdc, RootReady, RootVanishes
  <2>4. JobsTyped'
    BY <1>j, <2>1 DEF JobsTyped
  <2>. QED  BY <1>q, <1>r, <2>1, <2>2, <2>3, <2>4
<1>9. CASE UNCHANGED vars
  BY <1>9 DEF vars, TypeOK, CrObj, JobObj
<1>. QED  BY <1>1, <1>2, <1>3, <1>4, <1>5, <1>6, <1>7, <1>8, <1>9 DEF Next, Controller

(* The controller's state is always of the declared types, and a job in      *)
(* flight always stands at a zone of its own configuration.                *)
THEOREM TypeCorrect == Spec => []TypeOK
<1>1. Init => TypeOK
  BY TypeInit
<1>2. TypeOK /\ [Next]_vars => TypeOK'
  BY TypeNext
<1>. QED  BY <1>1, <1>2, PTL DEF Spec
---------------------------------------------------------------------------
(* Ownership of the root subnets *)

(* Two resources of one name never both regard its root subnet as theirs.   *)
LEMMA MineUnique ==
  ASSUME NEW i \in Infra, NEW j \in Infra, NameOf[i] = NameOf[j], Mine(i), Mine(j)
  PROVE  i = j
BY NoneAssumption, LegacyAssumption DEF Mine, Root

(* What a move of a program counter changes of any job.                     *)
LEMMA MoveJob ==
  ASSUME TypeOK, NEW i \in Infra, NEW p, NEW k, Goto(i, p) \/ GotoZone(i, p, k), NEW j \in Infra
  PROVE  job'[j].op = job[j].op /\ job'[j].pc = IF j = i THEN p ELSE job[j].pc
BY DEF TypeOK, JobObj, Goto, GotoZone

(* A resource whose root subnet and status a step leaves alone keeps its    *)
(* invariant if its job does.                                              *)
LEMMA ShootFrame ==
  ASSUME NEW j \in Infra, ShootInv(j), Root(j)' = Root(j), cr'[j] = cr[j],
         job'[j].op = job[j].op, JobInv(j)'
  PROVE  ShootInv(j)'
BY DEF ShootInv, OwnRootInv, UnbornInv, HasRoot, Mine, Active, Root

(* Initially only the legacy shoots are provisioned, on unlabelled roots.   *)
LEMMA OwnershipInit == Init => OwnershipInv
<1>. SUFFICES ASSUME NEW c \in [Legacy -> AllConfigs],
                     \A i \in Legacy : c[i] \in Configs[i],
                     cr = [i \in Infra |-> IF i \in Legacy
                       THEN [phase |-> "live", spec |-> c[i], status |-> StatusOf(c[i])]
                       ELSE [phase |-> "none", spec |-> None, status |-> None]],
                     job = [i \in Infra |-> Idle],
                     root = [n \in Names |-> IF \E i \in Legacy : NameOf[i] = n
                       THEN LegacyRoot(c[LegacyAt(n)]) ELSE None],
                     NEW j \in Infra
              PROVE  ShootInv(j)
  BY DEF Init, OwnershipInv
<1>1. JobInv(j)
  BY DEF JobInv, Idle
<1>2. Root(j) = IF \E i \in Legacy : NameOf[i] = NameOf[j]
                THEN LegacyRoot(c[LegacyAt(NameOf[j])]) ELSE None
  BY NamesAssumption DEF Root
<1>3. Root(j) # None => Root(j).owner # j
  BY <1>2, NoneAssumption DEF LegacyRoot
<1>4. UnbornInv(j)
  BY <1>3 DEF UnbornInv, Idle
<1>5. CASE j \in Legacy
  <2>1. LegacyAt(NameOf[j]) = j
    BY <1>5, LegacyAssumption DEF LegacyAt
  <2>2. Root(j) = LegacyRoot(c[j])
    BY <1>2, <1>5, <2>1
  <2>3. c[j].root \in RootKeys /\ c[j] \in Configs[j]
    BY <1>5, ConfigsAssumption DEF Config
  <2>4. LegacyRoot(c[j]) \in RootObj
    BY <2>3 DEF LegacyRoot, RootObj, Conds, Lives
  <2>5. OwnRootInv(j)
    BY <1>5, <2>2, <2>3, <2>4, NoneAssumption DEF OwnRootInv, HasRoot, Mine, LegacyRoot
  <2>. QED  BY <1>1, <1>4, <2>5 DEF ShootInv
<1>6. CASE j \notin Legacy
  <2>1. ~HasRoot(j) /\ cr[j].status = None
    BY <1>3, <1>6 DEF HasRoot, Mine
  <2>. QED  BY <1>1, <1>4, <2>1 DEF ShootInv, OwnRootInv
<1>. QED  BY <1>5, <1>6

(* What the Gardener side does to a resource keeps every invariant.         *)
LEMMA OwnershipUser ==
  ASSUME TypeOK, \A k \in Infra : ShootInv(k), NEW i \in Infra, User(i), NEW j \in Infra
  PROVE  ShootInv(j)'
<1>1. UNCHANGED <<job, root>>
  BY DEF User, CreateShoot, UpdateSpec, DeleteShoot, ForceDelete, Migrate
<1>2. ShootInv(j) /\ cr \in [Infra -> CrObj] /\ Root(j)' = Root(j)
  BY <1>1 DEF TypeOK, Root
<1>3. ASSUME cr'[j] = cr[j] PROVE ShootInv(j)'
  BY <1>1, <1>2, <1>3, ShootFrame DEF ShootInv, JobInv, Root
<1>4. ASSUME cr[j].phase = "none", cr'[j].phase = "live", cr'[j].status = None PROVE ShootInv(j)'
  <2>1. ~HasRoot(j)' /\ job[j].op = "none"
    BY <1>1, <1>2, <1>4 DEF ShootInv, UnbornInv, HasRoot, Mine, Root
  <2>. QED  BY <1>1, <1>4, <2>1 DEF ShootInv, OwnRootInv, JobInv, UnbornInv
<1>5. ASSUME cr'[j].status = cr[j].status, cr[j].phase # "none", cr'[j].phase # "none",
             Active(j)' => Active(j), JobInv(j)'
      PROVE  ShootInv(j)'
  BY <1>1, <1>2, <1>5 DEF ShootInv, OwnRootInv, UnbornInv, HasRoot, Mine, Root
<1>6. ASSUME NEW c \in Configs[i], CreateShoot(i, c) PROVE ShootInv(j)'
  BY <1>2, <1>3, <1>4, <1>6 DEF CreateShoot, CrObj
<1>7. ASSUME NEW c \in Configs[i], UpdateSpec(i, c) PROVE ShootInv(j)'
  <2>1. cr'[j].status = cr[j].status /\ cr'[j].phase = cr[j].phase /\ (j # i => cr'[j] = cr[j])
        /\ cr[i].phase = "live"
    BY <1>2, <1>7 DEF UpdateSpec, CrObj
  <2>2. JobInv(j)' /\ (Active(j)' => Active(j))
    BY <1>1, <1>2, <2>1 DEF ShootInv, JobInv, Active, Root
  <2>. QED  BY <1>3, <1>5, <2>1, <2>2
<1>8. CASE DeleteShoot(i)
  <2>1. /\ cr'[j].status = cr[j].status /\ (j # i => cr'[j] = cr[j])
        /\ cr[i].phase = "live" /\ cr'[i].phase = "deleting" /\ cr'[i].status = cr[i].status
    BY <1>2, <1>8 DEF DeleteShoot, CrObj, TypeOK
  <2>2. JobInv(i)' /\ (Active(i)' => Active(i))
    <3>1. JobInv(i)
      BY DEF ShootInv
    <3>2. Active(i)' => Active(i)
      BY <2>1 DEF Active
    <3>3. JobInv(i)'
      BY <1>1, <2>1, <3>1 DEF JobInv, Root
    <3>. QED  BY <3>2, <3>3
  <2>. QED  BY <1>3, <1>5, <2>1, <2>2
<1>9. CASE ForceDelete(i)
  <2>1. /\ cr'[j].status = cr[j].status /\ (j # i => cr'[j] = cr[j])
        /\ cr[i].phase = "deleting" /\ cr'[i].phase = "forced" /\ job[i].op = "none"
    BY <1>2, <1>9 DEF ForceDelete, CrObj, TypeOK
  <2>2. JobInv(i)' /\ ~Active(i)'
    BY <1>1, <2>1 DEF JobInv, Active
  <2>. QED  BY <1>3, <1>5, <2>1, <2>2
<1>10. ASSUME NEW k \in Infra, Migrate(i, k) PROVE ShootInv(j)'
  <2>1. /\ j \notin {i, k} => cr'[j] = cr[j]
        /\ cr[i].phase = "live" /\ cr'[i].phase = "migrated" /\ job[i].op = "none"
        /\ cr'[i].status = cr[i].status
        /\ cr[k].phase = "none" /\ cr'[k].phase = "live" /\ cr'[k].status = None
    BY <1>2, <1>10 DEF Migrate, CrObj, TypeOK
  <2>2. JobInv(i)' /\ ~Active(i)'
    BY <1>1, <2>1 DEF JobInv, Active
  <2>. QED  BY <1>3, <1>4, <1>5, <2>1, <2>2
<1>. QED  BY <1>6, <1>7, <1>8, <1>9, <1>10 DEF User

(* The steps of the subnet task: the only ones that label, create or delete *)
(* a root subnet.                                                          *)
LEMMA OwnershipSubnetTask ==
  ASSUME TypeOK, StableRoot, \A k \in Infra : ShootInv(k), trespassers' = {},
         NEW i \in Infra, SubnetTask(i), NEW j \in Infra
  PROVE  ShootInv(j)'
<1>1. /\ cr' = cr /\ job[i].op # "none"
  BY DEF SubnetTask, GetRoot, AdoptRoot, CreateRoot, WaitRoot, GetZone, DeleteZoneNet, DeleteZone,
    CreateZone, WaitZone, WaitPropagated, GetNet, CreateNet, WaitNet, DelNet, DelProp, DelGlobal,
    DelRoot, DeleteStep, CreateStep, WaitStep, At
<1>2. /\ job[i].op \in {"reconcile", "delete"} /\ job[i].snap \in Configs[i]
      /\ cr[i].phase # "none" /\ NameOf[i] \in Names /\ NameOf[j] \in Names
      /\ root \in [Names -> RootObj \cup {None}]
  BY <1>1, NamesAssumption DEF TypeOK, JobObj
<1>3. ShootInv(i) /\ ShootInv(j)
  OBVIOUS
<1>4. ASSUME UNCHANGED root, NEW p, NEW k, Goto(i, p) \/ GotoZone(i, p, k),
             job[i].op = "reconcile" =>
               /\ p \notin DeletePcs
               /\ p = "root_adopt" => cr[i].status # None
               /\ p \in OwnershipChecked => Root(i) # None /\ Root(i).owner = i,
             job[i].op = "delete" => p \in DeletePcs \cup {"done", "failed"}
      PROVE  ShootInv(j)'
  <2>1. /\ job'[j].op = job[j].op /\ job'[j].pc = (IF j = i THEN p ELSE job[j].pc)
        /\ Root(j)' = Root(j)
    BY <1>4, MoveJob DEF Root
  <2>2. JobInv(j)'
    BY <1>1, <1>3, <1>4, <2>1 DEF ShootInv, JobInv, Root
  <2>. QED  BY <1>1, <1>3, <2>1, <2>2, ShootFrame
<1>5. CASE GetRoot(i)
  <2>1. job[i].op = "reconcile" /\ job[i].pc = "root_get"
    BY <1>2, <1>3, <1>5 DEF GetRoot, At, ShootInv, JobInv, DeletePcs
  <2>2. ASSUME Root(i) # None, Root(i).owner = i PROVE Root(i).key = job[i].snap.root
    BY <1>2, <1>3, <2>2 DEF ShootInv, OwnRootInv, HasRoot, Mine, StableRoot
  <2>3. \/ Goto(i, "root_create") \/ Goto(i, "failed")
        \/ Goto(i, "root_adopt") /\ cr[i].status # None
        \/ Goto(i, "root_wait") /\ Root(i) # None /\ Root(i).owner = i
    BY <1>5, <2>2 DEF GetRoot, SameOrRecreate, MayAdopt
  <2>. QED  BY <1>4, <1>5, <2>1, <2>3 DEF GetRoot, DeletePcs, OwnershipChecked
<1>6. CASE AdoptRoot(i)
  <2>1. job[i].op = "reconcile" /\ job[i].pc = "root_adopt"
    BY <1>2, <1>3, <1>6 DEF AdoptRoot, At, ShootInv, JobInv, DeletePcs
  <2>2. HasRoot(i) /\ Root(i).life = "live" /\ Root(i).key = job[i].snap.root
    BY <1>2, <1>3, <2>1 DEF ShootInv, OwnRootInv, JobInv, Active, StableRoot
  <2>3. /\ root' = [root EXCEPT ![NameOf[i]].owner = i]
        /\ Goto(i, "root_wait")
    BY <1>6, <2>2 DEF AdoptRoot, SameOrRecreate, HasRoot
  <2>4. CASE NameOf[j] # NameOf[i]
    <3>1. Root(j)' = Root(j) /\ job'[j].op = job[j].op /\ job'[j].pc = job[j].pc
      BY <1>2, <2>3, <2>4, MoveJob DEF Root
    <3>2. JobInv(j)'
      BY <1>1, <1>3, <3>1 DEF ShootInv, JobInv
    <3>. QED  BY <1>1, <1>3, <3>1, <3>2, ShootFrame
  <2>5. CASE NameOf[j] = NameOf[i]
    <3>1. /\ Root(j)' # None /\ Root(j)'.owner = i /\ Root(j)'.life = "live"
          /\ Root(j)'.key = job[i].snap.root
      BY <1>2, <2>2, <2>3, <2>5, NoneAssumption DEF Root, HasRoot, RootObj
    <3>2. /\ job'[j].op = job[j].op
          /\ job'[j].pc = (IF j = i THEN "root_wait" ELSE job[j].pc)
      BY <2>3, MoveJob
    <3>3. CASE j = i
      BY <1>1, <1>2, <1>3, <2>1, <2>2, <3>1, <3>2, <3>3
      DEF ShootInv, OwnRootInv, JobInv, UnbornInv, HasRoot, Mine, Active, DeletePcs
    <3>4. CASE j # i
      <4>1. ~HasRoot(j)
        BY <2>2, <2>5, <3>4, MineUnique DEF HasRoot
      <4>2. ~HasRoot(j)' /\ Root(j)'.owner # j
        BY <3>1, <3>4, NoneAssumption DEF HasRoot, Mine, Root
      <4>3. Active(j)' => Active(j)
        BY <1>1, <3>2 DEF Active
      <4>4. OwnRootInv(j)' /\ UnbornInv(j)'
        BY <1>1, <1>3, <3>2, <4>1, <4>2, <4>3 DEF ShootInv, OwnRootInv, UnbornInv, Root
      <4>5. JobInv(j)'
        BY <1>1, <1>3, <3>2, <3>4, <4>1 DEF ShootInv, JobInv, HasRoot, Mine
      <4>. QED  BY <4>4, <4>5 DEF ShootInv
    <3>. QED  BY <3>3, <3>4
  <2>. QED  BY <2>4, <2>5
<1>7. CASE CreateRoot(i)
  <2>1. job[i].op = "reconcile" /\ job[i].pc = "root_create"
    BY <1>2, <1>3, <1>7 DEF CreateRoot, At, ShootInv, JobInv, DeletePcs
  <2>2. CASE Root(i) # None
    BY <1>4, <1>7, <2>1, <2>2 DEF CreateRoot, DeletePcs, OwnershipChecked
  <2>3. CASE Root(i) = None
    <3>. DEFINE r == [owner |-> i, key |-> job[i].snap.root, cond |-> "NotReady", life |-> "live"]
    <3>1. /\ root' = [root EXCEPT ![NameOf[i]] = r]
          /\ Goto(i, "root_wait")
      BY <1>7, <2>3 DEF CreateRoot
    <3>2. /\ job'[j].op = job[j].op
          /\ job'[j].pc = (IF j = i THEN "root_wait" ELSE job[j].pc)
      BY <3>1, MoveJob
    <3>3. r # None
      <4>1. job[i].snap.root \in RootKeys
        BY <1>2, ConfigsAssumption DEF Config
      <4>2. r \in RootObj
        BY <4>1 DEF RootObj, Conds, Lives
      <4>. QED  BY <4>2, NoneAssumption
    <3>4. Active(j)' => Active(j)
      BY <1>1, <3>2 DEF Active
    <3>5. CASE NameOf[j] # NameOf[i]
      <4>1. Root(j)' = Root(j) /\ job'[j].op = job[j].op /\ job'[j].pc = job[j].pc
        BY <1>2, <3>1, <3>2, <3>5 DEF Root
      <4>2. JobInv(j)'
        BY <1>1, <1>3, <4>1 DEF ShootInv, JobInv
      <4>. QED  BY <1>1, <1>3, <4>1, <4>2, ShootFrame
    <3>6. CASE NameOf[j] = NameOf[i] /\ j # i
      <4>1. Root(j) = None /\ Root(j)' = r
        BY <1>2, <2>3, <3>1, <3>6 DEF Root
      <4>2. ~HasRoot(j) /\ ~HasRoot(j)' /\ Root(j)'.owner # j
        BY <3>6, <4>1, NoneAssumption DEF HasRoot, Mine, Root
      <4>3. OwnRootInv(j)' /\ UnbornInv(j)'
        BY <1>1, <1>3, <3>2, <3>4, <4>2 DEF ShootInv, OwnRootInv, UnbornInv, Root
      <4>4. JobInv(j)'
        BY <1>1, <1>3, <3>2, <3>6, <4>1 DEF ShootInv, JobInv
      <4>. QED  BY <4>3, <4>4 DEF ShootInv
    <3>7. CASE j = i
      <4>1. Root(i)' = r
        BY <1>2, <3>1 DEF Root
      <4>2. HasRoot(i)' /\ Root(i)'.key = job[i].snap.root /\ Root(i)'.life = "live"
            /\ Root(i)'.owner = i /\ Root(i)' # None
        BY <3>3, <4>1 DEF HasRoot, Mine, Root
      <4>3. OwnRootInv(i)' /\ UnbornInv(i)'
        BY <1>1, <1>2, <4>2 DEF OwnRootInv, UnbornInv
      <4>4. JobInv(i)'
        BY <1>1, <1>3, <2>1, <3>2, <3>7, <4>2 DEF ShootInv, JobInv, DeletePcs
      <4>. QED  BY <3>7, <4>3, <4>4 DEF ShootInv
    <3>. QED  BY <3>5, <3>6, <3>7
  <2>. QED  BY <2>2, <2>3
<1>8. CASE DelRoot(i)
  <2>1. job[i].op = "delete" /\ cr[i].phase = "deleting" /\ Goto(i, "done")
    BY <1>2, <1>3, <1>8 DEF DelRoot, At, ShootInv, JobInv, DeletePcs
  <2>2. Root(i) = None \/ HasRoot(i)
    <3>1. Root(i) # None /\ ~Mine(i) => i \in trespassers'
      BY <1>8 DEF DelRoot, Trespass
    <3>. QED  BY <3>1 DEF HasRoot
  <2>3. /\ job'[j].op = job[j].op
        /\ job'[j].pc = (IF j = i THEN "done" ELSE job[j].pc)
    BY <2>1, MoveJob
  <2>4. JobInv(i)'
    BY <1>1, <2>1, <2>3, MoveJob DEF JobInv
  <2>5. /\ root' = [root EXCEPT ![NameOf[i]] = Deleted(@)]
        /\ Root(i)' = Deleted(Root(i))
    BY <1>2, <1>8 DEF DelRoot, Root
  <2>6. CASE NameOf[j] # NameOf[i] \/ Root(i) = None
    <3>1. Root(j)' = Root(j)
      BY <1>2, <2>5, <2>6 DEF Root, Deleted
    <3>2. JobInv(j)'
      BY <1>1, <1>3, <2>3, <2>4, <3>1 DEF ShootInv, JobInv
    <3>. QED  BY <1>1, <1>3, <2>3, <3>1, <3>2, ShootFrame
  <2>7. CASE NameOf[j] = NameOf[i] /\ HasRoot(i)
    <3>1. Root(i)' # None => /\ Root(i)'.owner = Root(i).owner
                             /\ Root(i)'.key = Root(i).key
      BY <1>2, <2>5, <2>7 DEF Deleted, HasRoot, Root, RootObj
    <3>2. CASE j = i
      <4>1. ~Active(i)'
        BY <1>1, <2>1, <2>3, <3>2 DEF Active
      <4>2. HasRoot(i)' => Root(i)'.key = Root(i).key
        BY <3>1 DEF HasRoot
      <4>3. OwnRootInv(i)' /\ UnbornInv(i)'
        BY <1>1, <1>2, <1>3, <2>7, <4>1, <4>2 DEF ShootInv, OwnRootInv, UnbornInv
      <4>. QED  BY <2>4, <3>2, <4>3 DEF ShootInv
    <3>3. CASE j # i
      <4>1. ~HasRoot(j)
        BY <2>7, <3>3, MineUnique DEF HasRoot
      <4>2. Root(j) = Root(i) /\ Root(j)' = Root(i)'
        BY <2>7 DEF Root
      <4>3. Root(j)' # None => Root(j)'.owner = Root(j).owner
        BY <3>1, <4>2
      <4>4. ~HasRoot(j)' /\ (Root(j)' # None => Root(j)'.owner # j)
        BY <2>7, <4>1, <4>2, <4>3 DEF HasRoot, Mine
      <4>5. Active(j)' => Active(j)
        BY <1>1, <2>3 DEF Active
      <4>6. OwnRootInv(j)' /\ UnbornInv(j)'
        BY <1>1, <1>3, <2>3, <4>1, <4>4, <4>5 DEF ShootInv, OwnRootInv, UnbornInv
      <4>7. JobInv(j)'
        BY <1>1, <1>3, <2>3, <3>3, <4>1 DEF ShootInv, JobInv, HasRoot, Mine
      <4>. QED  BY <4>6, <4>7 DEF ShootInv
    <3>. QED  BY <3>2, <3>3
  <2>. QED  BY <2>2, <2>6, <2>7
<1>9. CASE WaitRoot(i)
  BY <1>2, <1>3, <1>4, <1>9 DEF WaitRoot, At, ShootInv, JobInv, DeletePcs, OwnershipChecked
<1>10. CASE GetZone(i) \/ DeleteZoneNet(i) \/ DeleteZone(i) \/ CreateZone(i) \/ WaitZone(i)
            \/ WaitPropagated(i) \/ GetNet(i) \/ CreateNet(i) \/ WaitNet(i)
  <2>1. /\ job[i].op = "reconcile" /\ Root(i) # None /\ Root(i).owner = i
        /\ UNCHANGED root
    BY <1>2, <1>3, <1>10 DEF GetZone, DeleteZoneNet, DeleteZone, CreateZone, WaitZone, WaitPropagated,
      GetNet, CreateNet, WaitNet, DeleteStep, CreateStep, WaitStep, At, ShootInv, JobInv, DeletePcs,
      OwnershipChecked
  <2>2. PICK p \in OwnershipChecked \cup {"failed"}, k \in {job[i].zi, 1, job[i].zi + 1} :
          Goto(i, p) \/ GotoZone(i, p, k)
    BY <1>10 DEF GetZone, DeleteZoneNet, DeleteZone, CreateZone, WaitZone, WaitPropagated,
      GetNet, CreateNet, WaitNet, DeleteStep, CreateStep, WaitStep, OwnershipChecked
  <2>. QED  BY <1>4, <2>1, <2>2 DEF DeletePcs, OwnershipChecked
<1>11. CASE DelNet(i) \/ DelProp(i) \/ DelGlobal(i)
  <2>1. job[i].op = "delete" /\ UNCHANGED root
    BY <1>2, <1>3, <1>11 DEF DelNet, DelProp, DelGlobal, DeleteStep, At, ShootInv, JobInv, DeletePcs
  <2>2. PICK p \in DeletePcs, k \in {job[i].zi, job[i].zi + 1} : Goto(i, p) \/ GotoZone(i, p, k)
    BY <1>11 DEF DelNet, DelProp, DelGlobal, DeleteStep, DeletePcs
  <2>. QED  BY <1>4, <2>1, <2>2
<1>. QED  BY <1>5, <1>6, <1>7, <1>8, <1>9, <1>10, <1>11 DEF SubnetTask

(* The egress task touches no root subnet, and of its job only epc and ezi.  *)
LEMMA OwnershipEgressTask ==
  ASSUME TypeOK, NEW i \in Infra, EgressTask(i), NEW j \in Infra, ShootInv(j)
  PROVE  ShootInv(j)'
<1>1. /\ UNCHANGED <<cr, root>>
      /\ job \in [Infra -> JobObj]
  BY DEF EgressTask, CreateEgress, WaitEgress, CreateNat, WaitNat, DeleteNat, DeleteEgress,
    EgressCreateStep, TypeOK
<1>2. PICK p, k : EGoto(i, p) \/ EGotoZone(i, p, k)
  BY DEF EgressTask, CreateEgress, WaitEgress, CreateNat, WaitNat, DeleteNat, DeleteEgress,
    EgressCreateStep
<1>3. job'[j].op = job[j].op /\ job'[j].pc = job[j].pc
  BY <1>1, <1>2 DEF EGoto, EGotoZone, JobObj
<1>4. Root(j)' = Root(j) /\ JobInv(j)'
  BY <1>1, <1>3 DEF ShootInv, JobInv, Root
<1>. QED  BY <1>1, <1>3, <1>4, ShootFrame

(* Starting an operation.                                                   *)
LEMMA OwnershipStart ==
  ASSUME TypeOK, NEW i \in Infra, Start(i), NEW j \in Infra, ShootInv(j)
  PROVE  ShootInv(j)'
<1>1. /\ UNCHANGED <<cr, root>> /\ job \in [Infra -> JobObj] /\ Root(j)' = Root(j)
      /\ j # i => job'[j] = job[j]
  BY DEF Start, StartReconcile, StartDelete, TypeOK, Root
<1>2. CASE j # i
  BY <1>1, <1>2, ShootFrame DEF ShootInv, JobInv
<1>3. CASE StartReconcile(i) /\ j = i
  <2>1. /\ job'[i].op = "reconcile" /\ job'[i].pc = "root_get" /\ cr[i].phase = "live"
    BY <1>1, <1>3 DEF StartReconcile, Idle
  <2>2. JobInv(i)' /\ (Active(i)' => Active(i))
    BY <1>1, <2>1 DEF JobInv, Active, DeletePcs, OwnershipChecked
  <2>. QED  BY <1>1, <1>3, <2>1, <2>2 DEF ShootInv, OwnRootInv, UnbornInv, HasRoot, Mine
<1>4. CASE StartDelete(i) /\ j = i
  <2>1. /\ job'[i].op = "delete" /\ job'[i].pc = "del_net" /\ cr[i].phase = "deleting"
    BY <1>1, <1>4 DEF StartDelete, Idle
  <2>2. JobInv(i)' /\ ~Active(i)'
    BY <1>1, <2>1 DEF JobInv, Active, DeletePcs
  <2>. QED  BY <1>1, <1>4, <2>1, <2>2 DEF ShootInv, OwnRootInv, UnbornInv, HasRoot, Mine
<1>. QED  BY <1>2, <1>3, <1>4 DEF Start

(* A reconcile that succeeds publishes a status for a resource that owns    *)
(* its root; a delete that succeeds ends the resource.                     *)
LEMMA OwnershipFinish ==
  ASSUME TypeOK, NEW i \in Infra, Finish(i), NEW j \in Infra, ShootInv(j)
  PROVE  ShootInv(j)'
<1>1. /\ root' = root /\ job \in [Infra -> JobObj] /\ Root(j)' = Root(j)
      /\ job'[i].op = "none" /\ (j # i => job'[j] = job[j] /\ cr'[j] = cr[j])
      /\ job[i].op \in {"reconcile", "delete"} /\ cr \in [Infra -> CrObj] /\ cr[i].phase # "none"
  BY DEF Finish, TypeOK, Root, Idle, JobObj
<1>2. CASE j # i
  BY <1>1, <1>2, ShootFrame DEF ShootInv, JobInv
<1>3. CASE j = i
  <2>1. JobInv(i)'
    BY <1>1 DEF JobInv
  <2>2. CASE UNCHANGED cr
    <3>1. Active(i)' => Active(i)
      BY <1>1, <2>2 DEF Active
    <3>. QED  BY <1>1, <1>3, <2>1, <2>2, <3>1 DEF ShootInv, OwnRootInv, UnbornInv, HasRoot, Mine
  <2>3. CASE job[i].op = "delete" /\ cr' = [cr EXCEPT ![i].phase = "gone"]
    <3>1. cr'[i].phase = "gone"
      BY <1>1, <2>3 DEF CrObj
    <3>2. ~Active(i)' /\ UnbornInv(i)'
      BY <1>1, <3>1 DEF Active, UnbornInv
    <3>. QED  BY <1>1, <1>3, <2>1, <3>2 DEF ShootInv, OwnRootInv, HasRoot, Mine
  <2>4. CASE /\ job[i].op = "reconcile" /\ job[i].pc = "done"
             /\ cr' = [cr EXCEPT ![i].status = StatusOf(job[i].snap)]
    <3>1. cr'[i].phase = cr[i].phase
      BY <1>1, <2>4 DEF CrObj
    <3>2. HasRoot(i) /\ Active(i)
      BY <1>3, <2>4 DEF ShootInv, JobInv, OwnershipChecked, HasRoot, Mine, Active
    <3>3. HasRoot(i)'
      BY <1>1, <1>3, <3>2 DEF HasRoot, Mine
    <3>. QED  BY <1>1, <1>3, <2>1, <3>1, <3>2, <3>3 DEF ShootInv, OwnRootInv, UnbornInv
  <2>. QED  BY <1>1, <2>2, <2>3, <2>4 DEF Finish, Succeeded
<1>. QED  BY <1>2, <1>3

(* A failed call or a restart drops what a job has checked, and owns nothing. *)
LEMMA OwnershipFaults ==
  ASSUME TypeOK, NEW i \in Infra, CallFails(i) \/ Restart, NEW j \in Infra, ShootInv(j)
  PROVE  ShootInv(j)'
<1>1. /\ UNCHANGED <<cr, root>> /\ job \in [Infra -> JobObj] /\ Root(j)' = Root(j)
  BY DEF CallFails, Restart, TypeOK, Root
<1>2. CASE CallFails(i)
  <2>1. /\ job'[j].op = job[j].op
        /\ job'[j].pc \in {job[j].pc, "failed"}
    BY <1>1, <1>2 DEF CallFails, Goto, EGoto, JobObj
  <2>2. JobInv(j)'
    BY <1>1, <2>1 DEF ShootInv, JobInv, OwnershipChecked, DeletePcs
  <2>. QED  BY <1>1, <2>1, <2>2, ShootFrame
<1>3. CASE Restart
  <2>1. job'[j].op = "none"
    BY <1>3 DEF Restart, Idle
  <2>2. JobInv(j)' /\ (Active(j)' => Active(j))
    BY <1>1, <2>1 DEF JobInv, Active
  <2>. QED  BY <1>1, <2>1, <2>2 DEF ShootInv, OwnRootInv, UnbornInv, HasRoot, Mine
<1>. QED  BY <1>2, <1>3

(* Only a root subnet that somebody deleted vanishes, and no active         *)
(* resource depends on such a one.                                         *)
LEMMA OwnershipGdc ==
  ASSUME TypeOK, Gdc, NEW j \in Infra, ShootInv(j)
  PROVE  ShootInv(j)'
<1>1. /\ UNCHANGED <<cr, job>> /\ root \in [Names -> RootObj \cup {None}] /\ NameOf[j] \in Names
      /\ job[j].op \in {"none", "reconcile", "delete"}
  BY NamesAssumption DEF Gdc, RootReady, RootVanishes, SubReady, SubVanishes, Propagate, Withdraw,
    TypeOK, JobObj
<1>2. CASE Root(j)' = Root(j)
  BY <1>1, <1>2, ShootFrame DEF ShootInv, JobInv
<1>3. CASE RootReady(NameOf[j])
  <2>1. /\ Root(j) # None /\ Root(j) \in RootObj
        /\ Root(j)' = [Root(j) EXCEPT !.cond = "Ready"]
    BY <1>1, <1>3 DEF RootReady, Root
  <2>2. Root(j)' \in RootObj
    BY <2>1 DEF RootObj, Conds
  <2>3. /\ Root(j)' # None /\ Root(j)'.owner = Root(j).owner
        /\ Root(j)'.key = Root(j).key /\ Root(j)'.life = Root(j).life
    BY <2>1, <2>2, NoneAssumption DEF RootObj
  <2>4. HasRoot(j)' <=> HasRoot(j)
    BY <2>1, <2>3 DEF HasRoot, Mine
  <2>5. OwnRootInv(j)' /\ UnbornInv(j)'
    BY <1>1, <2>1, <2>3, <2>4 DEF ShootInv, OwnRootInv, UnbornInv, Active
  <2>6. JobInv(j)'
    BY <1>1, <2>1, <2>3 DEF ShootInv, JobInv
  <2>. QED  BY <2>5, <2>6 DEF ShootInv
<1>4. CASE RootVanishes(NameOf[j])
  <2>1. Root(j) # None /\ Root(j).life = "terminating" /\ Root(j)' = None
    BY <1>1, <1>4 DEF RootVanishes, Root
  <2>2. ~(HasRoot(j) /\ Active(j))
    BY <2>1 DEF ShootInv, OwnRootInv, Lives
  <2>3. Active(j)' <=> Active(j)
    BY <1>1 DEF Active
  <2>4. ~HasRoot(j)'
    BY <2>1 DEF HasRoot
  <2>5. OwnRootInv(j)' /\ UnbornInv(j)'
    BY <1>1, <2>1, <2>2, <2>3, <2>4 DEF ShootInv, OwnRootInv, UnbornInv
  <2>6. job[j].op = "reconcile" => job[j].pc \notin OwnershipChecked
    BY <2>1, <2>2 DEF ShootInv, JobInv, HasRoot, Mine, Active
  <2>7. JobInv(j)'
    BY <1>1, <2>6 DEF ShootInv, JobInv
  <2>. QED  BY <2>5, <2>7 DEF ShootInv
<1>5. Root(j)' = Root(j) \/ RootReady(NameOf[j]) \/ RootVanishes(NameOf[j])
  BY <1>1 DEF Gdc, RootReady, RootVanishes, SubReady, SubVanishes, Propagate, Withdraw, Root
<1>. QED  BY <1>2, <1>3, <1>4, <1>5

(* Who has trespassed stays recorded.                                       *)
LEMMA NoTrespasserBefore ==
  ASSUME [Next]_vars, trespassers' = {}
  PROVE  trespassers = {}
<1>1. \/ UNCHANGED trespassers
      \/ \E i \in Infra : DelNet(i) \/ DelProp(i) \/ DelGlobal(i) \/ DelRoot(i)
  BY DEF Next, User, CreateShoot, UpdateSpec, DeleteShoot, ForceDelete, Migrate, Controller, Start,
    StartReconcile, StartDelete, SubnetTask, GetRoot, AdoptRoot, CreateRoot, WaitRoot, GetZone,
    DeleteZoneNet, DeleteZone, CreateZone, WaitZone, WaitPropagated, GetNet, CreateNet, WaitNet,
    CreateStep, WaitStep, EgressTask, CreateEgress,
    WaitEgress, CreateNat, WaitNat, DeleteNat, DeleteEgress, EgressCreateStep, Finish, CallFails,
    Restart, Gdc, RootReady, RootVanishes, SubReady, SubVanishes, Propagate, Withdraw, vars
<1>2. ASSUME NEW i \in Infra, DelNet(i) \/ DelProp(i) \/ DelGlobal(i) \/ DelRoot(i)
      PROVE  trespassers \subseteq trespassers'
  BY <1>2 DEF DelNet, DelProp, DelGlobal, DelRoot, Trespass
<1>. QED  BY <1>1, <1>2

(* The ownership invariant is inductive.                                    *)
LEMMA OwnershipNext == TypeOK /\ OwnershipInv /\ [Next]_vars => OwnershipInv'
<1>. SUFFICES ASSUME TypeOK, OwnershipInv, [Next]_vars, StableRoot, trespassers' = {}, NEW j \in Infra
              PROVE  ShootInv(j)'
  BY DEF OwnershipInv, StableRoot
<1>1. trespassers = {}
  BY NoTrespasserBefore
<1>2. \A k \in Infra : ShootInv(k)
  BY <1>1 DEF OwnershipInv
<1>3. ASSUME NEW i \in Infra, User(i) PROVE ShootInv(j)'
  BY <1>2, <1>3, OwnershipUser
<1>4. ASSUME NEW i \in Infra, Start(i) PROVE ShootInv(j)'
  BY <1>2, <1>4, OwnershipStart
<1>5. ASSUME NEW i \in Infra, SubnetTask(i) PROVE ShootInv(j)'
  BY <1>2, <1>5, OwnershipSubnetTask
<1>6. ASSUME NEW i \in Infra, EgressTask(i) PROVE ShootInv(j)'
  BY <1>2, <1>6, OwnershipEgressTask
<1>7. ASSUME NEW i \in Infra, Finish(i) PROVE ShootInv(j)'
  BY <1>2, <1>7, OwnershipFinish
<1>8. ASSUME NEW i \in Infra, CallFails(i) \/ Restart PROVE ShootInv(j)'
  BY <1>2, <1>8, OwnershipFaults
<1>9. CASE Gdc
  BY <1>2, <1>9, OwnershipGdc
<1>10. CASE UNCHANGED vars
  <2>1. Root(j)' = Root(j) /\ JobInv(j)'
    BY <1>2, <1>10 DEF vars, ShootInv, JobInv, Root
  <2>. QED  BY <1>2, <1>10, <2>1, ShootFrame DEF vars
<1>. QED  BY <1>3, <1>4, <1>5, <1>6, <1>7, <1>8, <1>9, <1>10 DEF Next, Controller

(* The inductive invariant holds in every behaviour.                        *)
THEOREM OwnershipHolds == Spec => [](TypeOK /\ OwnershipInv)
<1>1. Init => TypeOK /\ OwnershipInv
  BY TypeInit, OwnershipInit
<1>2. TypeOK /\ OwnershipInv /\ [Next]_vars => (TypeOK /\ OwnershipInv)'
  BY TypeNext, OwnershipNext
<1>. QED  BY <1>1, <1>2, PTL DEF Spec

(* A provisioned shoot has a live root subnet that carries its label (or,    *)
(* before its adoption, none), as long as nobody deletes under a foreign    *)
(* root: whatever other shoots of its name do, whatever calls fail.         *)
THEOREM ProvisionedOwnsRootHolds == Spec => []ProvisionedOwnsRoot
<1>1. OwnershipInv => ProvisionedOwnsRoot
  BY DEF OwnershipInv, ProvisionedOwnsRoot, ShootInv, OwnRootInv, Provisioned, Live, Active, HasRoot
<1>. QED  BY <1>1, OwnershipHolds, PTL

(* Of all shoots with one name, in any number of projects, at most one is    *)
(* provisioned.                                                             *)
THEOREM OneHolder == Spec => []OneHolderPerName
<1>1. OwnershipInv => OneHolderPerName
  <2>. SUFFICES ASSUME OwnershipInv, StableRoot, trespassers = {}, NEW i \in Infra, NEW j \in Infra,
                       Provisioned(i), Provisioned(j), NameOf[i] = NameOf[j]
                PROVE  i = j
    BY DEF OneHolderPerName
  <2>1. Mine(i) /\ Mine(j)
    BY DEF OwnershipInv, ShootInv, OwnRootInv, Provisioned, Live, Active, HasRoot
  <2>. QED  BY <2>1, MineUnique
<1>. QED  BY <1>1, OwnershipHolds, PTL

(* No step replaces one owner label by another.                             *)
THEOREM OwnerKept == Spec => OwnerNeverReplaced
<1>. DEFINE Kept == StableRoot /\ trespassers = {} =>
       \A n \in Names : root[n] # None /\ root'[n] # None /\ root[n].owner # None
                          => root'[n].owner = root[n].owner
<1>1. TypeOK /\ OwnershipInv /\ [Next]_vars => Kept
  <2>. SUFFICES ASSUME TypeOK, OwnershipInv, [Next]_vars, StableRoot, trespassers = {}, NEW n \in Names,
                       root[n] # None, root'[n] # None, root[n].owner # None
                PROVE  root'[n].owner = root[n].owner
    OBVIOUS
  <2>1. root \in [Names -> RootObj \cup {None}] /\ root[n] \in RootObj
    BY DEF TypeOK
  <2>2. ASSUME NEW i \in Infra, AdoptRoot(i) PROVE root'[n].owner = root[n].owner
    <3>1. CASE n = NameOf[i] /\ Root(i) # None
      <4>1. job[i].op = "reconcile" /\ job[i].pc = "root_adopt"
        <5>1. job[i].op # "none" /\ job[i].pc = "root_adopt"
          BY <2>2 DEF AdoptRoot, At
        <5>2. job[i].op \in {"none", "reconcile", "delete"}
          BY DEF TypeOK, JobObj
        <5>3. JobInv(i)
          BY DEF OwnershipInv, ShootInv
        <5>4. job[i].op # "delete"
          BY <5>1, <5>3 DEF JobInv, DeletePcs
        <5>. QED  BY <5>1, <5>2, <5>4
      <4>2. Mine(i)
        BY <4>1 DEF OwnershipInv, ShootInv, OwnRootInv, JobInv, Active, HasRoot
      <4>3. root'[n].owner = i
        BY <2>1, <2>2, <3>1 DEF AdoptRoot, RootObj
      <4>. QED  BY <3>1, <4>2, <4>3 DEF Mine, Root
    <3>. QED  BY <2>1, <2>2, <3>1, NamesAssumption DEF AdoptRoot, Root
  <2>3. ASSUME NEW i \in Infra, CreateRoot(i) PROVE root'[n].owner = root[n].owner
    BY <2>1, <2>3, NamesAssumption DEF CreateRoot, Root
  <2>4. ASSUME NEW i \in Infra, DelRoot(i) PROVE root'[n].owner = root[n].owner
    BY <2>1, <2>4 DEF DelRoot, Deleted, RootObj
  <2>5. ASSUME NEW m \in Names, RootReady(m) \/ RootVanishes(m) PROVE root'[n].owner = root[n].owner
    BY <2>1, <2>5 DEF RootReady, RootVanishes, RootObj
  <2>6. \/ UNCHANGED root
        \/ \E i \in Infra : AdoptRoot(i) \/ CreateRoot(i) \/ DelRoot(i)
        \/ \E m \in Names : RootReady(m) \/ RootVanishes(m)
    BY DEF Next, User, CreateShoot, UpdateSpec, DeleteShoot, ForceDelete, Migrate, Controller, Start,
      StartReconcile, StartDelete, SubnetTask, GetRoot, WaitRoot, GetZone,
      DeleteZoneNet, DeleteZone, CreateZone, WaitZone, WaitPropagated, GetNet, CreateNet, WaitNet, DelNet,
      DelProp, DelGlobal, DeleteStep, CreateStep, WaitStep, EgressTask, CreateEgress,
      WaitEgress, CreateNat, WaitNat, DeleteNat, DeleteEgress, EgressCreateStep, Finish, CallFails,
      Restart, Gdc, SubReady, SubVanishes, Propagate, Withdraw, vars
  <2>. QED  BY <2>2, <2>3, <2>4, <2>5, <2>6
<1>2. TypeOK /\ OwnershipInv /\ [Next]_vars => [Kept]_vars
  BY <1>1
<1>3. OwnerNeverReplaced <=> [][Kept]_vars
  BY DEF OwnerNeverReplaced
<1>. QED  BY <1>2, <1>3, OwnershipHolds, PTL DEF Spec

---------------------------------------------------------------------------
(* The controller implements the lock of RootLock.tla                      *)

(* The lock is the root subnets' label and life, and who is provisioned.    *)
LEMMA LockFrame ==
  ASSUME UNCHANGED <<cr, root, trespassers>>
  PROVE  UNCHANGED Lock!lvars
BY DEF Lock!lvars, LockState, LockLabel, LockUsers, LockBroken, Provisioned, Live, StableRoot

(* While nobody has trespassed the provisioned shoots of a name are one.    *)
LEMMA UserHolds ==
  ASSUME OwnershipInv, StableRoot, trespassers = {}, NEW i \in LockUsers
  PROVE  /\ i \in Infra /\ Root(i) # None /\ Root(i).life = "live" /\ Mine(i)
         /\ \A j \in Infra : NameOf[j] = NameOf[i] /\ Mine(j) => j = i
<1>1. i \in Infra /\ Provisioned(i)
  BY DEF LockUsers
<1>2. Root(i) # None /\ Root(i).life = "live" /\ Mine(i)
  BY <1>1 DEF OwnershipInv, ShootInv, OwnRootInv, Provisioned, Live, Active, HasRoot
<1>. QED  BY <1>1, <1>2, MineUnique

(* Initially only legacy shoots hold their locks, and without a label.      *)
LEMMA LockInit == Init => Lock!Init
<1>. SUFFICES ASSUME Init PROVE Lock!Init
  OBVIOUS
<1>1. PICK c \in [Legacy -> AllConfigs] :
        /\ root = [n \in Names |-> IF \E i \in Legacy : NameOf[i] = n
                     THEN LegacyRoot(c[LegacyAt(n)]) ELSE None]
        /\ cr = [i \in Infra |-> IF i \in Legacy
                   THEN [phase |-> "live", spec |-> c[i], status |-> StatusOf(c[i])]
                   ELSE [phase |-> "none", spec |-> None, status |-> None]]
  BY DEF Init
<1>2. LockState \in [Names -> {"free", "held"}] /\ LockLabel = [n \in Names |-> None]
  BY <1>1 DEF LockState, LockLabel, LegacyRoot
<1>3. LockUsers \in SUBSET Legacy
  BY <1>1 DEF LockUsers, Provisioned, Live
<1>4. ASSUME NEW i \in Legacy PROVE NameOf[i] \in Names /\ root[NameOf[i]] # None /\ Lock!Holds(i)
  <2>1. i \in Infra /\ NameOf[i] \in Names
    BY LegacyAssumption, NamesAssumption
  <2>2. root[NameOf[i]] = LegacyRoot(c[LegacyAt(NameOf[i])])
    BY <1>1, <2>1
  <2>3. LegacyAt(NameOf[i]) = i
    BY <2>1, LegacyAssumption DEF LegacyAt
  <2>4. c[i].root \in RootKeys
    BY <2>1, LegacyAssumption, ConfigsAssumption DEF AllConfigs, Config
  <2>5. root[NameOf[i]] # None
    BY <2>2, <2>3, <2>4, NoneAssumption DEF LegacyRoot, RootObj, Conds, Lives
  <2>6. LockState[NameOf[i]] = "held" /\ LockLabel[NameOf[i]] = None
    BY <2>1, <2>2, <2>5, <1>2 DEF LockState, LegacyRoot
  <2>. QED  BY <2>1, <2>5, <2>6 DEF Lock!Holds
<1>5. LockBroken \in BOOLEAN
  BY DEF LockBroken, StableRoot
<1>. QED  BY <1>2, <1>3, <1>4, <1>5, LegacyAssumption DEF Lock!Init

(* What Gardener does to a resource ends its use of the network or nothing. *)
LEMMA LockUser ==
  ASSUME TypeOK, NEW i \in Infra, User(i)
  PROVE  Lock!EndUse(i) \/ UNCHANGED Lock!lvars
<1>1. /\ UNCHANGED <<root, trespassers>>
      /\ cr \in [Infra -> CrObj]
  BY DEF User, CreateShoot, UpdateSpec, DeleteShoot, ForceDelete, Migrate, TypeOK
<1>2. UNCHANGED <<LockState, LockLabel, LockBroken>>
  BY <1>1 DEF LockState, LockLabel, LockBroken, StableRoot
<1>3. ASSUME NEW c \in Configs[i], CreateShoot(i, c) PROVE LockUsers' = LockUsers
  BY <1>1, <1>3 DEF CreateShoot, LockUsers, Provisioned, Live
<1>4. ASSUME NEW c \in Configs[i], UpdateSpec(i, c) PROVE LockUsers' = LockUsers
  BY <1>1, <1>4 DEF UpdateSpec, LockUsers, Provisioned, Live, CrObj
<1>5. CASE DeleteShoot(i)
  <2>1. LockUsers' = LockUsers \ {i}
    BY <1>1, <1>5 DEF DeleteShoot, LockUsers, Provisioned, Live, CrObj
  <2>. QED  BY <1>2, <2>1 DEF Lock!EndUse
<1>6. ASSUME ForceDelete(i) PROVE LockUsers' = LockUsers
  BY <1>1, <1>6 DEF ForceDelete, LockUsers, Provisioned, Live, CrObj
<1>7. ASSUME NEW j \in Infra, Migrate(i, j) PROVE Lock!EndUse(i)
  <2>1. LockUsers' = LockUsers \ {i}
    BY <1>1, <1>7 DEF Migrate, LockUsers, Provisioned, Live, CrObj
  <2>. QED  BY <1>2, <2>1 DEF Lock!EndUse
<1>. QED  BY <1>2, <1>3, <1>4, <1>5, <1>6, <1>7 DEF User, Lock!lvars

(* A successful reconcile of a live shoot begins its use of the network.    *)
LEMMA LockFinish ==
  ASSUME TypeOK, OwnershipInv, StableRoot, trespassers = {}, NEW i \in Infra, Finish(i)
  PROVE  Lock!BeginUse(i) \/ Lock!EndUse(i) \/ UNCHANGED Lock!lvars
<1>1. /\ UNCHANGED <<root, trespassers>> /\ cr \in [Infra -> CrObj]
      /\ NameOf[i] \in Names
  BY NamesAssumption DEF Finish, TypeOK
<1>2. UNCHANGED <<LockState, LockLabel, LockBroken>>
  BY <1>1 DEF LockState, LockLabel, LockBroken, StableRoot
<1>3. CASE Succeeded(i) /\ job[i].op = "reconcile" /\ cr[i].phase = "live"
  <2>1. Root(i) # None /\ Root(i).owner = i
    BY <1>3 DEF OwnershipInv, ShootInv, JobInv, Succeeded, OwnershipChecked
  <2>2. Root(i).life = "live"
    BY <1>3, <2>1 DEF OwnershipInv, ShootInv, OwnRootInv, HasRoot, Mine, Active
  <2>3. LockState[NameOf[i]] = "held" /\ LockLabel[NameOf[i]] = i
    BY <1>1, <2>1, <2>2 DEF LockState, LockLabel, Root
  <2>4. LockUsers' = LockUsers \cup {i} \/ LockUsers' = LockUsers \ {i}
    BY <1>1, <1>3 DEF Finish, LockUsers, Provisioned, Live, CrObj
  <2>. QED  BY <1>2, <2>3, <2>4 DEF Lock!BeginUse, Lock!EndUse
<1>4. CASE ~(Succeeded(i) /\ job[i].op = "reconcile" /\ cr[i].phase = "live")
  <2>1. job[i].op = "delete" => cr[i].phase = "deleting"
    BY DEF OwnershipInv, ShootInv, JobInv
  <2>2. job[i].op \in {"reconcile", "delete"}
    BY DEF Finish, TypeOK, JobObj
  <2>3. LockUsers' = LockUsers
    BY <1>1, <1>4, <2>1, <2>2 DEF Finish, LockUsers, Provisioned, Live, CrObj
  <2>. QED  BY <1>2, <2>3 DEF Lock!lvars
<1>. QED  BY <1>3, <1>4

(* The steps on a root subnet are those of the lock.                        *)
LEMMA LockAdopt ==
  ASSUME TypeOK, OwnershipInv, StableRoot, trespassers = {}, NEW i \in Infra, AdoptRoot(i)
  PROVE  Lock!PutLabel(i) \/ UNCHANGED Lock!lvars
<1>1. /\ UNCHANGED <<cr, trespassers>> /\ root \in [Names -> RootObj \cup {None}]
      /\ NameOf[i] \in Names
  BY NamesAssumption DEF AdoptRoot, TypeOK
<1>2. CASE Root(i) = None
  BY <1>1, <1>2, LockFrame DEF AdoptRoot
<1>3. CASE Root(i) # None
  <2>1. job[i].op = "reconcile" /\ job[i].pc = "root_adopt"
    <3>1. job[i].op \in {"reconcile", "delete"} /\ job[i].pc = "root_adopt"
      BY DEF AdoptRoot, At, TypeOK, JobObj
    <3>2. job[i].op # "delete"
      BY <3>1 DEF OwnershipInv, ShootInv, JobInv, DeletePcs
    <3>. QED  BY <3>1, <3>2
  <2>2. Mine(i) /\ Root(i).life = "live"
    BY <2>1 DEF OwnershipInv, ShootInv, OwnRootInv, JobInv, Active, HasRoot
  <2>3. /\ root' = [root EXCEPT ![NameOf[i]].owner = i]
        /\ root[NameOf[i]] \in RootObj /\ root[NameOf[i]] # None /\ root[NameOf[i]].life = "live"
    BY <1>1, <1>3, <2>2 DEF AdoptRoot, Root
  <2>4. root'[NameOf[i]] \in RootObj /\ root'[NameOf[i]].life = "live" /\ root'[NameOf[i]].owner = i
    BY <1>1, <2>3 DEF RootObj
  <2>5. root'[NameOf[i]] # None
    BY <2>4, NoneAssumption
  <2>6. LockState' = LockState /\ LockState[NameOf[i]] = "held"
    BY <1>1, <2>3, <2>4, <2>5 DEF LockState
  <2>7. LockLabel' = [LockLabel EXCEPT ![NameOf[i]] = i]
    BY <1>1, <2>3, <2>4, <2>5 DEF LockLabel
  <2>8. UNCHANGED <<LockUsers, LockBroken>>
    BY <1>1 DEF LockUsers, LockBroken, Provisioned, Live, StableRoot
  <2>9. CASE Root(i).owner = i
    <3>1. LockLabel' = LockLabel
      BY <1>1, <2>3, <2>7, <2>9 DEF LockLabel, Root
    <3>. QED  BY <2>6, <2>8, <3>1 DEF Lock!lvars
  <2>10. CASE Root(i).owner # i
    <3>1. LockLabel[NameOf[i]] = None /\ i \in Legacy
      BY <1>1, <2>2, <2>3, <2>10 DEF LockLabel, Mine, Root
    <3>2. \A j \in LockUsers : NameOf[j] = NameOf[i] => j = i
      BY <2>2, UserHolds
    <3>. QED  BY <2>6, <2>7, <2>8, <3>1, <3>2 DEF Lock!PutLabel, Lock!Holds
  <2>. QED  BY <2>9, <2>10
<1>. QED  BY <1>2, <1>3

(* Creating the root subnet takes the free lock.                            *)
LEMMA LockCreate ==
  ASSUME TypeOK, NEW i \in Infra, CreateRoot(i)
  PROVE  Lock!Acquire(i) \/ UNCHANGED Lock!lvars
<1>1. /\ UNCHANGED <<cr, trespassers>> /\ root \in [Names -> RootObj \cup {None}]
      /\ NameOf[i] \in Names /\ job[i].op # "none" /\ job[i].snap \in Configs[i]
  BY NamesAssumption DEF CreateRoot, TypeOK, At
<1>2. CASE Root(i) # None
  BY <1>1, <1>2, LockFrame DEF CreateRoot
<1>3. CASE Root(i) = None
  <2>. DEFINE new == [owner |-> i, key |-> job[i].snap.root, cond |-> "NotReady", life |-> "live"]
  <2>1. root' = [root EXCEPT ![NameOf[i]] = new] /\ root[NameOf[i]] = None
    BY <1>3 DEF CreateRoot, Root
  <2>2. new # None
    BY <1>1, ConfigsAssumption, NoneAssumption DEF Config, RootObj, Conds, Lives
  <2>3. new.life = "live" /\ new.owner = i
    OBVIOUS
  <2>. HIDE DEF new
  <2>4. LockState[NameOf[i]] = "free" /\ LockState' = [LockState EXCEPT ![NameOf[i]] = "held"]
    BY <1>1, <2>1, <2>2, <2>3 DEF LockState
  <2>5. LockLabel' = [LockLabel EXCEPT ![NameOf[i]] = i]
    BY <1>1, <2>1, <2>2, <2>3 DEF LockLabel
  <2>6. UNCHANGED <<LockUsers, LockBroken>>
    BY <1>1 DEF LockUsers, LockBroken, Provisioned, Live, StableRoot
  <2>. QED  BY <2>4, <2>5, <2>6 DEF Lock!Acquire
<1>. QED  BY <1>2, <1>3

(* A Delete that does not trespass finds nobody using the network.          *)
LEMMA LockDelete ==
  ASSUME TypeOK, OwnershipInv, StableRoot, trespassers = {}, trespassers' = {},
         NEW i \in Infra, DelRoot(i)
  PROVE  \/ Lock!GiveBack(NameOf[i]) \/ Lock!Returned(NameOf[i]) \/ Lock!Destroy(NameOf[i])
         \/ UNCHANGED Lock!lvars
<1>1. /\ UNCHANGED <<cr, trespassers>> /\ root \in [Names -> RootObj \cup {None}]
      /\ NameOf[i] \in Names /\ root' = [root EXCEPT ![NameOf[i]] = Deleted(@)]
  BY NamesAssumption DEF DelRoot, TypeOK
<1>2. UNCHANGED <<LockUsers, LockBroken>>
  BY <1>1 DEF LockUsers, LockBroken, Provisioned, Live, StableRoot
<1>3. CASE Root(i) = None
  <2>1. root' = root
    BY <1>1, <1>3 DEF Deleted, Root
  <2>. QED  BY <1>1, <2>1, LockFrame
<1>4. CASE Root(i) # None
  <2>1. root[NameOf[i]] \in RootObj /\ root[NameOf[i]] # None
    BY <1>1, <1>4 DEF Root
  <2>2. Mine(i)
    BY <1>4 DEF DelRoot, Trespass
  <2>3. ~Live(i)
    <3>1. job[i].op \in {"reconcile", "delete"} /\ job[i].pc = "del_root"
      BY DEF DelRoot, At, TypeOK, JobObj
    <3>. QED  BY <3>1 DEF OwnershipInv, ShootInv, JobInv, DeletePcs, Live
  <2>4. \A j \in LockUsers : NameOf[j] # NameOf[i]
    BY <2>2, <2>3, UserHolds DEF LockUsers, Provisioned
  <2>5. CASE root'[NameOf[i]] = None
    <3>1. LockState' = [LockState EXCEPT ![NameOf[i]] = "free"]
      BY <1>1, <2>5 DEF LockState
    <3>2. LockLabel' = [LockLabel EXCEPT ![NameOf[i]] = None]
      BY <1>1, <2>5 DEF LockLabel
    <3>3. LockState[NameOf[i]] \in {"held", "returning"}
      BY <1>1, <2>1 DEF LockState
    <3>. QED  BY <1>2, <2>4, <3>1, <3>2, <3>3 DEF Lock!Returned, Lock!Destroy
  <2>6. CASE root'[NameOf[i]] # None
    <3>1. root'[NameOf[i]] = [root[NameOf[i]] EXCEPT !.life = "terminating"]
      BY <1>1, <2>1, <2>6 DEF Deleted
    <3>2. root'[NameOf[i]].life = "terminating" /\ root'[NameOf[i]].owner = root[NameOf[i]].owner
      BY <2>1, <3>1 DEF RootObj
    <3>3. LockState' = [LockState EXCEPT ![NameOf[i]] = "returning"]
      BY <1>1, <2>6, <3>2 DEF LockState
    <3>4. LockLabel' = LockLabel
      BY <1>1, <2>1, <2>6, <3>2 DEF LockLabel
    <3>5. CASE LockState[NameOf[i]] = "held"
      BY <1>2, <2>4, <3>3, <3>4, <3>5 DEF Lock!GiveBack
    <3>6. CASE LockState[NameOf[i]] # "held"
      <4>1. LockState' = LockState
        BY <1>1, <2>1, <3>3, <3>6 DEF LockState
      <4>. QED  BY <1>2, <3>4, <4>1 DEF Lock!lvars
    <3>. QED  BY <3>5, <3>6
  <2>. QED  BY <2>5, <2>6
<1>. QED  BY <1>3, <1>4

(* The lock is free again when GDC is done with the root subnet.             *)
LEMMA LockGdc ==
  ASSUME TypeOK, NEW n \in Names, RootReady(n) \/ RootVanishes(n)
  PROVE  Lock!Returned(n) \/ UNCHANGED Lock!lvars
<1>1. /\ UNCHANGED <<cr, trespassers>> /\ root \in [Names -> RootObj \cup {None}]
      /\ root[n] # None /\ root[n] \in RootObj
  BY DEF RootReady, RootVanishes, TypeOK
<1>2. UNCHANGED <<LockUsers, LockBroken>>
  BY <1>1 DEF LockUsers, LockBroken, Provisioned, Live, StableRoot
<1>3. CASE RootReady(n)
  <2>1. root' = [root EXCEPT ![n].cond = "Ready"]
    BY <1>3 DEF RootReady
  <2>2. /\ root'[n] \in RootObj /\ root'[n].life = root[n].life /\ root'[n].owner = root[n].owner
    BY <1>1, <2>1 DEF RootObj, Conds
  <2>3. root'[n] # None
    BY <2>2, NoneAssumption
  <2>4. UNCHANGED <<LockState, LockLabel>>
    BY <1>1, <2>1, <2>2, <2>3 DEF LockState, LockLabel
  <2>. QED  BY <1>2, <2>4 DEF Lock!lvars
<1>4. CASE RootVanishes(n)
  <2>1. root' = [root EXCEPT ![n] = None] /\ root[n].life = "terminating"
    BY <1>4 DEF RootVanishes
  <2>2. LockState[n] = "returning" /\ LockState' = [LockState EXCEPT ![n] = "free"]
    BY <1>1, <2>1 DEF LockState
  <2>3. LockLabel' = [LockLabel EXCEPT ![n] = None]
    BY <1>1, <2>1 DEF LockLabel
  <2>. QED  BY <1>2, <2>2, <2>3 DEF Lock!Returned
<1>. QED  BY <1>3, <1>4

(* Every step is a step of the lock or leaves it alone.                     *)
LEMMA LockNext ==
  TypeOK /\ OwnershipInv /\ [Next]_vars => [Lock!Next]_(Lock!lvars)
<1>. SUFFICES ASSUME TypeOK, OwnershipInv, [Next]_vars PROVE Lock!Next \/ UNCHANGED Lock!lvars
  OBVIOUS
<1>1. CASE LockBroken'
  BY <1>1 DEF Lock!Next, Lock!Broken
<1>2. CASE ~LockBroken'
  <2>1. StableRoot /\ trespassers' = {}
    BY <1>2 DEF LockBroken, StableRoot
  <2>2. trespassers = {}
    BY <2>1, NoTrespasserBefore
  <2>3. \/ UNCHANGED <<cr, root, trespassers>>
        \/ \E i \in Infra : User(i) \/ Finish(i) \/ AdoptRoot(i) \/ CreateRoot(i) \/ DelRoot(i)
        \/ \E n \in Names : RootReady(n) \/ RootVanishes(n)
    BY <2>1, <2>2 DEF Next, Controller, Start,
      StartReconcile, StartDelete, SubnetTask, GetRoot, WaitRoot, GetZone,
      DeleteZoneNet, DeleteZone, CreateZone, WaitZone, WaitPropagated, GetNet, CreateNet, WaitNet, DelNet,
      DelProp, DelGlobal, DeleteStep, CreateStep, WaitStep, Trespass, EgressTask, CreateEgress,
      WaitEgress, CreateNat, WaitNat, DeleteNat, DeleteEgress, EgressCreateStep, CallFails,
      Restart, Gdc, SubReady, SubVanishes, Propagate, Withdraw, vars
  <2>4. CASE UNCHANGED <<cr, root, trespassers>>
    BY <2>4, LockFrame
  <2>5. ASSUME NEW i \in Infra, User(i) PROVE Lock!Next \/ UNCHANGED Lock!lvars
    BY <2>5, LockUser DEF Lock!Next
  <2>6. ASSUME NEW i \in Infra, Finish(i) PROVE Lock!Next \/ UNCHANGED Lock!lvars
    BY <2>1, <2>2, <2>6, LockFinish DEF Lock!Next
  <2>7. ASSUME NEW i \in Infra, AdoptRoot(i) PROVE Lock!Next \/ UNCHANGED Lock!lvars
    BY <2>1, <2>2, <2>7, LockAdopt DEF Lock!Next
  <2>8. ASSUME NEW i \in Infra, CreateRoot(i) PROVE Lock!Next \/ UNCHANGED Lock!lvars
    BY <2>8, LockCreate DEF Lock!Next
  <2>9. ASSUME NEW i \in Infra, DelRoot(i) PROVE Lock!Next \/ UNCHANGED Lock!lvars
    <3>1. NameOf[i] \in Names
      BY NamesAssumption
    <3>. QED  BY <2>1, <2>2, <2>9, <3>1, LockDelete DEF Lock!Next
  <2>10. ASSUME NEW n \in Names, RootReady(n) \/ RootVanishes(n) PROVE Lock!Next \/ UNCHANGED Lock!lvars
    BY <2>10, LockGdc DEF Lock!Next
  <2>. QED  BY <2>3, <2>4, <2>5, <2>6, <2>7, <2>8, <2>9, <2>10
<1>. QED  BY <1>1, <1>2

(* The controller implements the lock: however reconciles and deletions of   *)
(* shoots that share a name interleave, fail and start again, their root      *)
(* subnet goes through the lock's states only, until a Delete trespasses.     *)
THEOREM LockImplementedHolds == Spec => LockImplemented
<1>1. Init => Lock!Init
  BY LockInit
<1>2. TypeOK /\ OwnershipInv /\ [Next]_vars => [Lock!Next]_(Lock!lvars)
  BY LockNext
<1>. QED  BY <1>1, <1>2, OwnershipHolds, PTL DEF Spec, LockImplemented, Lock!Spec
===============================================================================
