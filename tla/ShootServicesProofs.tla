------------------------ MODULE ShootServicesProofs ------------------------
(***************************************************************************)
(* The safety properties of Bastion.tla and DNSRecord.tla, for any zones,   *)
(* records, managed zones and bounds.                                      *)
(***************************************************************************)
EXTENDS Bastion, DNSRecord, TLAPS

---------------------------------------------------------------------------
(* The bastion *)
BTypeOK ==
  /\ bastion \in [phase : {"none", "live", "deleting", "gone"}, cidr : Nat,
                  zone : BZones \cup {"none"}, ingress : BOOLEAN]
  /\ first \in BZones
  /\ obj \in [BZones -> [Kinds -> {"none", "new", "ready", "deleting"}]]
  /\ cidr \in Nat /\ forced \in BOOLEAN
  /\ job = Idle \/ job \in [kind : {"reconcile", "delete"}, zone : BZones, cidr : Nat, at : 1..6]
  /\ changes \in Nat /\ fails \in Nat

(* A reconcile has made what comes before its position, a deletion has      *)
(* withdrawn it, and both go by the recorded zone: what the second undoes   *)
(* the first no longer makes, for no reconcile follows a deletion.          *)
BInv ==
  /\ OneZone
  /\ OpenOnlyForMachine
  /\ GoneLeavesNothing
  /\ bastion.phase = "gone" => job = Idle
  /\ job.kind = "delete" =>
       /\ bastion.phase = "deleting"
       /\ bastion.zone # "none" => job.zone = bastion.zone
       /\ \A z \in BZones, i \in 1..5 : i < job.at => ~Up(z, DeleteOrder[i])
  /\ job.kind = "reconcile" =>
       /\ job.zone = bastion.zone
       /\ \A i \in 1..5 : i < job.at => Up(job.zone, CreateOrder[i])
  /\ bastion.phase \in {"none", "live"} \/ job.kind = "reconcile" =>
       \A z \in BZones, k \in Kinds : obj[z][k] # "deleting"

BIInv == BTypeOK /\ BInv

(* Every step of the bastion keeps the types.                               *)
LEMMA BTypeStep ==
  ASSUME BTypeOK, [BNext]_bvars
  PROVE  BTypeOK'
<1>. USE BZonesAssumption DEF BTypeOK
<1>1. CASE StartReconcile
  BY <1>1 DEF StartReconcile, GetBastionZone, Idle
<1>2. CASE CreateNext
  BY <1>2 DEF CreateNext, CreateOrder, Kinds, Idle, PolicyAfter
<1>3. CASE Publish \/ FinishDelete
  BY <1>3 DEF Publish, FinishDelete
<1>4. CASE StartDelete
  <2>1. GetBastionZone \in BZones
    BY DEF GetBastionZone
  <2>2. job' = [kind |-> "delete", zone |-> GetBastionZone, cidr |-> 0, at |-> 1]
    BY <1>4 DEF StartDelete, Idle
  <2>. HIDE DEF GetBastionZone
  <2>. QED  BY <1>4, <2>1, <2>2 DEF StartDelete
<1>5. CASE DeleteNext
  BY <1>5 DEF DeleteNext, DeleteOrder, DeleteFails, Kinds, Idle
<1>6. CASE Ready \/ \E z \in BZones, k \in Kinds : Vanishes(z, k)
  BY <1>6 DEF Ready, BecomesReady, Vanishes
<1>7. CASE CreateBastion \/ ChangeIngress \/ ChangeZones \/ MarkDeleted
  BY <1>7 DEF CreateBastion, ChangeIngress, ChangeZones, MarkDeleted
<1>8. CASE ForceDelete \/ Interrupted
  <2>1. CASE ForceDelete
    BY <2>1 DEF ForceDelete
  <2>2. CASE Interrupted
    BY <2>2 DEF Interrupted
  <2>. QED  BY <1>8, <2>1, <2>2
<1>9. CASE UNCHANGED bvars
  BY <1>9 DEF bvars
<1>. QED  BY <1>1, <1>2, <1>3, <1>4, <1>5, <1>6, <1>7, <1>8, <1>9 DEF BNext, Worker

(* Reconcile makes what is at its position where the status says, or finds  *)
(* it made.                                                                *)
LEMMA CreateStep ==
  ASSUME BIInv, CreateNext
  PROVE  BInv'
<1>1. PICK k \in Kinds, z \in BZones :
        /\ k = CreateOrder[job.at] /\ z = job.zone
        /\ job.kind = "reconcile" /\ job.at \in 1..5
        /\ obj' = [obj EXCEPT ![z][k] = IF obj[z][k] = "none" THEN "new" ELSE obj[z][k]]
        /\ job' = Idle \/ job' = [job EXCEPT !.at = @ + 1]
        /\ UNCHANGED <<bastion, forced>>
  <2>1. job.at \in 1..5 /\ job.zone \in BZones /\ CreateOrder[job.at] \in Kinds
    BY DEF CreateNext, BIInv, BTypeOK, CreateOrder, Kinds, Idle
  <2>. QED  BY <2>1 DEF CreateNext
<1>2. z = bastion.zone /\ bastion.phase # "gone"
  BY <1>1 DEF BIInv, BInv, Idle
<1>3. \A y \in BZones, j \in Kinds : obj[y][j] \in {"none", "new", "ready"}
  BY <1>1 DEF BIInv, BInv, BTypeOK
<1>4. /\ obj'[z][k] \in {"new", "ready"}
      /\ \A y \in BZones, j \in Kinds : y # z \/ j # k => obj'[y][j] = obj[y][j]
  BY <1>1, <1>3 DEF BIInv, BTypeOK
<1>5. Up(z, k)' /\ \A y \in BZones, j \in Kinds : Up(y, j) => Up(y, j)'
  BY <1>4 DEF Up
<1>6. \A i \in 1..5 : i < job.at + 1 => Up(z, CreateOrder[i])'
  <2>1. ASSUME NEW i \in 1..5, i < job.at PROVE Up(z, CreateOrder[i])'
    <3>1. CreateOrder[i] \in Kinds /\ Up(z, CreateOrder[i])
      BY <1>1, <2>1 DEF CreateOrder, Kinds, BIInv, BInv
    <3>. QED  BY <1>5, <3>1 DEF Up
  <2>2. \A i \in 1..5 : i < job.at + 1 => i < job.at \/ i = job.at
    BY <1>1
  <2>. QED  BY <1>1, <1>5, <2>1, <2>2
<1>7. OneZone'
  BY <1>1, <1>2, <1>4 DEF BIInv, BInv, OneZone
<1>8. OpenOnlyForMachine'
  <2>1. CASE k = "policy"
    <3>1. job.at = 5
      BY <1>1, <2>1 DEF CreateOrder
    <3>2. \A j \in {"script", "disk", "vm", "access"} : Up(z, j)'
      BY <1>6, <3>1 DEF CreateOrder
    <3>3. \A y \in BZones : y # z => \A j \in Kinds : Up(y, j)' <=> Up(y, j)
      BY <1>4 DEF Up
    <3>. QED  BY <3>2, <3>3 DEF BIInv, BInv, OpenOnlyForMachine, Kinds
  <2>2. CASE k # "policy"
    <3>1. \A y \in BZones : Up(y, "policy")' => Up(y, "policy")
      BY <1>4, <2>2 DEF Up, Kinds
    <3>. QED  BY <1>5, <3>1 DEF BIInv, BInv, OpenOnlyForMachine, Kinds
  <2>. QED  BY <2>1, <2>2
<1>9. \A y \in BZones, j \in Kinds : obj'[y][j] # "deleting"
  BY <1>3, <1>4
<1>10. GoneLeavesNothing' /\ bastion'.phase # "gone"
  BY <1>1, <1>2 DEF GoneLeavesNothing
<1>11. CASE job' = Idle
  BY <1>1, <1>7, <1>8, <1>9, <1>10, <1>11 DEF BInv, Idle
<1>12. CASE job' = [job EXCEPT !.at = @ + 1]
  <2>1. job'.kind = "reconcile" /\ job'.zone = z /\ job'.at = job.at + 1
    BY <1>1, <1>12 DEF BIInv, BTypeOK, Idle
  <2>. QED  BY <1>1, <1>2, <1>6, <1>7, <1>8, <1>9, <1>10, <2>1 DEF BInv
<1>. QED  BY <1>1, <1>11, <1>12

(* Delete withdraws what is at its position, the policy before all others.  *)
LEMMA DeleteStep ==
  ASSUME BIInv, DeleteNext
  PROVE  BInv'
<1>1. PICK k \in Kinds, z \in BZones :
        /\ k = DeleteOrder[job.at] /\ z = job.zone
        /\ job.kind = "delete" /\ job.at \in 1..5
        /\ obj' = [obj EXCEPT ![z][k] = IF obj[z][k] = "none" THEN "none" ELSE "deleting"]
        /\ job' = [job EXCEPT !.at = @ + 1]
        /\ UNCHANGED <<bastion, forced>>
  <2>1. job.at \in 1..5 /\ job.zone \in BZones /\ DeleteOrder[job.at] \in Kinds
    BY DEF DeleteNext, BIInv, BTypeOK, DeleteOrder, Kinds, Idle
  <2>. QED  BY <2>1 DEF DeleteNext, DeleteFails
<1>2. bastion.phase = "deleting" /\ (bastion.zone # "none" => z = bastion.zone)
  BY <1>1 DEF BIInv, BInv
<1>3. /\ obj'[z][k] \in {"none", "deleting"}
      /\ \A y \in BZones, j \in Kinds : y # z \/ j # k => obj'[y][j] = obj[y][j]
      /\ \A y \in BZones, j \in Kinds : obj'[y][j] # "none" => obj[y][j] # "none"
  BY <1>1 DEF BIInv, BTypeOK
<1>4. ~Up(z, k)' /\ \A y \in BZones, j \in Kinds : Up(y, j)' => Up(y, j)
  BY <1>3 DEF Up
<1>5. \A y \in BZones : y # z => \A j \in Kinds : ~Up(y, j)
  BY <1>2, BZonesAssumption DEF BIInv, BInv, OneZone, Up
<1>6. \A y \in BZones, i \in 1..5 : i < job.at + 1 => ~Up(y, DeleteOrder[i])'
  <2>1. \A i \in 1..5 : DeleteOrder[i] \in Kinds
    BY DEF DeleteOrder, Kinds
  <2>2. \A i \in 1..5 : i < job.at + 1 => i < job.at \/ i = job.at
    BY <1>1
  <2>3. \A y \in BZones, i \in 1..5 : i < job.at => ~Up(y, DeleteOrder[i])
    BY <1>1 DEF BIInv, BInv
  <2>4. ASSUME NEW y \in BZones PROVE ~Up(y, k)'
    BY <1>4, <1>5
  <2>. QED  BY <1>1, <1>4, <2>1, <2>2, <2>3, <2>4
<1>7. OneZone'
  BY <1>1, <1>3 DEF BIInv, BInv, OneZone
<1>8. \A y \in BZones : ~Up(y, "policy")'
  <2>1. DeleteOrder[1] = "policy" /\ 1 < job.at + 1
    BY <1>1 DEF DeleteOrder
  <2>. QED  BY <1>6, <2>1
<1>9. job'.kind = "delete" /\ job'.zone = z /\ job'.at = job.at + 1
  BY <1>1 DEF BIInv, BTypeOK, Idle
<1>. QED  BY <1>1, <1>2, <1>6, <1>7, <1>8, <1>9 DEF BInv, OpenOnlyForMachine, GoneLeavesNothing

(* Every step of the bastion keeps what its handlers rely on.               *)
LEMMA BStep ==
  ASSUME BIInv, [BNext]_bvars
  PROVE  BInv'
<1>. USE DEF BIInv, BTypeOK, BInv, OneZone, OpenOnlyForMachine, GoneLeavesNothing, Up
<1>1. CASE StartReconcile
  BY <1>1, BZonesAssumption DEF StartReconcile, GetBastionZone, Idle
<1>2. CASE Publish
  BY <1>2 DEF Publish, Idle
<1>3. CASE StartDelete
  BY <1>3, BZonesAssumption DEF StartDelete, GetBastionZone, Idle
<1>4. CASE FinishDelete
  <2>1. job.at = 6 /\ job.kind = "delete"
    BY <1>4 DEF FinishDelete, DeleteOrder, Idle
  <2>2. \A k \in Kinds : \E i \in 1..5 : k = DeleteOrder[i]
    <3>1. /\ DeleteOrder[1] = "policy" /\ DeleteOrder[2] = "access" /\ DeleteOrder[3] = "vm"
          /\ DeleteOrder[4] = "disk" /\ DeleteOrder[5] = "script"
      BY DEF DeleteOrder
    <3>. QED  BY <3>1 DEF Kinds
  <2>3. \A z \in BZones, k \in Kinds : ~Up(z, k)
    BY <2>1, <2>2
  <2>. QED  BY <1>4, <2>3 DEF FinishDelete, Idle, Kinds
<1>5. ASSUME NEW z \in BZones, NEW k \in Kinds, BecomesReady(z, k) PROVE BInv'
  BY <1>5 DEF BecomesReady
<1>6. ASSUME NEW z \in BZones, NEW k \in Kinds, Vanishes(z, k) PROVE BInv'
  BY <1>6 DEF Vanishes
<1>7. CASE CreateBastion \/ ChangeIngress \/ ChangeZones \/ MarkDeleted
  BY <1>7 DEF CreateBastion, ChangeIngress, ChangeZones, MarkDeleted, Idle
<1>8. CASE ForceDelete \/ Interrupted
  BY <1>8 DEF ForceDelete, Interrupted, Idle
<1>9. CASE UNCHANGED bvars
  BY <1>9 DEF bvars
<1>. QED  BY CreateStep, DeleteStep, <1>1, <1>2, <1>3, <1>4, <1>5, <1>6, <1>7, <1>8, <1>9 DEF BNext, Worker, Ready

(* The inductive invariant of the bastion holds in every reachable state.   *)
LEMMA BInvariant == BSpec => []BIInv
<1>1. BInit => BIInv
  <2>. SUFFICES ASSUME BInit PROVE BIInv
    OBVIOUS
  <2>1. BTypeOK
    BY BZonesAssumption DEF BInit, BTypeOK
  <2>2. \A z \in BZones, k \in Kinds : obj[z][k] = "none"
    BY DEF BInit
  <2>3. BInv
    BY <2>2 DEF BInit, BInv, OneZone, OpenOnlyForMachine, GoneLeavesNothing, Up, Idle, Kinds
  <2>. QED  BY <2>1, <2>3 DEF BIInv
<1>2. BIInv /\ [BNext]_bvars => BIInv'
  BY BTypeStep, BStep DEF BIInv
<1>. QED  BY <1>1, <1>2, PTL DEF BSpec

(* The zone is recorded before the first object is made in it, and every     *)
(* later handler goes by the record, whatever the shoot's zones have become. *)
THEOREM BastionInOneZone == BSpec => []OneZone
<1>1. BIInv => OneZone
  BY DEF BIInv, BInv
<1>. QED  BY <1>1, BInvariant, PTL

(* The policy is the last that Reconcile makes and the first that Delete     *)
(* withdraws, wherever either was interrupted.                             *)
THEOREM BastionOpenOnlyForMachine == BSpec => []OpenOnlyForMachine
<1>1. BIInv => OpenOnlyForMachine
  BY DEF BIInv, BInv
<1>. QED  BY <1>1, BInvariant, PTL

(* A Delete that reaches its end has withdrawn every object in every zone.   *)
THEOREM BastionGone == BSpec => []GoneLeavesNothing
<1>1. BIInv => GoneLeavesNothing
  BY DEF BIInv, BInv
<1>. QED  BY <1>1, BInvariant, PTL

---------------------------------------------------------------------------
(* The DNS records *)
Phases == {"none", "live", "migrated", "deleting", "gone"}
Ops == {"none", "reconcile", "migrate", "restore", "delete"}
Fields(x) ==
  \E V : x \in [phase : Phases, value : V, zone : V, status : V, op : Ops, done : V]

(* x has the value and the zones of y.                                      *)
Like(x, y) == x.value = y.value /\ x.zone = y.zone /\ x.status = y.status
Is(x, phase, y, op, done) ==
  Fields(x) /\ x.phase = phase /\ Like(x, y) /\ x.op = op /\ x.done = done

DTypeOK ==
  /\ record = [r \in Records |-> [s \in Seeds |-> record[r][s]]]
  /\ \A r \in Records, s \in Seeds : Fields(record[r][s])
  /\ rrs = [n \in {RecordSetName(r) : r \in Records} |-> rrs[n]]
  /\ zoneOf = [r \in Records |-> [s \in Seeds |-> zoneOf[r][s]]]

(* The set of a record is as its last reconcile wrote it.                   *)
Served(r, s) == LET set == rrs[RecordSetName(r)] IN
  set.value = record[r][s].value /\ set.zone \in ZonesOf(r, record[r][s])

(* The two seeds take turns: the source has been migrated, and works on the *)
(* record no more, before there is a record on the destination.            *)
TakeTurns(r) == record[r]["dst"].phase # "none" =>
  record[r]["src"].phase = "migrated" /\ record[r]["src"].op = "none"

(* What is asked of a record goes with its phase, and the handler has found *)
(* the zone of the record it writes.                                        *)
Asked(x, zone, found) ==
  /\ x.phase = "none" => x.op = "none"
  /\ x.op = "delete" => x.phase = "deleting"
  /\ x.op \in {"reconcile", "migrate", "restore"} => x.phase = "live"
  /\ x.op = "migrate" => x.done = "none"
  /\ zone # "none" => x.op \in {"reconcile", "migrate"} /\ zone \in found

Reconciled(x) == x.phase = "live" /\ x.done = "reconcile" /\ x.op # "reconcile"

DInv == \A r \in Records :
  /\ TakeTurns(r)
  /\ \A s \in Seeds : /\ Asked(record[r][s], zoneOf[r][s], ZonesOf(r, record[r][s]))
                      /\ Reconciled(record[r][s]) => Served(r, s)

DIInv == DTypeOK /\ DInv

(* Setting a record leaves every other one as it is.                        *)
LEMMA SetRecord ==
  ASSUME DTypeOK, NEW r \in Records, NEW s \in Seeds, NEW x, Fields(x), Set(r, s, x)
  PROVE  /\ record' = [q \in Records |-> [t \in Seeds |-> record'[q][t]]]
         /\ record'[r][s] = x
         /\ \A q \in Records, t \in Seeds : q # r \/ t # s => record'[q][t] = record[q][t]
         /\ \A q \in Records, t \in Seeds : Fields(record'[q][t])
<1>. DEFINE f == [q \in Records |-> [t \in Seeds |-> IF q = r /\ t = s THEN x ELSE record[q][t]]]
<1>1. record' = f
  BY DEF DTypeOK, Set
<1>2. \A q \in Records, t \in Seeds : f[q][t] = IF q = r /\ t = s THEN x ELSE record[q][t]
  OBVIOUS
<1>. QED  BY <1>1, <1>2 DEF DTypeOK

(* A step that works on one record of one seed keeps the invariant if it    *)
(* does so for this record.                                                *)
LEMMA OneRecordStep ==
  ASSUME DIInv, NEW r \in Records, NEW s \in Seeds, NEW x, NEW z,
         Fields(x), Set(r, s, x), zoneOf' = [zoneOf EXCEPT ![r][s] = z],
         rrs' = [n \in {RecordSetName(q) : q \in Records} |-> rrs'[n]],
         \A q \in Records \ {r} : rrs'[RecordSetName(q)] = rrs[RecordSetName(q)],
         Asked(x, z, ZonesOf(r, x)), TakeTurns(r)',
         \A t \in Seeds : Reconciled(record'[r][t]) => Served(r, t)'
  PROVE  DIInv'
<1>. USE DEF DIInv
<1>1. /\ record' = [q \in Records |-> [t \in Seeds |-> record'[q][t]]]
      /\ record'[r][s] = x
      /\ \A q \in Records, t \in Seeds : q # r \/ t # s => record'[q][t] = record[q][t]
      /\ \A q \in Records, t \in Seeds : Fields(record'[q][t])
  BY SetRecord
<1>2. /\ zoneOf' = [q \in Records |-> [t \in Seeds |-> zoneOf'[q][t]]]
      /\ zoneOf'[r][s] = z
      /\ \A q \in Records, t \in Seeds : q # r \/ t # s => zoneOf'[q][t] = zoneOf[q][t]
  <2>. DEFINE f == [q \in Records |-> [t \in Seeds |-> IF q = r /\ t = s THEN z ELSE zoneOf[q][t]]]
  <2>1. zoneOf' = f
    BY DEF DTypeOK
  <2>2. \A q \in Records, t \in Seeds : f[q][t] = IF q = r /\ t = s THEN z ELSE zoneOf[q][t]
    OBVIOUS
  <2>3. \A q \in Records, t \in Seeds : zoneOf'[q][t] = IF q = r /\ t = s THEN z ELSE zoneOf[q][t]
    BY <2>1, <2>2
  <2>4. zoneOf' = [q \in Records |-> [t \in Seeds |-> zoneOf'[q][t]]]
    BY <2>1, <2>3
  <2>. QED  BY <2>3, <2>4
<1>3. DTypeOK'
  BY <1>1, <1>2 DEF DTypeOK
<1>4. ASSUME NEW q \in Records, q # r
      PROVE  /\ TakeTurns(q)'
             /\ \A t \in Seeds : /\ Asked(record'[q][t], zoneOf'[q][t], ZonesOf(q, record'[q][t]))
                                 /\ Reconciled(record'[q][t]) => Served(q, t)'
  <2>1. \A t \in Seeds : record'[q][t] = record[q][t] /\ zoneOf'[q][t] = zoneOf[q][t]
    BY <1>1, <1>2, <1>4
  <2>2. rrs'[RecordSetName(q)] = rrs[RecordSetName(q)]
    BY <1>4
  <2>. QED  BY <2>1, <2>2 DEF DInv, TakeTurns, Served, Seeds
<1>5. ASSUME NEW t \in Seeds PROVE Asked(record'[r][t], zoneOf'[r][t], ZonesOf(r, record'[r][t]))
  <2>1. CASE t = s
    BY <1>1, <1>2, <2>1
  <2>2. CASE t # s
    <3>1. record'[r][t] = record[r][t] /\ zoneOf'[r][t] = zoneOf[r][t]
      BY <1>1, <1>2, <2>2
    <3>2. Asked(record[r][t], zoneOf[r][t], ZonesOf(r, record[r][t]))
      BY DEF DInv
    <3>. QED  BY <3>1, <3>2 DEF Asked
  <2>. QED  BY <2>1, <2>2
<1>. QED  BY <1>3, <1>4, <1>5 DEF DInv

(* What the gardenlet and a handler write keeps the fields of a record.     *)
LEMMA Written ==
  ASSUME NEW z, NEW u, NEW o \in Ops
  PROVE  /\ Fields(Deployed(z, u, o)) /\ Deployed(z, u, o).phase = "live"
         /\ Deployed(z, u, o).op = o /\ Deployed(z, u, o).done = "none"
<1>. DEFINE W == {Newest + 1, z, u, "none"}
<1>1. Deployed(z, u, o) \in [phase : Phases, value : W, zone : W, status : W, op : Ops, done : W]
  BY DEF Deployed, Phases
<1>. QED  BY <1>1 DEF Fields, Deployed

(* What is updated keeps them too, and its other fields.                    *)
LEMMA Updated ==
  ASSUME NEW y, Fields(y), NEW p \in Phases, NEW o \in Ops, NEW d
  PROVE  /\ Is([y EXCEPT !.op = o], y.phase, y, o, y.done)
         /\ Is([y EXCEPT !.op = o, !.done = d], y.phase, y, o, d)
         /\ Is([y EXCEPT !.phase = p, !.op = o], p, y, o, y.done)
         /\ Is([y EXCEPT !.phase = p, !.op = o, !.done = d], p, y, o, d)
<1>1. PICK V : y \in [phase : Phases, value : V, zone : V, status : V, op : Ops, done : V]
  BY DEF Fields
<1>. DEFINE W == V \cup {d}
            T == [phase : Phases, value : W, zone : W, status : W, op : Ops, done : W]
<1>2. /\ [y EXCEPT !.op = o] \in T
      /\ [y EXCEPT !.phase = p, !.op = o] \in T
  BY <1>1
<1>3. [y EXCEPT !.op = o, !.done = d] \in T
  BY <1>1
<1>4. [y EXCEPT !.phase = p, !.op = o, !.done = d] \in T
  BY <1>1
<1>5. Is([y EXCEPT !.op = o], y.phase, y, o, y.done)
  BY <1>1, <1>2 DEF Is, Like, Fields
<1>6. Is([y EXCEPT !.op = o, !.done = d], y.phase, y, o, d)
  BY <1>1, <1>3 DEF Is, Like, Fields
<1>7. Is([y EXCEPT !.phase = p, !.op = o], p, y, o, y.done)
  BY <1>1, <1>2 DEF Is, Like, Fields
<1>8. Is([y EXCEPT !.phase = p, !.op = o, !.done = d], p, y, o, d)
  BY <1>1, <1>4 DEF Is, Like, Fields
<1>. QED  BY <1>5, <1>6, <1>7, <1>8

(* Every step keeps the invariant of the records.                           *)
LEMMA DStep ==
  ASSUME DIInv, [DNext]_dvars
  PROVE  DIInv'
<1>. USE DEF DIInv
<1>1. ASSUME NEW r \in Records, NEW s \in Seeds
      PROVE  /\ Fields(record[r][s]) /\ zoneOf = [zoneOf EXCEPT ![r][s] = zoneOf[r][s]]
             /\ Asked(record[r][s], zoneOf[r][s], ZonesOf(r, record[r][s]))
             /\ Reconciled(record[r][s]) => Served(r, s)
             /\ TakeTurns(r)
             /\ rrs = [n \in {RecordSetName(q) : q \in Records} |-> rrs[n]]
  BY DEF DTypeOK, DInv
<1>2. ASSUME NEW r \in Records, NEW s \in Seeds, NEW x, Fields(x), Set(r, s, x)
      PROVE  /\ record'[r][s] = x
             /\ \A t \in Seeds : t # s => record'[r][t] = record[r][t]
             /\ (s = "src" => record'[r]["dst"] = record[r]["dst"])
             /\ (s = "dst" => record'[r]["src"] = record[r]["src"])
  BY <1>2, SetRecord DEF Seeds
<1>3. ASSUME NEW r \in Records, NEW s \in Seeds, NEW x, Fields(x), Set(r, s, x),
             UNCHANGED <<rrs, zoneOf>>, Asked(x, zoneOf[r][s], ZonesOf(r, x)), TakeTurns(r)',
             Reconciled(x) => Reconciled(record[r][s]) /\ Like(x, record[r][s])
      PROVE  DIInv'
  <2>1. record'[r][s] = x /\ \A t \in Seeds : t # s => record'[r][t] = record[r][t]
    BY <1>2, <1>3
  <2>2. \A t \in Seeds : Reconciled(record[r][t]) => Served(r, t)
    BY <1>1
  <2>3. ASSUME NEW t \in Seeds, Reconciled(record'[r][t]) PROVE Served(r, t)'
    <3>1. Reconciled(record[r][t]) /\ Like(record'[r][t], record[r][t])
      BY <1>3, <2>1, <2>3 DEF Like
    <3>. QED  BY <1>3, <2>2, <3>1 DEF Served, ZonesOf, Like
  <2>. QED  BY <1>1, <1>3, <2>3, OneRecordStep
<1>4. ASSUME NEW r \in Records, AskMigrate(r) PROVE DIInv'
  <2>. DEFINE x == [record[r]["src"] EXCEPT !.op = "migrate", !.done = "none"]
  <2>1. Set(r, "src", x)
    BY <1>4 DEF AskMigrate
  <2>2. Fields(x) /\ x.phase = "live" /\ x.op = "migrate" /\ x.done = "none"
    <3>1. Is(x, record[r]["src"].phase, record[r]["src"], "migrate", "none")
      BY <1>1, Updated DEF Phases, Ops, Seeds
    <3>. QED  BY <1>4, <3>1 DEF AskMigrate, Is
  <2>. HIDE DEF x
  <2>3. Asked(x, zoneOf[r]["src"], ZonesOf(r, x)) /\ ~Reconciled(x)
    BY <1>1, <1>4, <2>2 DEF AskMigrate, Asked, Reconciled, Seeds
  <2>4. TakeTurns(r)'
    BY <1>1, <1>2, <1>4, <2>1, <2>2 DEF AskMigrate, TakeTurns, Asked, Seeds
  <2>. QED  BY <1>3, <1>4, <2>1, <2>2, <2>3, <2>4 DEF AskMigrate, Seeds
<1>5. ASSUME NEW r \in Records, AskRestore(r) PROVE DIInv'
  <2>1. PICK z \in SpecZones, u \in StatusZones : Set(r, "dst", Deployed(z, u, "restore"))
    BY <1>5 DEF AskRestore
  <2>. DEFINE x == Deployed(z, u, "restore")
  <2>2. Set(r, "dst", x) /\ Fields(x) /\ x.phase = "live" /\ x.op = "restore" /\ x.done = "none"
    BY <2>1, Written DEF Ops
  <2>. HIDE DEF x
  <2>3. Asked(x, zoneOf[r]["dst"], ZonesOf(r, x)) /\ ~Reconciled(x)
    BY <1>1, <1>5, <2>2 DEF AskRestore, Asked, Reconciled, Seeds
  <2>4. TakeTurns(r)'
    <3>1. record'[r]["dst"] = x /\ record'[r]["src"] = record[r]["src"]
      BY <1>2, <2>2 DEF Seeds
    <3>2. record[r]["src"].op = "none"
      BY <1>1, <1>5 DEF AskRestore, Asked, Fields, Ops, Seeds
    <3>. QED  BY <1>5, <3>1, <3>2 DEF AskRestore, TakeTurns
  <2>. QED  BY <1>3, <1>5, <2>2, <2>3, <2>4 DEF AskRestore, Seeds
<1>6. ASSUME NEW r \in Records, NEW s \in Seeds, Deploy(r, s) PROVE DIInv'
  <2>1. PICK z \in SpecZones, u \in StatusZones :
          /\ Set(r, s, Deployed(z, u, "reconcile"))
          /\ \/ s = "src" /\ record[r]["src"].phase = "none"
             \/ record[r][s].phase = "live" /\ record[r][s].op = "none"
    BY <1>6 DEF Deploy
  <2>. DEFINE x == Deployed(z, u, "reconcile")
  <2>2. Set(r, s, x) /\ Fields(x) /\ x.phase = "live" /\ x.op = "reconcile" /\ x.done = "none"
    BY <2>1, Written DEF Ops
  <2>. HIDE DEF x
  <2>3. Asked(x, zoneOf[r][s], ZonesOf(r, x)) /\ ~Reconciled(x)
    <3>1. Asked(record[r][s], zoneOf[r][s], ZonesOf(r, record[r][s]))
      BY <1>1
    <3>2. record[r][s].op = "none"
      BY <2>1, <3>1 DEF Asked
    <3>. QED  BY <2>2, <3>1, <3>2 DEF Asked, Reconciled
  <2>4. TakeTurns(r)'
    <3>1. CASE s = "src"
      <4>1. record'[r]["dst"] = record[r]["dst"] /\ record[r]["src"].phase # "migrated"
        BY <1>2, <2>1, <2>2, <3>1
      <4>. QED  BY <1>1, <4>1 DEF TakeTurns
    <3>2. CASE s = "dst"
      <4>1. record'[r]["src"] = record[r]["src"] /\ record[r]["dst"].phase # "none"
        BY <1>2, <2>1, <2>2, <3>2
      <4>. QED  BY <1>1, <4>1 DEF TakeTurns
    <3>. QED  BY <3>1, <3>2 DEF Seeds
  <2>. QED  BY <1>3, <1>6, <2>2, <2>3, <2>4 DEF Deploy
<1>7. ASSUME NEW r \in Records, NEW s \in Seeds, Again(r, s) PROVE DIInv'
  <2>. DEFINE x == [record[r][s] EXCEPT !.op = "reconcile"]
  <2>1. Set(r, s, x)
    BY <1>7 DEF Again
  <2>2. Fields(x) /\ x.phase = "live" /\ x.op = "reconcile" /\ x.done = record[r][s].done
    <3>1. Is(x, record[r][s].phase, record[r][s], "reconcile", record[r][s].done)
      BY <1>1, Updated DEF Phases, Ops
    <3>. QED  BY <1>7, <3>1 DEF Again, Is
  <2>. HIDE DEF x
  <2>3. Asked(x, zoneOf[r][s], ZonesOf(r, x)) /\ ~Reconciled(x)
    BY <1>1, <1>7, <2>2 DEF Again, Asked, Reconciled
  <2>4. TakeTurns(r)'
    <3>1. CASE s = "src"
      <4>1. record'[r]["dst"] = record[r]["dst"] /\ record[r]["src"].phase # "migrated"
        BY <1>2, <1>7, <2>1, <2>2, <3>1 DEF Again
      <4>. QED  BY <1>1, <4>1 DEF TakeTurns
    <3>2. CASE s = "dst"
      <4>1. record'[r]["src"] = record[r]["src"] /\ record[r]["dst"].phase # "none"
        BY <1>2, <1>7, <2>1, <2>2, <3>2 DEF Again
      <4>. QED  BY <1>1, <4>1 DEF TakeTurns
    <3>. QED  BY <3>1, <3>2 DEF Seeds
  <2>. QED  BY <1>3, <1>7, <2>1, <2>2, <2>3, <2>4 DEF Again
<1>8. ASSUME NEW r \in Records, NEW s \in Seeds, AskDelete(r, s) PROVE DIInv'
  <2>. DEFINE x == [record[r][s] EXCEPT !.phase = "deleting", !.op = "delete"]
  <2>1. Set(r, s, x)
    BY <1>8 DEF AskDelete
  <2>2. Fields(x) /\ x.phase = "deleting" /\ x.op = "delete" /\ x.done = record[r][s].done
    <3>1. Is(x, "deleting", record[r][s], "delete", record[r][s].done)
      BY <1>1, Updated DEF Phases, Ops
    <3>. QED  BY <1>8, <3>1 DEF Is
  <2>. HIDE DEF x
  <2>3. Asked(x, zoneOf[r][s], ZonesOf(r, x)) /\ ~Reconciled(x)
    BY <1>1, <1>8, <2>2 DEF AskDelete, Asked, Reconciled
  <2>4. TakeTurns(r)'
    <3>1. CASE s = "src"
      <4>1. record'[r]["dst"] = record[r]["dst"] /\ record[r]["src"].phase # "migrated"
        BY <1>2, <1>8, <2>1, <2>2, <3>1 DEF AskDelete
      <4>. QED  BY <1>1, <4>1 DEF TakeTurns
    <3>2. CASE s = "dst"
      <4>1. record'[r]["src"] = record[r]["src"] /\ record[r]["dst"].phase # "none"
        BY <1>2, <1>8, <2>1, <2>2, <3>2 DEF AskDelete
      <4>. QED  BY <1>1, <4>1 DEF TakeTurns
    <3>. QED  BY <3>1, <3>2 DEF Seeds
  <2>. QED  BY <1>3, <1>8, <2>1, <2>2, <2>3, <2>4 DEF AskDelete
<1>9. ASSUME NEW r \in Records, NEW s \in Seeds, Restore(r, s) PROVE DIInv'
  <2>. DEFINE x == [record[r][s] EXCEPT !.phase = "live", !.op = "none", !.done = record[r][s].op]
  <2>1. Set(r, s, x)
    BY <1>9 DEF Restore, Succeeds
  <2>2. Fields(x) /\ x.phase = "live" /\ x.op = "none" /\ x.done = "restore"
    <3>1. Is(x, "live", record[r][s], "none", record[r][s].op)
      BY <1>1, Updated DEF Phases, Ops
    <3>. QED  BY <1>9, <3>1 DEF Restore, Is
  <2>. HIDE DEF x
  <2>3. Asked(x, zoneOf[r][s], ZonesOf(r, x)) /\ ~Reconciled(x)
    BY <1>1, <1>9, <2>2 DEF Restore, Asked, Reconciled
  <2>4. TakeTurns(r)'
    <3>1. record[r][s].op = "restore" /\ record[r][s].phase = "live"
      BY <1>1, <1>9 DEF Restore, Asked
    <3>2. record'[r][s] = x /\ \A t \in Seeds : t # s => record'[r][t] = record[r][t]
      BY <1>2, <2>1, <2>2
    <3>3. TakeTurns(r)
      BY <1>1
    <3>. QED  BY <2>2, <3>1, <3>2, <3>3 DEF TakeTurns, Seeds
  <2>. QED  BY <1>3, <1>9, <2>1, <2>2, <2>3, <2>4 DEF Restore
<1>10. ASSUME NEW r \in Records, NEW s \in Seeds, GetZone(r, s) \/ Fails(r, s) PROVE DIInv'
  <2>. DEFINE x == record[r][s]
  <2>1. PICK z :
          /\ zoneOf' = [zoneOf EXCEPT ![r][s] = z]
          /\ Asked(x, z, ZonesOf(r, x))
    BY <1>1, <1>10 DEF GetZone, Fails, Asked
  <2>2. Fields(x) /\ Set(r, s, x) /\ TakeTurns(r)'
    <3>1. Fields(x) /\ TakeTurns(r) /\ UNCHANGED record
      BY <1>1, <1>10 DEF GetZone, Fails
    <3>2. Set(r, s, x)
      BY <3>1 DEF Set, DTypeOK
    <3>. QED  BY <3>1, <3>2 DEF TakeTurns
  <2>3. \A t \in Seeds : Reconciled(record'[r][t]) => Served(r, t)'
    BY <1>1, <1>10 DEF GetZone, Fails, Served, ZonesOf
  <2>. HIDE DEF x
  <2>. QED  BY <1>1, <1>10, <2>1, <2>2, <2>3, OneRecordStep DEF GetZone, Fails
<1>11. ASSUME NEW r \in Records, NEW s \in Seeds, CreateOrUpdateRRS(r, s) PROVE DIInv'
  <2>. DEFINE phase == IF record[r][s].op = "migrate" THEN "migrated" ELSE "live"
              x == [record[r][s] EXCEPT !.phase = phase, !.op = "none", !.done = record[r][s].op]
  <2>1. /\ zoneOf[r][s] # "none" /\ zoneOf[r][s] \in ZonesOf(r, record[r][s])
        /\ record[r][s].op \in {"reconcile", "migrate"} /\ record[r][s].phase = "live"
    <3>1. zoneOf[r][s] # "none" /\ Asked(record[r][s], zoneOf[r][s], ZonesOf(r, record[r][s]))
      BY <1>1, <1>11 DEF CreateOrUpdateRRS
    <3>. QED  BY <3>1 DEF Asked
  <2>2. Set(r, s, x)
    BY <1>11 DEF CreateOrUpdateRRS, Succeeds
  <2>3. Fields(x) /\ x.phase \in {"migrated", "live"} /\ x.op = "none" /\ Like(x, record[r][s])
    <3>1. Is(x, phase, record[r][s], "none", record[r][s].op)
      BY <1>1, Updated DEF Phases, Ops
    <3>. QED  BY <1>11, <3>1 DEF Is
  <2>. HIDE DEF x
  <2>4. Asked(x, "none", ZonesOf(r, x))
    BY <2>3 DEF Asked
  <2>5. record'[r][s] = x /\ \A t \in Seeds : t # s => record'[r][t] = record[r][t]
    BY <1>2, <2>2, <2>3
  <2>6. TakeTurns(r)' /\ \A t \in Seeds : t # s => ~Reconciled(record'[r][t])
    <3>1. CASE s = "src"
      <4>1. record'[r]["dst"] = record[r]["dst"] /\ record[r]["dst"].phase = "none"
        BY <1>1, <2>1, <2>5, <3>1 DEF TakeTurns, Seeds
      <4>. QED  BY <3>1, <4>1 DEF TakeTurns, Reconciled, Seeds
    <3>2. CASE s = "dst"
      <4>1. record'[r]["src"] = record[r]["src"] /\ record[r]["src"].phase = "migrated" /\ record[r]["src"].op = "none"
        BY <1>1, <2>1, <2>5, <3>2 DEF TakeTurns, Seeds
      <4>. QED  BY <3>2, <4>1 DEF TakeTurns, Reconciled, Seeds
    <3>. QED  BY <3>1, <3>2 DEF Seeds
  <2>7. Served(r, s)'
    <3>1. rrs'[RecordSetName(r)] = [zone |-> zoneOf[r][s], value |-> record[r][s].value]
      BY <1>1, <1>11 DEF CreateOrUpdateRRS
    <3>. QED  BY <2>1, <2>3, <2>5, <3>1 DEF Served, ZonesOf, Like
  <2>8. /\ rrs' = [n \in {RecordSetName(q) : q \in Records} |-> rrs'[n]]
        /\ \A q \in Records \ {r} : rrs'[RecordSetName(q)] = rrs[RecordSetName(q)]
    BY <1>1, <1>11, RecordsAssumption DEF CreateOrUpdateRRS
  <2>. QED  BY <1>11, <2>2, <2>3, <2>4, <2>6, <2>7, <2>8, OneRecordStep DEF CreateOrUpdateRRS
<1>12. ASSUME NEW r \in Records, NEW s \in Seeds, Delete(r, s) PROVE DIInv'
  <2>. DEFINE x == [record[r][s] EXCEPT !.phase = "gone", !.op = "none", !.done = record[r][s].op]
  <2>1. record[r][s].op = "delete" /\ record[r][s].phase = "deleting"
    BY <1>1, <1>12 DEF Delete, Asked
  <2>2. Set(r, s, x)
    BY <1>12 DEF Delete, Succeeds
  <2>3. Fields(x) /\ x.phase = "gone" /\ x.op = "none"
    <3>1. Is(x, "gone", record[r][s], "none", record[r][s].op)
      BY <1>1, Updated DEF Phases, Ops
    <3>. QED  BY <1>12, <3>1 DEF Is
  <2>. HIDE DEF x
  <2>4. Asked(x, zoneOf[r][s], ZonesOf(r, x))
    BY <1>1, <2>1, <2>3 DEF Asked
  <2>5. record'[r][s] = x /\ \A t \in Seeds : t # s => record'[r][t] = record[r][t]
    BY <1>2, <2>2, <2>3
  <2>6. TakeTurns(r)' /\ \A t \in Seeds : ~Reconciled(record'[r][t])
    BY <1>1, <2>1, <2>3, <2>5 DEF TakeTurns, Reconciled, Seeds
  <2>7. /\ rrs' = [n \in {RecordSetName(q) : q \in Records} |-> rrs'[n]]
        /\ \A q \in Records \ {r} : rrs'[RecordSetName(q)] = rrs[RecordSetName(q)]
    BY <1>1, <1>12, RecordsAssumption DEF Delete
  <2>. QED  BY <1>1, <1>12, <2>2, <2>3, <2>4, <2>6, <2>7, OneRecordStep DEF Delete
<1>13. CASE UNCHANGED dvars
  BY <1>13 DEF dvars, DTypeOK, DInv, TakeTurns, Served, ZonesOf
<1>. QED  BY <1>4, <1>5, <1>6, <1>7, <1>8, <1>9, <1>10, <1>11, <1>12, <1>13 DEF DNext

(* The inductive invariant of the records holds in every reachable state.   *)
LEMMA DInvariant == DSpec => []DIInv
<1>1. DInit => DIInv
  <2>. SUFFICES ASSUME DInit PROVE DIInv
    OBVIOUS
  <2>1. \A r \in Records, s \in Seeds : record[r][s] = NoRecord /\ zoneOf[r][s] = "none"
    BY DEF DInit
  <2>2. Fields(NoRecord) /\ NoRecord.phase = "none" /\ NoRecord.op = "none"
    <3>1. NoRecord \in [phase : Phases, value : {0, "none"}, zone : {0, "none"},
                       status : {0, "none"}, op : Ops, done : {0, "none"}]
      BY DEF NoRecord, Phases, Ops
    <3>. QED  BY <3>1 DEF Fields, NoRecord
  <2>3. DTypeOK
    BY <2>1, <2>2 DEF DInit, DTypeOK
  <2>4. DInv
    BY <2>1, <2>2 DEF DInv, TakeTurns, Asked, Reconciled, Seeds
  <2>. QED  BY <2>3, <2>4 DEF DIInv
<1>2. DIInv /\ [DNext]_dvars => DIInv'
  BY DStep
<1>. QED  BY <1>1, <1>2, PTL DEF DSpec

(* What a reconcile reported done has written is not written over: the other  *)
(* seed's controller works on the record set only before or after.         *)
THEOREM RecordIsServed == DSpec => []ReconciledIsServed
<1>1. DIInv => ReconciledIsServed
  <2>. SUFFICES ASSUME DIInv, NEW r \in Records, NEW s \in Seeds, Reconciled(record[r][s])
                PROVE  LET x == record[r][s]  set == rrs[RecordSetName(r)] IN
                       /\ set.value = x.value
                       /\ x.zone # "none" => set.zone = x.zone
                       /\ x.zone = "none" /\ x.status # "none" => set.zone = x.status
                       /\ x.zone = "none" /\ x.status = "none" => InMostSpecificZone(r.name, set.zone)
    BY DEF ReconciledIsServed, Reconciled
  <2>1. \A z \in FindZone(r.name) : InMostSpecificZone(r.name, z)
    BY DEF FindZone, Matching, InMostSpecificZone
  <2>2. Served(r, s)
    BY DEF DIInv, DInv
  <2>. QED  BY <2>1, <2>2 DEF Served, ZonesOf
<1>. QED  BY <1>1, DInvariant, PTL

(* Migrate writes the record set again and Restore leaves it, so only the     *)
(* Delete of a record that is being deleted takes it away.                 *)
THEOREM RecordServedUntilDeleted == DSpec => ServedUntilDeleted
<1>1. DIInv /\ [DNext]_dvars
      => [\A r \in Records :
            rrs[RecordSetName(r)] # None /\ (\A s \in Seeds : record[r][s].phase \notin {"deleting"})
              => rrs'[RecordSetName(r)] # None]_dvars
  <2>1. ASSUME DIInv, NEW q \in Records, NEW s \in Seeds, CreateOrUpdateRRS(q, s), NEW r \in Records,
               rrs[RecordSetName(r)] # None
        PROVE  rrs'[RecordSetName(r)] # None
    BY <2>1 DEF CreateOrUpdateRRS, DIInv, DTypeOK, None
  <2>2. ASSUME DIInv, NEW q \in Records, NEW s \in Seeds, Delete(q, s), NEW r \in Records,
               rrs[RecordSetName(r)] # None, record[r][s].phase # "deleting"
        PROVE  rrs'[RecordSetName(r)] # None
    <3>1. record[q][s].phase = "deleting"
      BY <2>2 DEF Delete, DIInv, DInv, Asked
    <3>2. RecordSetName(r) # RecordSetName(q)
      BY <2>2, <3>1, RecordsAssumption
    <3>. QED  BY <2>2, <3>2 DEF Delete, DIInv, DTypeOK
  <2>3. ASSUME DNext, \A q \in Records, s \in Seeds : ~CreateOrUpdateRRS(q, s) /\ ~Delete(q, s)
        PROVE  rrs' = rrs
    BY <2>3 DEF DNext, AskMigrate, AskRestore, Deploy, Again, AskDelete, GetZone, Restore, Fails
  <2>. QED  BY <2>1, <2>2, <2>3
<1>. QED  BY <1>1, DInvariant, PTL DEF DSpec, ServedUntilDeleted
=============================================================================
