------------------------------ MODULE DNSRecord ------------------------------
(***************************************************************************)
(* The dnsrecord actuator.  A shoot's DNSRecord lives on the seed that runs *)
(* its control plane: first "src", and after a control plane migration     *)
(* "dst".  Both extension controllers write one ResourceRecordSet in GDC.  *)
(* DNS names are sequences of labels.                                      *)
(***************************************************************************)
EXTENDS Naturals, Sequences, FiniteSets
LOCAL INSTANCE SequencesExt

CONSTANTS
  Records,    \* the shoot's records: type and name
  Managed,    \* the ManagedDNSZones of the project
  Domain,     \* the DNS name of each of them
  SpecZones,  \* the zones a record's spec names, "none" if it may name none
  StatusZones, \* and those its status names: no code here writes it
  MaxValues,  \* bound: addresses a record changes through
  MaxErrors   \* bound: failed calls and restarts

ASSUME DomainAssumption == Domain \in [Managed -> Seq(STRING) \ {<<>>}]

Seeds == {"src", "dst"}
None == [zone |-> "none", value |-> 0]
NoRecord == [phase |-> "none", value |-> 0, zone |-> "none", status |-> "none",
             op |-> "none", done |-> "none"]

VARIABLES
  record,   \* the DNSRecord of each name on each seed
  rrs,      \* the ResourceRecordSets in GDC, by object name
  zoneOf,   \* the zone found by the handler under way
  errors
dvars == <<record, rrs, zoneOf, errors>>

(* GetDNSRecordSetName: the type, the name without a leading wildcard, and  *)
(* invalid characters replaced.                                            *)
SanitizeLabel(l) == IF l = "_acme-challenge" THEN "-acme-challenge" ELSE l
RecordSetName(r) ==
  LET bare == IF Head(r.name) = "*" THEN Tail(r.name) ELSE r.name IN
  <<r.type>> \o [i \in DOMAIN bare |-> SanitizeLabel(bare[i])]

(* A shoot's records (internal, external, ingress) have names of their own,  *)
(* and no label of a DNS name begins with a hyphen.                         *)
ASSUME RecordsAssumption ==
  \A q, r \in Records : RecordSetName(q) = RecordSetName(r) => q = r

(* findZoneWithLongestSuffix iterates over a map: among zones of one domain *)
(* any may be found.                                                       *)
MatchesDomain(name, domain) == IsSuffix(domain, name)
Matching(name) == {z \in Managed : MatchesDomain(name, Domain[z])}
FindZone(name) == {z \in Matching(name) :
                     \A y \in Matching(name) : Len(Domain[y]) <= Len(Domain[z])}

(* getZone: a zone named in the spec, or else in the status, is taken as it  *)
(* is, whatever the project's managed zones are.                            *)
ZonesOf(r, x) == CASE x.zone # "none" -> {x.zone}
                   [] x.zone = "none" /\ x.status # "none" -> {x.status}
                   [] OTHER -> FindZone(r.name)

Newest == CHOOSE v \in {record[r][s].value : r \in Records, s \in Seeds} :
            \A r \in Records, s \in Seeds : record[r][s].value <= v

---------------------------------------------------------------------------
DInit == /\ record = [r \in Records |-> [s \in Seeds |-> NoRecord]]
         /\ rrs = [n \in {RecordSetName(r) : r \in Records} |-> None]
         /\ zoneOf = [r \in Records |-> [s \in Seeds |-> "none"]]
         /\ errors = 0

Set(r, s, x) == record' = [record EXCEPT ![r][s] = x]
Deployed(zone, status, op) == [phase |-> "live", value |-> Newest + 1, zone |-> zone,
                               status |-> status, op |-> op, done |-> "none"]

(* gardenlet: it creates or updates a record and asks for a reconcile,      *)
(* migrates the record of the source seed away and then restores it on the *)
(* destination with the address of the new control plane, or deletes it.    *)
Deploy(r, s) ==
  /\ Newest < MaxValues
  /\ \E zone \in SpecZones, status \in StatusZones :
       /\ \/ s = "src" /\ record[r]["src"].phase = "none"
          \/ record[r][s].phase = "live" /\ record[r][s].op = "none" /\ status = record[r][s].status
       /\ Set(r, s, Deployed(zone, status, "reconcile"))
  /\ UNCHANGED <<rrs, zoneOf, errors>>

Again(r, s) ==
  /\ record[r][s].phase = "live" /\ record[r][s].op = "none"
  /\ Set(r, s, [record[r][s] EXCEPT !.op = "reconcile"])
  /\ UNCHANGED <<rrs, zoneOf, errors>>

AskMigrate(r) ==
  /\ record[r]["src"].phase = "live" /\ record[r]["src"].op = "none"
  /\ Set(r, "src", [record[r]["src"] EXCEPT !.op = "migrate", !.done = "none"])
  /\ UNCHANGED <<rrs, zoneOf, errors>>

AskRestore(r) ==
  /\ record[r]["src"].phase = "migrated" /\ record[r]["dst"].phase = "none"
  /\ Newest < MaxValues
  /\ \E zone \in SpecZones, status \in StatusZones : Set(r, "dst", Deployed(zone, status, "restore"))
  /\ UNCHANGED <<rrs, zoneOf, errors>>

AskDelete(r, s) ==
  /\ record[r][s].phase = "live" /\ record[r][s].op \in {"none", "reconcile"}
  /\ zoneOf[r][s] = "none"
  /\ Set(r, s, [record[r][s] EXCEPT !.phase = "deleting", !.op = "delete"])
  /\ UNCHANGED <<rrs, zoneOf, errors>>

---------------------------------------------------------------------------
Succeeds(r, s, phase) ==
  Set(r, s, [record[r][s] EXCEPT !.phase = phase, !.op = "none", !.done = record[r][s].op])

(* Reconcile, and Migrate, which calls it: getZone, then createOrUpdateRRS. *)
GetZone(r, s) ==
  /\ record[r][s].op \in {"reconcile", "migrate"} /\ zoneOf[r][s] = "none"
  /\ \E z \in ZonesOf(r, record[r][s]) : zoneOf' = [zoneOf EXCEPT ![r][s] = z]
  /\ UNCHANGED <<record, rrs, errors>>

CreateOrUpdateRRS_Create(r, s) ==
  /\ zoneOf[r][s] # "none"
  /\ rrs' = [rrs EXCEPT ![RecordSetName(r)] =
               IF @ = None THEN [zone |-> zoneOf[r][s], value |-> record[r][s].value] ELSE @]
  /\ zoneOf' = [zoneOf EXCEPT ![r][s] = "none"]
  /\ Succeeds(r, s, IF record[r][s].op = "migrate" THEN "migrated" ELSE "live")
  /\ UNCHANGED errors

CreateOrUpdateRRS_MigrateDeletes(r, s) ==
  /\ zoneOf[r][s] # "none"
  /\ rrs' = [rrs EXCEPT ![RecordSetName(r)] =
               IF record[r][s].op = "migrate" THEN None
               ELSE [zone |-> zoneOf[r][s], value |-> record[r][s].value]]
  /\ zoneOf' = [zoneOf EXCEPT ![r][s] = "none"]
  /\ Succeeds(r, s, IF record[r][s].op = "migrate" THEN "migrated" ELSE "live")
  /\ UNCHANGED errors

CreateOrUpdateRRS(r, s) ==
  /\ zoneOf[r][s] # "none"
  /\ rrs' = [rrs EXCEPT ![RecordSetName(r)] = [zone |-> zoneOf[r][s], value |-> record[r][s].value]]
  /\ zoneOf' = [zoneOf EXCEPT ![r][s] = "none"]
  /\ Succeeds(r, s, IF record[r][s].op = "migrate" THEN "migrated" ELSE "live")
  /\ UNCHANGED errors

Restore(r, s) ==
  /\ record[r][s].op = "restore"
  /\ Succeeds(r, s, "live")
  /\ UNCHANGED <<rrs, zoneOf, errors>>

Delete(r, s) ==
  /\ record[r][s].op = "delete"
  /\ rrs' = [rrs EXCEPT ![RecordSetName(r)] = None]
  /\ Succeeds(r, s, "gone")
  /\ UNCHANGED <<zoneOf, errors>>

(* The handler fails or its process restarts between its two calls.          *)
Fails(r, s) ==
  /\ zoneOf[r][s] # "none" /\ errors < MaxErrors
  /\ zoneOf' = [zoneOf EXCEPT ![r][s] = "none"]
  /\ errors' = errors + 1
  /\ UNCHANGED <<record, rrs>>

DNext == \E r \in Records :
  \/ AskMigrate(r) \/ AskRestore(r)
  \/ \E s \in Seeds : \/ Deploy(r, s) \/ Again(r, s) \/ AskDelete(r, s)
                      \/ GetZone(r, s) \/ CreateOrUpdateRRS(r, s)
                      \/ Restore(r, s) \/ Delete(r, s) \/ Fails(r, s)

DSpec == DInit /\ [][DNext]_dvars

---------------------------------------------------------------------------
(* A DNSRecord whose last reconcile succeeded is served with its own value,  *)
(* however often it changed before and whoever wrote the record set then, and *)
(* in its own zone: the one its spec names, else the one its status names,   *)
(* else the most specific managed zone of its name, where resolvers are     *)
(* sent, though the zones are looked at in the order of a map.              *)
InMostSpecificZone(name, zone) ==
  /\ MatchesDomain(name, Domain[zone])
  /\ \A z \in Managed : MatchesDomain(name, Domain[z]) => Len(Domain[z]) <= Len(Domain[zone])
ReconciledIsServed == \A r \in Records, s \in Seeds :
  LET x == record[r][s]  set == rrs[RecordSetName(r)] IN
  x.phase = "live" /\ x.done = "reconcile" /\ x.op # "reconcile" =>
    /\ set.value = x.value
    /\ x.zone # "none" => set.zone = x.zone
    /\ x.zone = "none" /\ x.status # "none" => set.zone = x.status
    /\ x.zone = "none" /\ x.status = "none" => InMostSpecificZone(r.name, set.zone)

(* Once served, a shoot's record is served until its own deletion, all        *)
(* through a migration from one seed to the other.                           *)
ServedUntilDeleted ==
  [][\A r \in Records :
       rrs[RecordSetName(r)] # None /\ (\A s \in Seeds : record[r][s].phase \notin {"deleting"})
         => rrs'[RecordSetName(r)] # None]_dvars

(* "Restore restores the DNSRecord." (actuator.go:111): once it has           *)
(* succeeded, the name leads to the control plane on the destination seed.   *)
RestoredIsServed == \A r \in Records :
  record[r]["dst"].phase = "live" /\ record[r]["dst"].done = "restore" /\ record[r]["dst"].op = "none"
    => rrs[RecordSetName(r)].value = record[r]["dst"].value
=============================================================================
