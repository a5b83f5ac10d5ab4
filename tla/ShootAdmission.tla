--------------------------- MODULE ShootAdmission ---------------------------
(***************************************************************************)
(* The validating webhook for shoots (pkg/admission/validator/shoot.go)    *)
(* with the InfrastructureConfig rules of pkg/apis/gdc/validation.  A       *)
(* request is validated against the webhook's own cache and only later      *)
(* stored by the Gardener API server; requests for different shoots are    *)
(* concurrent.  All shoots use one cloud profile.  CIDRs are sets of        *)
(* addresses.                                                              *)
(***************************************************************************)
EXTENDS Naturals, Sequences

CONSTANTS
  Shoots, ShootNames, NameOf,   \* shoots of two projects may share a name
  Cidrs, Block,                 \* Block[c]: the addresses of CIDR c
  Zones, AllowedZones,          \* zone names, and those of the cloud profile
  Parents, Projects,
  Project,                      \* the project of the shoot's service account
  Configs,                      \* the configurations users submit
  None                          \* an empty string or a nil pointer

RefTypes == {"SingleSubnet", "SubnetGroup"}
Reference == [name: Parents \cup {None}, ns: Projects \cup {None}, type: RefTypes \cup {None}]
Config == [nodeCIDR: Cidrs,
           parentSubnet: Parents \cup {None}, parentProject: Projects \cup {None},
           ref: Reference \cup {None},
           zones: Seq([name: Zones, cidr: Cidrs])]

ASSUME ConfigAssumption == Configs \subseteq Config
ASSUME NoneAssumption == None \notin Config \cup Reference
ASSUME NameAssumption == /\ NameOf \in [Shoots -> ShootNames] /\ Project \in Projects
                         /\ AllowedZones \subseteq Zones

VARIABLES
  stored,    \* what the Gardener API server holds for each shoot
  cache,     \* the webhook's informer cache of it
  pending,   \* the admitted request that is about to be stored
  unseen     \* history: the shoots whose state the cache missed at admission
vars == <<stored, cache, pending, unseen>>

Overlap_OneWay(c, d) == Block[d] \subseteq Block[c]
Overlap(c, d) == Block[c] \cap Block[d] # {}

---------------------------------------------------------------------------
(* ValidateInfrastructureConfigUpdate *)

IsMigration(old, new) ==
  /\ old.parentSubnet # new.parentSubnet /\ new.parentSubnet = None
  /\ new.ref # None

MigrationOK_NoNamespace(old, new) ==
  /\ new.ref.name = old.parentSubnet
  /\ new.ref.type \in {None, "SingleSubnet"}

MigrationOK(old, new) ==
  /\ new.ref.name = old.parentSubnet
  /\ new.ref.ns = old.parentProject
  /\ new.ref.type \in {None, "SingleSubnet"}

LegacyFieldsOK(old, new) ==
  /\ new.parentSubnet = old.parentSubnet
  /\ new.parentProject = old.parentProject

ReferenceUpdateOK(old, new) ==
  IF old.ref # None
  THEN new.ref # None /\ new.ref.name = old.ref.name /\ new.ref.ns = old.ref.ns
                      /\ new.ref.type = old.ref.type
  ELSE new.ref = None \/ IsMigration(old, new)

UpdateOK(old, new) ==
  /\ new.nodeCIDR = old.nodeCIDR
  /\ IF IsMigration(old, new) THEN MigrationOK(old, new) ELSE LegacyFieldsOK(old, new)
  /\ ReferenceUpdateOK(old, new)

(* ValidateInfrastructureConfig.  A zone may be named twice. *)
ConfigOK(c) ==
  /\ c.parentSubnet # None \/ (c.ref # None /\ c.ref.name # None)
  /\ Len(c.zones) > 0
  /\ \A k \in 1..Len(c.zones) :
       /\ c.zones[k].name \in AllowedZones
       /\ Block[c.zones[k].cidr] \subseteq Block[c.nodeCIDR]
       /\ \A l \in 1..k-1 : ~Overlap(c.zones[k].cidr, c.zones[l].cidr)

(* validateNodeCIDRNotOverlap compares names without namespaces, so that a  *)
(* shoot skips itself and its namesakes in other projects.                 *)
NodeCIDRNotOverlap(s, c) == \A t \in Shoots :
  NameOf[t] # NameOf[s] /\ cache[t] # None => ~Overlap(c.nodeCIDR, cache[t].nodeCIDR)

(* reconcileRootSubnet: what the infrastructure controller derives the root *)
(* subnet from, and compares with the existing one.                        *)
Default(ns) == IF ns = None THEN Project ELSE ns
RootKey(c) ==
  [cidr   |-> c.nodeCIDR,
   parent |-> IF c.ref # None THEN c.ref.name ELSE c.parentSubnet,
   ns     |-> Default(IF c.ref # None THEN c.ref.ns ELSE c.parentProject)]

---------------------------------------------------------------------------
Init == /\ stored = [s \in Shoots |-> None]
        /\ cache = [s \in Shoots |-> None]
        /\ pending = [s \in Shoots |-> None]
        /\ unseen = [s \in Shoots |-> {}]

Missed == {t \in Shoots : cache[t] # stored[t] \/ pending[t] # None}

Validate_AgainstCache(s, c) ==
  /\ pending[s] = None
  /\ ConfigOK(c) /\ NodeCIDRNotOverlap(s, c)
  /\ cache[s] # None /\ cache[s] # c => UpdateOK(cache[s], c)
  /\ pending' = [pending EXCEPT ![s] = c]
  /\ unseen' = [unseen EXCEPT ![s] = Missed]
  /\ UNCHANGED <<stored, cache>>

Validate(s, c) ==
  /\ pending[s] = None
  /\ ConfigOK(c) /\ NodeCIDRNotOverlap(s, c)
  /\ stored[s] # None /\ stored[s] # c => UpdateOK(stored[s], c)
  /\ pending' = [pending EXCEPT ![s] = c]
  /\ unseen' = [unseen EXCEPT ![s] = Missed]
  /\ UNCHANGED <<stored, cache>>

Store(s) ==
  /\ pending[s] # None
  /\ stored' = [stored EXCEPT ![s] = pending[s]]
  /\ pending' = [pending EXCEPT ![s] = None]
  /\ UNCHANGED <<cache, unseen>>

Purge(s) ==
  /\ stored[s] # None /\ pending[s] = None
  /\ stored' = [stored EXCEPT ![s] = None]
  /\ UNCHANGED <<cache, pending, unseen>>

Sync(s) ==
  /\ cache[s] # stored[s]
  /\ cache' = [cache EXCEPT ![s] = stored[s]]
  /\ UNCHANGED <<stored, pending, unseen>>

Next == \E s \in Shoots : (\E c \in Configs : Validate(s, c)) \/ Store(s) \/ Purge(s) \/ Sync(s)

Spec == Init /\ [][Next]_vars

---------------------------------------------------------------------------
TypeOK == /\ stored \in [Shoots -> Configs \cup {None}]
          /\ cache \in [Shoots -> Configs \cup {None}]
          /\ pending \in [Shoots -> Configs \cup {None}]
          /\ unseen \in [Shoots -> SUBSET Shoots]

(* The request under way for a shoot was admitted as an update of what is    *)
(* stored: the API server lets no other write of the shoot in between.      *)
PendingInv == \A s \in Shoots : pending[s] # None /\ stored[s] # None =>
  pending[s] = stored[s] \/ UpdateOK(stored[s], pending[s])

(* The inductive invariant of the webhook: only submitted configurations are *)
(* stored, cached or under way, and what is under way was admitted against  *)
(* the very object it replaces, never against a stale copy of it.           *)
AdmissionInv == TypeOK /\ PendingInv

(* Whatever updates are admitted while a shoot exists, migration from       *)
(* parentSubnet to parentReference included, the infrastructure controller *)
(* never sees its root subnet change, so it never deletes and recreates    *)
(* the network under running machines.                                     *)
RootKeyImmutable ==
  [][\A s \in Shoots : stored[s] # None /\ stored'[s] # None
       => RootKey(stored'[s]) = RootKey(stored[s])]_vars

(* Two shoots of different names get overlapping node networks only when     *)
(* one of them was admitted before the webhook's cache showed the other     *)
(* (validateNodeCIDRNotOverlap lists shoots from that cache).               *)
OverlapOnlyUnseen == \A s, t \in Shoots :
  NameOf[s] # NameOf[t] /\ stored[s] # None /\ stored[t] # None
    /\ Overlap(stored[s].nodeCIDR, stored[t].nodeCIDR)
  => t \in unseen[s] \/ s \in unseen[t]
=============================================================================
