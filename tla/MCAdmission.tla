----------------------------- MODULE MCAdmission -----------------------------
(***************************************************************************)
(* The validating and mutating webhooks of the Gardener cluster.  Those of *)
(* shoots, cloud profiles and seeds read and write disjoint state, so a    *)
(* behaviour follows one of them.                                          *)
(***************************************************************************)
EXTENDS ShootAdmission, CloudProfiles, SeedBackup, TLC

(* Shoots: two of them, nested node networks, every way to name a parent.   *)
CONSTANTS s1, s2, n1, n2, zone, p, q, proj, other, wide, low, high

Blocks == wide :> 1..4 @@ low :> 1..2 @@ high :> 3..4
OwnName == [s \in Shoots |-> IF s = s1 THEN n1 ELSE n2]

Cfg(node, from, project, ref) ==
  [nodeCIDR |-> node, parentSubnet |-> from, parentProject |-> project, ref |-> ref,
   zones |-> <<[name |-> zone, cidr |-> IF node = wide THEN low ELSE node]>>]
Ref(name, ns, type) == [name |-> name, ns |-> ns, type |-> type]

(* The same parent in the old and the new form, with and without its        *)
(* project, and forms that lead to other root subnets.                     *)
Submitted ==
  {Cfg(wide, p, None, None), Cfg(wide, p, other, None), Cfg(wide, p, None, Ref(q, None, None)),
   Cfg(wide, None, None, Ref(p, None, None)), Cfg(wide, None, None, Ref(p, other, "SingleSubnet")),
   Cfg(wide, None, other, Ref(p, None, "SubnetGroup")),
   Cfg(low, p, None, None), Cfg(high, q, None, None)}

(* Cloud profiles: one image, two versions, either of which parent and       *)
(* namespaced profile may map, to a path and from a project of their own.   *)
CONSTANTS img, v1, v2, parentPath, ownPath, team, arch, odd, k1, k2

Org(registry) == [zones |-> <<[name |-> zone, endpoints |-> TRUE]>>,
                  registryURL |-> registry, caData |-> FALSE]
Maps(v, path, a) == [version |-> v, arch |-> a, image |-> path]
Providing(project, maps, registry) ==
  [machineImages |-> <<[name |-> img, project |-> project, versions |-> maps]>>,
   orgConfig |-> Org(registry)]
ParentOf(project, vs) ==
  [zones |-> {zone}, images |-> {<<img, v>> : v \in vs},
   config |-> Providing(project, (IF v1 \in vs THEN <<Maps(v1, parentPath, arch)>> ELSE <<>>)
                              \o (IF v2 \in vs THEN <<Maps(v2, parentPath, arch)>> ELSE <<>>), FALSE)]
Derived(ks, vs, c) == [parentKind |-> "CloudProfile", k8s |-> ks,
                       images |-> {<<img, v>> : v \in vs}, config |-> c]

SharedParents == {ParentOf(Absent, {v1}), ParentOf(Absent, {v1, v2})}
TeamParents == {ParentOf(team, {v1})}
DerivedSpecs ==
  {Derived({k1}, {v2}, Providing(Absent, <<Maps(v2, ownPath, arch)>>, FALSE)),
   Derived({k1}, {v1, v2}, Providing(Absent, <<Maps(v2, ownPath, arch)>>, FALSE)),
   Derived({k1, k2}, {}, Absent), Derived({k2}, {v1}, Absent),
   (* refused: no CA data, an architecture that is none, a profile as parent *)
   Derived({k1}, {v2}, Providing(Absent, <<Maps(v2, ownPath, arch)>>, TRUE)),
   Derived({k1}, {v2}, Providing(Absent, <<Maps(v2, ownPath, odd)>>, FALSE)),
   [Derived({k1}, {}, Absent) EXCEPT !.parentKind = "NamespacedCloudProfile"]}

(* Seeds: every flow, keys of the account and of a namesake, a bucket whose  *)
(* name begins with the seed's and one that shares nothing with it.         *)
Backing(location, days) == [location |-> location, request |-> Nil,
                            response |-> "WHEN_REQUIRED", retention |-> days]
Flows == {Nil, Backing("loc", Nil), Backing(Nil, Nil), Backing("loc", 7), Backing("loc", 0),
          Backing(Nil, -1)}
OwnAccount == [project |-> "p", name |-> "sa"]
Keys(ns, owner, type) == [ns |-> ns, owner |-> owner, type |-> type,
                          prefixed |-> TRUE, subject |-> TRUE, complete |-> TRUE]
SomeKeys == {Keys("shared", OwnAccount, "User"), Keys("project", OwnAccount, "ServiceAccount"),
             Keys("shared", [project |-> "q", name |-> "sa"], "User")}
NameOfSeedBucket == <<"s">>
NamesOfOthers == {<<"g">>, <<"s", "t">>}

---------------------------------------------------------------------------
VARIABLE follows

AdmissionInit == /\ Init /\ PInit /\ SInit
                 /\ follows \in {"shoots", "profiles", "seed"}
                 /\ follows # "seed" => url = "global-api" /\ fqn = {}
AdmissionNext ==
  /\ UNCHANGED follows
  /\ \/ follows = "shoots" /\ Next /\ UNCHANGED <<pvars, svars>>
     \/ follows = "profiles" /\ PNext /\ UNCHANGED <<vars, svars>>
     \/ follows = "seed" /\ SNext /\ UNCHANGED <<vars, pvars>>
AdmissionSpec == AdmissionInit /\ [][AdmissionNext]_<<vars, pvars, svars, follows>>
=============================================================================
