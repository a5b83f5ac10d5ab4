---------------------------- MODULE CloudProfiles ----------------------------
(***************************************************************************)
(* Cloud profiles and the namespaced cloud profiles derived from them: the *)
(* two validating webhooks (pkg/admission/validator), the mutating webhook *)
(* that merges image mappings (pkg/admission/mutator), and the lookup the  *)
(* worker controller makes in the result.                                  *)
(*                                                                         *)
(* One CloudProfile, the parent, and one NamespacedCloudProfile.  Gardener *)
(* copies the parent's providerConfig into the status of the namespaced    *)
(* profile and the mutator then merges the profile's own mappings into it. *)
(* The validator reads the parent and the shoots from its informer cache.  *)
(***************************************************************************)
EXTENDS Naturals, SequencesExt

CONSTANTS
  ImageNames, ImageVersions, ImagePaths, ImageProjects, Archs, ValidArchs,
  K8sVersions, ProfileZones,
  Users,            \* shoots in the namespace of the namespaced profile
  ParentProfiles,   \* the cloud profiles an operator submits
  NamespacedSpecs,  \* the namespaced cloud profiles a project owner submits
  MaxSubmits,       \* bound on the requests for either profile
  Absent            \* an object that does not exist, a nil pointer, an empty string

(* CloudProfileConfig.  A zone entry has both of its endpoints or it does   *)
(* not; the registry URL and its CA data are set or not.                   *)
Mapping == [version: ImageVersions, arch: Archs \cup {Absent}, image: ImagePaths \cup {Absent}]
MachineImages == [name: ImageNames, project: ImageProjects \cup {Absent}, versions: Seq(Mapping)]
ZoneEndpoints == [name: ProfileZones \cup {Absent}, endpoints: BOOLEAN]
OrgConfig == [zones: Seq(ZoneEndpoints), registryURL: BOOLEAN, caData: BOOLEAN]
CloudProfileConfig == [machineImages: Seq(MachineImages), orgConfig: OrgConfig \cup {Absent}]
Declared == SUBSET (ImageNames \X ImageVersions)
CloudProfile == [zones: SUBSET ProfileZones, images: Declared,
                 config: CloudProfileConfig \cup {Absent}]
NamespacedSpec == [parentKind: {"CloudProfile", "NamespacedCloudProfile"},
                   k8s: SUBSET K8sVersions, images: Declared,
                   config: CloudProfileConfig \cup {Absent}]
ShootUse == [kind: {"CloudProfile", "NamespacedCloudProfile"},
             k8s: K8sVersions, images: {{d} : d \in ImageNames \X ImageVersions}]

ASSUME ProfilesAssumption == /\ ParentProfiles \subseteq CloudProfile
                             /\ NamespacedSpecs \subseteq NamespacedSpec
(* No profile is mistaken for none.                                         *)
ASSUME AbsentAssumption == \A s \in NamespacedSpecs, d \in BOOLEAN : [spec |-> s, deleting |-> d] # Absent
ASSUME ProfileBoundAssumption == MaxSubmits \in Nat /\ ValidArchs \subseteq Archs

VARIABLES
  parent, parentSeen,   \* the CloudProfile, and the validator's cache of it
  profile,              \* the NamespacedCloudProfile: its spec, and deleting
  request,              \* the admitted write of it that is about to be stored
  status,               \* its status: what was merged, and from what
  use, useSeen,         \* the shoots, and the validator's cache of them
  missed,               \* history: shoots the admission under way did not see
  submits
pvars == <<parent, parentSeen, profile, request, status, use, useSeen, missed, submits>>

---------------------------------------------------------------------------
(* ValidateOrgConfig, validateZoneEndpoints and validateRegistryConfig      *)
OrgConfigOK(c, allowedRegions) ==
  /\ c.orgConfig # Absent
  /\ c.orgConfig.zones # <<>>
  /\ \A k \in DOMAIN c.orgConfig.zones :
       /\ c.orgConfig.zones[k].name \in allowedRegions \ {Absent}
       /\ c.orgConfig.zones[k].endpoints
  /\ c.orgConfig.registryURL => c.orgConfig.caData

(* Only the first mapping of a version, under the first entry of the image  *)
(* name, is looked at.                                                     *)
FirstOf(images, n) == SelectInSeq(images, LAMBDA i : i.name = n)
VersionOK(mappings, v) ==
  LET k == SelectInSeq(mappings, LAMBDA e : e.version = v) IN
  k # 0 /\ mappings[k].image # Absent /\ mappings[k].arch \in ValidArchs
CloudProfileOK(p) ==
  /\ p.config # Absent
  /\ \A d \in p.images : LET k == FirstOf(p.config.machineImages, d[1]) IN
       k # 0 /\ VersionOK(p.config.machineImages[k].versions, d[2])
  /\ OrgConfigOK(p.config, p.zones)

(* What the providerConfig maps, whatever the architecture. *)
MappedIn(c) == UNION {{<<i.name, e.version>> : e \in ToSet(i.versions)} : i \in ToSet(c.machineImages)}

(* validateMachineImages of the namespaced profile.                         *)
ImagesOK(c, declared, parentDeclared) ==
  /\ declared \subseteq MappedIn(c) \cup parentDeclared
  /\ MappedIn(c) \cap parentDeclared = {}
  /\ MappedIn(c) \subseteq declared
  /\ \A i \in ToSet(c.machineImages) : \A e \in ToSet(i.versions) : e.arch \in ValidArchs

(* validateCreate, which updates pass through too.  Without providerConfig  *)
(* nothing but the parent is looked at.                                    *)
CreateOK(spec) ==
  /\ spec.parentKind = "CloudProfile"
  /\ parentSeen # Absent
  /\ spec.config # Absent => /\ OrgConfigOK(spec.config, parentSeen.zones)
                             /\ ImagesOK(spec.config, spec.images, parentSeen.images)

(* The shoots the field index lists under the profile's name. *)
References(u) == useSeen[u] # Absent /\ useSeen[u].kind = "NamespacedCloudProfile"

DeletedVersions_Added(old, new) == [k8s |-> new.k8s \ old.k8s, images |-> new.images \ old.images]
DeletedVersions(old, new) == [k8s |-> old.k8s \ new.k8s, images |-> old.images \ new.images]

UpdateKeepsUsed(old, new) ==
  LET gone == DeletedVersions(old, new) IN
  \A u \in Users : References(u) =>
    useSeen[u].k8s \notin gone.k8s /\ useSeen[u].images \cap gone.images = {}

DeletionOK == \A u \in Users : ~References(u)

---------------------------------------------------------------------------
(* mergeMachineImages.  Maps built from slices keep the last entry of a     *)
(* name; the merged entry of a name both have carries no project.          *)
LastOf(images, n) == SelectLastInSeq(images, LAMBDA i : i.name = n)
MergedEntry_SpecFirst(spec, st) == [name |-> spec.name, project |-> Absent,
                                    versions |-> spec.versions \o st.versions]
MergedEntry(spec, st) == [name |-> spec.name, project |-> Absent,
                          versions |-> st.versions \o spec.versions]
Merge(specImages, statusImages) ==
  LET In(images) == {i.name : i \in ToSet(images)}
      entry(n) ==
        IF n \notin In(specImages) THEN statusImages[LastOf(statusImages, n)]
        ELSE IF n \notin In(statusImages) THEN specImages[LastOf(specImages, n)]
        ELSE MergedEntry(specImages[LastOf(specImages, n)], statusImages[LastOf(statusImages, n)])
      names == SetToSeq(In(specImages) \cup In(statusImages))
  IN  [k \in DOMAIN names |-> entry(names[k])]

(* Mutate, on the status Gardener has just set from the parent.             *)
Mutate(p, statusConfig) ==
  IF p.deleting \/ p.spec.config = Absent \/ statusConfig = Absent THEN statusConfig
  ELSE [statusConfig EXCEPT !.machineImages = Merge(p.spec.config.machineImages, @)]

(* findImageFromCloudProfile: the image and its project, of the first match.*)
FindImage(c, n, v, arch) ==
  LET hit(i) == i.name = n /\ \E e \in ToSet(i.versions) : e.version = v /\ e.arch = arch
      k == SelectInSeq(c.machineImages, hit)
  IN  IF k = 0 THEN Absent
      ELSE LET entry == c.machineImages[k]
               j == SelectInSeq(entry.versions, LAMBDA e : e.version = v /\ e.arch = arch)
           IN  [image |-> entry.versions[j].image, project |-> entry.project]

---------------------------------------------------------------------------
PInit == /\ parent = Absent /\ parentSeen = Absent
         /\ profile = Absent /\ request = Absent /\ status = Absent
         /\ use = [u \in Users |-> Absent] /\ useSeen = use
         /\ missed = {} /\ submits = 0

(* The validator of cloud profiles reads nothing but the object itself.     *)
SubmitParent(p) ==
  /\ submits < MaxSubmits /\ p # parent
  /\ CloudProfileOK(p)
  /\ parent' = p /\ submits' = submits + 1
  /\ UNCHANGED <<parentSeen, profile, request, status, use, useSeen, missed>>

(* Validate: an object being deleted is only asked whether a shoot          *)
(* references it, even by an update of its spec.                           *)
Admit(req) ==
  /\ request = Absent /\ submits < MaxSubmits
  /\ IF profile # Absent /\ profile.deleting THEN DeletionOK
     ELSE /\ CreateOK(req.spec)
          /\ profile # Absent => UpdateKeepsUsed(profile.spec, req.spec)
  /\ request' = req
  /\ missed' = {u \in Users : useSeen[u] # use[u]}
  /\ submits' = submits + 1
  /\ UNCHANGED <<parent, parentSeen, profile, status, use, useSeen>>

SubmitSpec(s) == Admit([spec |-> s, deleting |-> profile # Absent /\ profile.deleting,
                        gone |-> FALSE])
(* Gardener removes its finalizer, with which the object goes.              *)
RemoveFinalizer == /\ profile # Absent /\ profile.deleting
                   /\ Admit([spec |-> profile.spec, deleting |-> TRUE, gone |-> TRUE])

StoreProfile ==
  /\ request # Absent
  /\ profile' = IF request.gone THEN Absent ELSE [spec |-> request.spec, deleting |-> request.deleting]
  /\ status' = IF request.gone THEN Absent ELSE status
  /\ request' = Absent
  /\ UNCHANGED <<parent, parentSeen, use, useSeen, missed, submits>>

MarkDeleted ==
  /\ profile # Absent /\ ~profile.deleting /\ request = Absent
  /\ profile' = [profile EXCEPT !.deleting = TRUE]
  /\ UNCHANGED <<parent, parentSeen, request, status, use, useSeen, missed, submits>>

(* Gardener sets the status from a parent it may have read some time ago.   *)
MergeStatus ==
  /\ profile # Absent
  /\ \E p \in {parent, parentSeen} \ {Absent} :
       status' = [base |-> p.config, config |-> Mutate(profile, p.config),
                  images |-> p.images \cup profile.spec.images, k8s |-> profile.spec.k8s]
  /\ UNCHANGED <<parent, parentSeen, profile, request, use, useSeen, missed, submits>>

(* Gardener admits a shoot whose versions its profile offers.               *)
PlaceShoot(u, x) ==
  /\ x # use[u]
  /\ IF x.kind = "NamespacedCloudProfile"
     THEN profile # Absent /\ status # Absent /\ x.k8s \in status.k8s /\ x.images \subseteq status.images
     ELSE parent # Absent /\ x.images \subseteq parent.images
  /\ use' = [use EXCEPT ![u] = x]
  /\ missed' = IF request = Absent THEN missed ELSE missed \cup {u}
  /\ UNCHANGED <<parent, parentSeen, profile, request, status, useSeen, submits>>

RemoveShoot(u) ==
  /\ use[u] # Absent
  /\ use' = [use EXCEPT ![u] = Absent]
  /\ UNCHANGED <<parent, parentSeen, profile, request, status, useSeen, missed, submits>>

SeeParent ==
  /\ parentSeen # parent /\ parentSeen' = parent
  /\ UNCHANGED <<parent, profile, request, status, use, useSeen, missed, submits>>

SeeShoot(u) ==
  /\ useSeen[u] # use[u]
  /\ useSeen' = [useSeen EXCEPT ![u] = use[u]]
  /\ UNCHANGED <<parent, parentSeen, profile, request, status, use, missed, submits>>

PNext == \/ \E p \in ParentProfiles : SubmitParent(p)
         \/ \E s \in NamespacedSpecs : SubmitSpec(s)
         \/ RemoveFinalizer \/ StoreProfile \/ MarkDeleted \/ MergeStatus \/ SeeParent
         \/ \E u \in Users : RemoveShoot(u) \/ SeeShoot(u) \/ \E x \in ShootUse : PlaceShoot(u, x)
PSpec == PInit /\ [][PNext]_pvars

---------------------------------------------------------------------------
(* A version goes from the namespaced profile, or the profile goes, under a *)
(* shoot that uses it only if the validator's cache did not show the shoot, *)
(* or not as it is (namespacedcloudprofile.go:90, 298).                    *)
UsedVersionStays ==
  [][\A u \in Users \ missed :
       use[u] # Absent /\ use[u].kind = "NamespacedCloudProfile" /\ profile # Absent =>
         /\ profile' # Absent
         /\ use[u].k8s \in profile.spec.k8s => use[u].k8s \in profile'.spec.k8s
         /\ use[u].images \cap profile.spec.images \subseteq profile'.spec.images]_pvars

Resolved(c, d, a) == FindImage(c, d[1], d[2], a)
OneEntryPerName(c) == \A j, k \in DOMAIN c.machineImages :
  c.machineImages[j].name = c.machineImages[k].name => j = k
(* What the parent maps, its namespaced profile never maps elsewhere: a      *)
(* shoot that moves to the namespaced profile boots the same images, even   *)
(* if the parent added a version after the profile had mapped it itself     *)
(* ("cannot be overridden", namespacedcloudprofile.go:212).                *)
ParentImageWins == status # Absent /\ OneEntryPerName(status.base) =>
  \A d \in ImageNames \X ImageVersions, a \in Archs :
    LET base == Resolved(status.base, d, a) IN
    base # Absent => Resolved(status.config, d, a).image = base.image

(* The same of the project the image is fetched from.                       *)
ParentMappingKept == status # Absent /\ OneEntryPerName(status.base) =>
  \A d \in ImageNames \X ImageVersions, a \in Archs :
    Resolved(status.base, d, a) # Absent =>
      Resolved(status.config, d, a) = Resolved(status.base, d, a)
=============================================================================
