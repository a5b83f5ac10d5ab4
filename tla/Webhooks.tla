------------------------------ MODULE Webhooks ------------------------------
(***************************************************************************)
(* The mutating webhooks of the control plane and of the shoot: every write *)
(* of an object they watch passes through them, with the stored object as   *)
(* the old one.  Gardenlet writes an object from its template again and      *)
(* again, autoscalers write back what they read, users and the shoot's       *)
(* components write Services and Node conditions.  The Cluster the webhook   *)
(* consults is the manager's cached one; the operator's configuration and    *)
(* the seed's version are fixed when the operator starts.                    *)
(***************************************************************************)
EXTENDS Naturals, SequencesExt

CONSTANTS
  Templates,    \* by object: what its writers write, each with the minor version
                \* it is made for where that matters (its `image`)
  Minors,     \* Kubernetes minor versions
  EtcdConfigs,  \* ETCDStorage of the operator's configuration
  InvalidNames, \* project names that are no DNS label
  MaxWrites,    \* bound: writes
  MaxUpgrades,   \* bound: upgrades and operator restarts
  NotSet

VARIABLES
  version, versionSeen,  \* the shoot's in the Cluster, and in the cached Cluster
  seedVersion,           \* of the seed's API server
  operator,              \* the running operator's ETCDStorage and seed version
  object,                \* the one followed: each write is mutated for itself
  wanted,                \* its owner's last template
  stored,                \* what was admitted
  view,                  \* what the webhook had read at that template
  said,                  \* history: the condition the CNI last gave the Node
  writes, upgrades
wvars == <<version, versionSeen, seedVersion, operator, object, wanted, stored, view, said,
           writes, upgrades>>

---------------------------------------------------------------------------
(* A workload: its pod template's labels and volumes and its containers by   *)
(* name, each with flags, mounts and whether it runs as SELinux type spc_t.  *)
SetFlag(container, flag, value) ==
  [container EXCEPT !.flags = [f \in DOMAIN @ \cup {flag} |-> IF f = flag THEN value ELSE @[f]]]
NoFlags(container, flags) ==
  [container EXCEPT !.flags = [f \in DOMAIN @ \ flags |-> @[f]]]
EnsureSELinuxSPCT(container) == [container EXCEPT !.spc = TRUE]

OnContainers(w, names, F(_)) ==
  [w EXCEPT !.containers = [n \in DOMAIN @ |-> IF n \in names THEN F(@[n]) ELSE @[n]]]

(* The sidecar's arguments depend on the shoot; one of that name is replaced. *)
ProviderSidecar(v) ==
  [flags |-> [f \in {"target-version"} |-> v], mounts |-> {}, spc |-> FALSE]
EnsureMCM(w, v) ==
  [w EXCEPT !.containers = [n \in DOMAIN @ \cup {"provider"} |->
                              IF n = "provider" THEN ProviderSidecar(v) ELSE @[n]]]
EnsureVPA(vpa) ==
  LET old == IF vpa.policies = NotSet THEN {} ELSE {p \in vpa.policies : p[1] # "provider"} IN
  [vpa EXCEPT !.policies = old \cup {<<"provider", "minimum">>}]

Less131_Always(v) == TRUE
Less131(v) == v < 31
Disabled(container) ==
  IF "disable-admission-plugins" \in DOMAIN container.flags
  THEN container.flags["disable-admission-plugins"] ELSE {}

(* Versions are numbers; gardenlet's template of an API server has the        *)
(* container and, for a version that lacks the plugin, does not name it:      *)
(* Gardener's validation of the shoot refuses unknown plugins.               *)
ASSUME MinorsAssumption == Minors \subseteq Nat
ASSUME TemplatesAssumption == "kube-apiserver" \in DOMAIN Templates =>
  \A w \in Templates["kube-apiserver"] :
    /\ {"image", "labels", "containers"} \subseteq DOMAIN w
    /\ "kube-apiserver" \in DOMAIN w.containers
    /\ "flags" \in DOMAIN w.containers["kube-apiserver"]
    /\ w.image >= 31 => "PersistentVolumeLabel" \notin Disabled(w.containers["kube-apiserver"])

EnsureAPIServerArgs(container, v) ==
  LET bare == NoFlags(container, {"cloud-provider", "cloud-config"}) IN
  IF Less131(v)
  THEN SetFlag(bare, "disable-admission-plugins", Disabled(bare) \cup {"PersistentVolumeLabel"})
  ELSE bare
EnsureKubeAPIServer(w, v) ==
  LET labelled == [w EXCEPT !.labels = @ \cup {"to-csi-snapshot-validation"}]
      Args(container) == EnsureAPIServerArgs(container, v)
  IN OnContainers(OnContainers(labelled, {"kube-apiserver"}, Args),
                  {"vpn-client", "vpn-client-1"}, EnsureSELinuxSPCT)

KCMContainer(container) ==
  [SetFlag(NoFlags(container, {"cloud-config", "external-cloud-volume-plugin"}),
           "cloud-provider", "external") EXCEPT !.mounts = @ \ {"etc-ssl", "usr-share-cacerts"}]
EnsureKubeControllerManager(w) ==
  [OnContainers(w, {"kube-controller-manager"}, KCMContainer) EXCEPT
     !.labels = @ \ {"to-blocked-cidrs", "to-public-networks", "to-private-networks"},
     !.volumes = @ \ {"etc-ssl", "usr-share-cacerts"}]
EnsureVPNSeedServer(w) == OnContainers(w, {"vpn-seed-server", "setup"}, EnsureSELinuxSPCT)
EnsureFluentBit(w) == OnContainers(w, {"fluent-bit"}, EnsureSELinuxSPCT)

(* The node's kubelet: its unit's ExecStart and ExecStartPre, its settings.   *)
EnsureKubeletUnit(unit) ==
  [(IF unit.start = NotSet THEN unit
    ELSE [unit EXCEPT !.start = SetFlag(@, "cloud-provider", "external")])
   EXCEPT !.pre = @ \cup {"set-hostname"}]
EnsureKubeletConfiguration(settings) == [settings EXCEPT !.attachDetach = TRUE]

(* ensureETCDStorage: defaults for a new etcd-main, what it had for an old one. *)
Given(preferred, other) == IF preferred = NotSet THEN other ELSE preferred
EnsureETCDStorage_NoOld(new, old, defaults) ==
  IF defaults = NotSet THEN new
  ELSE [new EXCEPT !.class = Given(defaults.class, @), !.capacity = Given(defaults.capacity, @)]
EnsureETCDStorage(new, old, defaults) ==
  IF old # NotSet
  THEN [new EXCEPT !.class = Given(@, old.class), !.capacity = Given(@, old.capacity)]
  ELSE IF defaults = NotSet THEN new
  ELSE [new EXCEPT !.class = Given(defaults.class, @), !.capacity = Given(defaults.capacity, @)]

---------------------------------------------------------------------------
(* A shoot's Service: the annotation with the projects allowed is a sequence  *)
(* of names, some padded with blanks; it is checked and cleaned.             *)
ProjectsOK(projects) ==
  /\ projects # <<>>
  /\ \A i \in DOMAIN projects : projects[i].name # "" /\ projects[i].name \notin InvalidNames
FirstNamed(projects) ==
  {i \in DOMAIN projects : \A j \in 1..(i - 1) : projects[j].name # projects[i].name}
CleanedProjects(projects) ==
  LET first == FirstNamed(projects)
      At(k) == CHOOSE i \in first : Cardinality({j \in first : j <= i}) = k
  IN IF \E i \in DOMAIN projects : projects[i].name = "*"
     THEN <<[name |-> "*", padded |-> FALSE]>>
     ELSE [k \in 1..Cardinality(first) |-> [name |-> projects[At(k)].name, padded |-> FALSE]]
Inspected(s) == ~s.deleting /\ s.type = "LoadBalancer"
ServiceOK(s) ==
  Inspected(s) =>
    /\ s.projects # NotSet => ProjectsOK(s.projects)
    /\ \/ s.lbType \in {NotSet, "external"} /\ s.projects = NotSet /\ s.subnet = NotSet
                                          /\ s.addresses # "ip"
       \/ s.lbType = "internal" /\ s.addresses = NotSet /\ s.subnet # "ip"
ValidateService(s) ==
  IF Inspected(s) /\ s.projects # NotSet
  THEN [s EXCEPT !.projects = CleanedProjects(@)] ELSE s

(* A seed's CRD: words by place.  A dot and a keyword of CEL is escaped in    *)
(* the whole document, also where it is no validation rule.                  *)
Escape(word) == IF word = "keyword" THEN "escaped" ELSE word
EscapesCRDs(seed) == seed < 32
MutateCRD(crd, seed) ==
  IF EscapesCRDs(seed) THEN [place \in DOMAIN crd |-> Escape(crd[place])] ELSE crd

MutateNode_Drops(new, old) ==
  IF ~new.deleting /\ old # NotSet /\ new.condition = "noRouteCreated"
  THEN [new EXCEPT !.condition = "none"] ELSE new

(* The shoot's Node: NetworkUnavailable is not there, false, true as set by   *)
(* the kube-controller-manager's route controller, or true as the CNI says.  *)
MutateNode(new, old) ==
  IF ~new.deleting /\ old # NotSet /\ new.condition = "noRouteCreated"
  THEN [new EXCEPT !.condition = IF old.condition = "false" THEN "false" ELSE "none"]
  ELSE new

(* What there is to write: a Node's states, an etcd's storage, settings of it  *)
(* that may be left out, and lists of projects and policies.                *)
Nodes == [deleting : BOOLEAN, condition : {"none", "false", "noRouteCreated", "down"}]
EtcdStorage ==
  LET Settings(field) == {NotSet} \cup {t[field] : t \in Templates["etcd-main"]}
                                  \cup {d[field] : d \in EtcdConfigs \ {NotSet}}
  IN [class : Settings("class"), capacity : Settings("capacity")]
ASSUME WrittenAssumption ==
  /\ DOMAIN Templates \subseteq
       {"machine-controller-manager", "machine-controller-manager-vpa", "kube-apiserver",
        "kube-controller-manager", "vpn-seed-server", "fluent-bit", "kubelet.service", "kubelet",
        "etcd-main", "service", "crd", "node"}
  /\ "machine-controller-manager-vpa" \in DOMAIN Templates =>
       \A t \in Templates["machine-controller-manager-vpa"] : EnsureVPA(t).policies # NotSet
  /\ "etcd-main" \in DOMAIN Templates =>
       Templates["etcd-main"] \cup (EtcdConfigs \ {NotSet}) \subseteq EtcdStorage \ {NotSet}
       /\ NotSet \notin EtcdStorage
  /\ "service" \in DOMAIN Templates => \A t \in Templates["service"] :
       t.projects # NotSet => t.projects \in Seq([name : STRING, padded : BOOLEAN])
  /\ "node" \in DOMAIN Templates => Templates["node"] \subseteq Nodes /\ NotSet \notin Nodes

---------------------------------------------------------------------------
(* What is stored for a new object; seen is what the webhook has read.       *)
Mutated(new, old, seen) ==
  CASE object = "machine-controller-manager" -> EnsureMCM(new, seen.version)
    [] object = "machine-controller-manager-vpa" -> EnsureVPA(new)
    [] object = "kube-apiserver" -> EnsureKubeAPIServer(new, seen.version)
    [] object = "kube-controller-manager" -> EnsureKubeControllerManager(new)
    [] object = "vpn-seed-server" -> EnsureVPNSeedServer(new)
    [] object = "fluent-bit" -> EnsureFluentBit(new)
    [] object = "kubelet.service" -> EnsureKubeletUnit(new)
    [] object = "kubelet" -> EnsureKubeletConfiguration(new)
    [] object = "etcd-main" -> EnsureETCDStorage(new, old, seen.etcd)
    [] object = "service" -> ValidateService(new)
    [] object = "crd" -> MutateCRD(new, seen.seed)
    [] object = "node" -> MutateNode(new, old)
Admitted(new) == object = "service" => ServiceOK(new)
CurrentView == [version |-> versionSeen, etcd |-> operator.etcd, seed |-> operator.seed]

(* A Node is there from the start: it is its status that is watched.          *)
WInit ==
  /\ version \in Minors /\ versionSeen = version /\ seedVersion \in Minors
  /\ operator \in [etcd : EtcdConfigs, seed : {seedVersion}]
  /\ object \in DOMAIN Templates /\ wanted = NotSet /\ view = NotSet
  /\ IF object = "node"
     THEN stored \in [deleting : {FALSE}, condition : {"none", "noRouteCreated"}]
     ELSE stored = NotSet
  /\ said = "none" /\ writes = 0 /\ upgrades = 0

MadeForVersion(template) ==
  object \in {"kube-apiserver", "machine-controller-manager"} => template.image = version
Undeletes(new, old) == object = "node" /\ old.deleting /\ ~new.deleting
WriteTemplate(template) ==
  /\ writes < MaxWrites /\ writes' = writes + 1
  /\ MadeForVersion(template) /\ ~Undeletes(template, stored)
  /\ Admitted(template)
  /\ wanted' = template /\ view' = CurrentView
  /\ stored' = Mutated(template, stored, CurrentView)
  /\ said' = IF object = "node" /\ template.condition # "noRouteCreated"
             THEN template.condition ELSE said
  /\ UNCHANGED <<object, version, versionSeen, seedVersion, operator, upgrades>>

(* Autoscalers and others write back the object with something else changed.  *)
WriteBack ==
  /\ writes < MaxWrites /\ writes' = writes + 1
  /\ stored # NotSet /\ Admitted(stored)
  /\ stored' = Mutated(stored, stored, CurrentView)
  /\ UNCHANGED <<object, version, versionSeen, seedVersion, operator, wanted, view, said, upgrades>>

(* Gardenlet writes the Cluster before it writes what the version asks for.   *)
UpgradeShoot ==
  /\ upgrades < MaxUpgrades /\ upgrades' = upgrades + 1
  /\ version' \in {v \in Minors : v > version}
  /\ UNCHANGED <<versionSeen, seedVersion, operator, object, wanted, stored, view, said, writes>>
SeeCluster ==
  /\ versionSeen # version /\ versionSeen' = version
  /\ UNCHANGED <<version, seedVersion, operator, object, wanted, stored, view, said, writes, upgrades>>
UpgradeSeed ==
  /\ upgrades < MaxUpgrades /\ upgrades' = upgrades + 1
  /\ seedVersion' \in {v \in Minors : v > seedVersion}
  /\ UNCHANGED <<version, versionSeen, operator, object, wanted, stored, view, said, writes>>
RestartOperator ==
  /\ upgrades < MaxUpgrades /\ upgrades' = upgrades + 1
  /\ operator' \in [etcd : EtcdConfigs, seed : {seedVersion}]
  /\ versionSeen' = version
  /\ UNCHANGED <<version, seedVersion, object, wanted, stored, view, said, writes>>

WNext ==
  \/ WriteBack \/ \E t \in Templates[object] : WriteTemplate(t)
  \/ UpgradeShoot \/ SeeCluster \/ UpgradeSeed \/ RestartOperator
WSpec == WInit /\ [][WNext]_wvars

---------------------------------------------------------------------------
(* An API server older than 1.31 must not run the admission plugin           *)
(* PersistentVolumeLabel, a newer one does not start when a flag names it.   *)
(* The first always has the flag; the second has it only when the Cluster    *)
(* was still the old one to the webhook at gardenlet's last write, and then  *)
(* no writer but gardenlet gets rid of it.                                   *)
PluginMatchesVersion ==
  object = "kube-apiserver" /\ stored # NotSet =>
  LET flagged == "PersistentVolumeLabel" \in Disabled(stored.containers["kube-apiserver"])
  IN /\ stored.image < 31 => flagged
     /\ stored.image >= 31 /\ flagged => view.version < 31

(* Writers and webhook do not fight: to write the same template again, as     *)
(* every reconcile does, changes nothing of what is stored, whoever wrote in  *)
(* between and whatever defaults the operator was restarted with, as long as  *)
(* the webhook reads the versions it read then.  So an etcd's immutable       *)
(* storage fields stay.  The one exception: a size or class the template      *)
(* itself names loses to the default at the creation of the etcd and wins at  *)
(* the update.                                                               *)
LeavesStorageOut(template) == template.class = NotSet /\ template.capacity = NotSet
ReapplyChangesNothing ==
  /\ wanted # NotSet
  /\ object = "etcd-main" => LeavesStorageOut(wanted)
  /\ view.version = versionSeen /\ view.seed = operator.seed
  => Mutated(wanted, stored, CurrentView) = stored

(* Whether a shoot's node is reachable is for the CNI to say, in whatever     *)
(* order it, the kube-controller-manager's route controller and other        *)
(* writers of the Node come: a node it called reachable stays so and no       *)
(* other becomes so, no node is unavailable because it has no route after    *)
(* the first write, and one that is down was called so by the CNI            *)
(* (node_condition_mutator.go:31-49).  The code does not keep a "down" of    *)
(* the CNI, which the route controller's next write takes away, and leaves   *)
(* a Node alone that is being deleted.                                       *)
NodeFollowsCNI == object = "node" /\ ~stored.deleting =>
  /\ stored.condition = "false" <=> said = "false"
  /\ stored.condition = "down" => said = "down"
  /\ stored.condition = "noRouteCreated" => writes = 0
=============================================================================
