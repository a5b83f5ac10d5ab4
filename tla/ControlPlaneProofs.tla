------------------------- MODULE ControlPlaneProofs -------------------------
(***************************************************************************)
(* The safety properties of ControlPlane.tla and of Webhooks.tla, for any  *)
(* accounts, profiles, zones, versions, templates and bounds.              *)
(***************************************************************************)
EXTENDS ControlPlane, Webhooks, FiniteSetTheorems, TLAPS

---------------------------------------------------------------------------
(* The control plane values *)
JobFields == DOMAIN cjob = {"pc", "offer", "zones", "storage", "sums", "kubeconfigs"}

(* A kubeconfig as the values provider makes it.                            *)
Kubeconfig(k) ==
  \E a \in Accounts, o \in Offers : k.server # Unset /\ k = Raw(k.server, a, o)
Usable(x) == x # Unset => \A k \in DOMAIN x : Kubeconfig(x[k])

(* What has been made of a secret and a profile stays a kubeconfig wherever *)
(* it is carried: in the job, the shoot's secret and the pod.              *)
CSIInv ==
  /\ account \in Accounts /\ offered \in Offers
  /\ cjob.pc # "idle" => cjob.offer \in Offers
  /\ cjob.pc \in {"ccm", "csi", "shoot"} =>
       \A z \in DOMAIN cjob.kubeconfigs : Kubeconfig(cjob.kubeconfigs[z])
  /\ Usable(csi) /\ Usable(csiPod)

(* CCM's template carries the checksums it was made from, and a pod that is  *)
(* not ahead of it has loaded what its annotations tell.                    *)
NotesInv ==
  /\ cjob.pc \in {"values", "ccm", "csi", "shoot"} =>
       cjob.sums = [secret |-> cjob.sums.secret, configmap |-> cjob.sums.configmap]
  /\ ccm # Unset => ccm.notes = ccm.sums
  /\ ~ccmPod.ahead => ccmPod.loaded = ccmPod.notes

(* As long as no one has asked for another reconcile, each step of this one   *)
(* has left behind what belongs to the inputs as they are.                   *)
CurrentInv == ~due =>
  /\ cjob.pc # "idle" => cjob.offer = offered /\ cjob.zones = active /\ cjob.storage = storage
  /\ cjob.pc # "config" => conf = ConfigValues(account, offered, active)
  /\ cjob.pc \in {"values", "ccm", "csi", "shoot"} /\ ~lagged => cjob.sums = Mounted
  /\ cjob.pc \in {"ccm", "csi", "shoot"} => cjob.kubeconfigs = InfraClusterKubeconfigs(account, offered)
  /\ cjob.pc \in {"ccm", "csi", "shoot", "idle"} => active \subseteq DOMAIN offered.zones
  /\ cjob.pc \in {"csi", "shoot", "idle"} /\ ~lagged =>
       ccm.sums = Mounted /\ ccm.notes = Mounted
  /\ cjob.pc \in {"shoot", "idle"} /\ active # {} =>
       csi = [z \in active |-> Raw(offered.zones[z], account, offered)]
  /\ cjob.pc = "idle" => defaults = StorageClassesValues(storage)

CPIInv == JobFields /\ CSIInv /\ NotesInv /\ CurrentInv

(* No step gives the reconcile other fields.                                 *)
LEMMA FieldsStep ==
  ASSUME CPIInv, [CPNext]_cpvars
  PROVE  JobFields'
BY DEF CPIInv, JobFields, CPNext, ChangeInputs, SeeConfigMap, StartReconcile, DeployConfigChart,
       ComputeChecksums, GetControlPlaneChartValues, ApplyCCM, ApplyCSI, DeployShootCharts,
       RolloutCCM, RolloutCSI, CCMCrashes, CPInterrupted, Fail, Goto, NoJob, cpvars

(* A step of the handler alone sets the program counter, and nothing else of  *)
(* the job.                                                                  *)
LEMMA GotoStep ==
  ASSUME JobFields, NEW pc, Goto(pc)
  PROVE  /\ cjob'.pc = pc /\ cjob'.offer = cjob.offer /\ cjob'.zones = cjob.zones
         /\ cjob'.storage = cjob.storage /\ cjob'.sums = cjob.sums
         /\ cjob'.kubeconfigs = cjob.kubeconfigs /\ UNCHANGED <<due, result>>
BY DEF JobFields, Goto

(* The chart's secret holds kubeconfigs it was given, for the active zones    *)
(* if there are any.                                                         *)
LEMMA Rendered ==
  ASSUME NEW kubeconfigs, NEW zones, NEW x \in RenderCSI(kubeconfigs, zones)
  PROVE  /\ \A k \in DOMAIN x : \E z \in DOMAIN kubeconfigs : x[k] = kubeconfigs[z]
         /\ zones # {} => zones \subseteq DOMAIN kubeconfigs /\ x = [z \in zones |-> kubeconfigs[z]]
         /\ zones \subseteq DOMAIN kubeconfigs
BY DEF RenderCSI

(* No step puts anything else into the CSI driver's kubeconfigs.              *)
LEMMA CSIStep ==
  ASSUME CPIInv, [CPNext]_cpvars
  PROVE  CSIInv'
<1>. USE DEF CPIInv, CSIInv, Usable
<1>. JobFields
  OBVIOUS
<1>1. ASSUME ChangeInputs PROVE CSIInv'
  BY <1>1 DEF ChangeInputs, deployed, pods
<1>2. ASSUME StartReconcile PROVE CSIInv'
  <2>1. cjob'.pc = "config" /\ cjob'.offer = offered
    BY <1>2 DEF StartReconcile, NoJob
  <2>. QED  BY <1>2, <2>1 DEF StartReconcile, given, deployed, pods
<1>3. ASSUME Fail, UNCHANGED <<given, csi, csiPod>> PROVE CSIInv'
  BY <1>3 DEF Fail, NoJob, given
<1>4. ASSUME NEW pc, Goto(pc), cjob.pc # "idle", UNCHANGED <<given, csi, csiPod>>,
             pc \in {"ccm", "csi", "shoot"} => cjob.pc \in {"ccm", "csi", "shoot"}
      PROVE  CSIInv'
  BY <1>4, GotoStep DEF given
<1>5. ASSUME DeployConfigChart PROVE CSIInv'
  BY <1>3, <1>4, <1>5 DEF DeployConfigChart, pods
<1>6. ASSUME ComputeChecksums PROVE CSIInv'
  <2>1. CASE Fail
    BY <1>3, <1>6, <2>1 DEF ComputeChecksums, pods
  <2>2. CASE ~Fail
    <3>1. cjob'.pc = "values" /\ cjob'.offer = cjob.offer
      BY <1>6, <2>2 DEF ComputeChecksums, JobFields
    <3>. QED  BY <1>6, <3>1 DEF ComputeChecksums, given, pods
  <2>. QED  BY <2>1, <2>2
<1>7. ASSUME GetControlPlaneChartValues PROVE CSIInv'
  <2>1. CASE Fail
    BY <1>3, <1>7, <2>1 DEF GetControlPlaneChartValues, pods, deployed
  <2>2. CASE ~Fail
    <3>. DEFINE ks == InfraClusterKubeconfigs(account, cjob.offer)
    <3>1. cjob'.pc = "ccm" /\ cjob'.offer = cjob.offer /\ cjob'.kubeconfigs = ks
      BY <1>7, <2>2 DEF GetControlPlaneChartValues, JobFields
    <3>2. \A z \in DOMAIN ks : Kubeconfig(ks[z])
      <4>1. cjob.offer \in Offers /\ account \in Accounts
        BY <1>7 DEF GetControlPlaneChartValues
      <4>2. \A z \in DOMAIN cjob.offer.zones : cjob.offer.zones[z] # Unset
        BY <4>1, OffersAssumption
      <4>3. /\ DOMAIN ks = DOMAIN cjob.offer.zones
            /\ \A z \in DOMAIN ks : ks[z] = Raw(cjob.offer.zones[z], account, cjob.offer)
        BY DEF InfraClusterKubeconfigs
      <4>. HIDE DEF ks
      <4>4. ASSUME NEW z \in DOMAIN ks PROVE Kubeconfig(ks[z])
        <5>1. cjob.offer.zones[z] # Unset /\ ks[z] = Raw(cjob.offer.zones[z], account, cjob.offer)
          BY <4>2, <4>3, <4>4
        <5>2. ks[z].server = cjob.offer.zones[z]
          BY <5>1 DEF Raw
        <5>. QED  BY <4>1, <5>1, <5>2 DEF Kubeconfig
      <4>. QED  BY <4>4
    <3>. HIDE DEF ks
    <3>. QED  BY <1>7, <3>1, <3>2 DEF GetControlPlaneChartValues, given, pods, deployed
  <2>. QED  BY <2>1, <2>2
<1>8. ASSUME ApplyCCM PROVE CSIInv'
  BY <1>4, <1>8 DEF ApplyCCM, pods
<1>9. ASSUME ApplyCSI PROVE CSIInv'
  <2>1. \A k \in DOMAIN csi' : Kubeconfig(csi'[k])
    BY <1>9, Rendered DEF ApplyCSI
  <2>2. cjob'.pc = "shoot" /\ cjob'.offer = cjob.offer /\ cjob'.kubeconfigs = cjob.kubeconfigs
    BY <1>9, GotoStep DEF ApplyCSI
  <2>. QED  BY <1>9, <2>1, <2>2 DEF ApplyCSI, given, pods
<1>10. ASSUME DeployShootCharts PROVE CSIInv'
  BY <1>10 DEF DeployShootCharts, NoJob, given, pods
<1>11. ASSUME CPInterrupted PROVE CSIInv'
  BY <1>3, <1>11 DEF CPInterrupted, pods, deployed
<1>12. ASSUME SeeConfigMap \/ RolloutCCM \/ RolloutCSI \/ CCMCrashes \/ UNCHANGED cpvars PROVE CSIInv'
  BY <1>12 DEF SeeConfigMap, RolloutCCM, RolloutCSI, CCMCrashes, cpvars, given, deployed, pods
<1>. QED
  BY <1>1, <1>2, <1>5, <1>6, <1>7, <1>8, <1>9, <1>10, <1>11, <1>12 DEF CPNext

(* No step separates the annotations of CCM from what they are computed of.   *)
LEMMA NotesStep ==
  ASSUME CPIInv, [CPNext]_cpvars
  PROVE  NotesInv'
<1>. USE DEF CPIInv, NotesInv
<1>. JobFields
  OBVIOUS
<1>1. ASSUME Fail, UNCHANGED <<ccm, ccmPod>> PROVE NotesInv'
  BY <1>1 DEF Fail, NoJob
<1>2. ASSUME NEW pc, Goto(pc), UNCHANGED <<ccm, ccmPod>>,
             pc \in {"values", "ccm", "csi", "shoot"} => cjob.pc \in {"values", "ccm", "csi", "shoot"}
      PROVE  NotesInv'
  BY <1>2, GotoStep
<1>3. ASSUME StartReconcile PROVE NotesInv'
  BY <1>3 DEF StartReconcile, NoJob, deployed, pods
<1>4. ASSUME DeployConfigChart PROVE NotesInv'
  BY <1>1, <1>2, <1>4 DEF DeployConfigChart, pods
<1>5. ASSUME ComputeChecksums PROVE NotesInv'
  <2>1. CASE Fail
    BY <1>1, <1>5, <2>1 DEF ComputeChecksums, pods
  <2>2. CASE ~Fail
    <3>1. cjob'.sums = [secret |-> SecretRead, configmap |-> ConfigMapRead]
      BY <1>5, <2>2 DEF ComputeChecksums, JobFields
    <3>. QED  BY <1>5, <3>1 DEF ComputeChecksums, pods
  <2>. QED  BY <2>1, <2>2
<1>6. ASSUME GetControlPlaneChartValues PROVE NotesInv'
  <2>1. CASE Fail
    BY <1>1, <1>6, <2>1 DEF GetControlPlaneChartValues, pods, deployed
  <2>2. CASE ~Fail
    BY <1>6, <2>2 DEF GetControlPlaneChartValues, JobFields, pods, deployed
  <2>. QED  BY <2>1, <2>2
<1>7. ASSUME ApplyCCM PROVE NotesInv'
  <2>1. cjob'.pc = "csi" /\ cjob'.sums = cjob.sums /\ UNCHANGED ccmPod
    BY <1>7, GotoStep DEF ApplyCCM, pods
  <2>2. ccm'.sums = cjob.sums /\ ccm'.notes = PodAnnotations(cjob.sums)
    BY <1>7 DEF ApplyCCM
  <2>3. cjob.sums = [secret |-> cjob.sums.secret, configmap |-> cjob.sums.configmap]
    BY <1>7 DEF ApplyCCM
  <2>. QED  BY <2>1, <2>2, <2>3 DEF PodAnnotations
<1>8. ASSUME ApplyCSI PROVE NotesInv'
  BY <1>2, <1>8 DEF ApplyCSI, pods
<1>9. ASSUME DeployShootCharts PROVE NotesInv'
  BY <1>9 DEF DeployShootCharts, NoJob, pods
<1>10. ASSUME CPInterrupted PROVE NotesInv'
  BY <1>1, <1>10 DEF CPInterrupted, pods, deployed
<1>11. ASSUME RolloutCCM \/ CCMCrashes PROVE NotesInv'
  <2>1. /\ ccmPod' = [notes |-> ccm.notes, loaded |-> Mounted, ahead |-> Mounted # ccm.sums]
        /\ UNCHANGED <<cjob, ccm>> /\ ccm # Unset
    BY <1>11 DEF RolloutCCM, CCMCrashes, RunCCM, deployed
  <2>2. ccmPod'.notes = ccm.notes /\ ccmPod'.loaded = Mounted /\ ccmPod'.ahead = (Mounted # ccm.sums)
    BY <2>1, Zenon
  <2>3. ccm.notes = ccm.sums
    BY <2>1
  <2>4. ~ccmPod'.ahead => ccmPod'.loaded = ccmPod'.notes
    BY <2>2, <2>3, Zenon
  <2>. QED  BY <2>1, <2>4
<1>12. ASSUME UNCHANGED <<cjob, ccm, ccmPod>> PROVE NotesInv'
  BY <1>12
<1>. QED
  BY <1>3, <1>4, <1>5, <1>6, <1>7, <1>8, <1>9, <1>10, <1>11, <1>12
  DEF CPNext, ChangeInputs, SeeConfigMap, RolloutCSI, cpvars, deployed, pods

(* No step leaves something of older inputs behind, unless it asks for        *)
(* another reconcile.                                                        *)
LEMMA CurrentStep ==
  ASSUME CPIInv, [CPNext]_cpvars
  PROVE  CurrentInv'
<1>. USE DEF CPIInv
<1>. JobFields
  OBVIOUS
<1>1. ASSUME due' PROVE CurrentInv'
  BY <1>1 DEF CurrentInv
<1>2. ASSUME StartReconcile PROVE CurrentInv'
  <2>1. /\ cjob'.pc = "config" /\ cjob'.offer = offered /\ cjob'.zones = active
        /\ cjob'.storage = storage /\ UNCHANGED given
    BY <1>2 DEF StartReconcile, NoJob
  <2>. QED  BY <2>1 DEF CurrentInv, given
<1>3. ASSUME DeployConfigChart, ~due' PROVE CurrentInv'
  <2>1. Goto("checksums") /\ conf' = ConfigValues(account, cjob.offer, cjob.zones)
    BY <1>3 DEF DeployConfigChart, Fail
  <2>. QED  BY <1>3, <2>1, GotoStep DEF CurrentInv, DeployConfigChart, given
<1>4. ASSUME ComputeChecksums, ~due' PROVE CurrentInv'
  <2>1. cjob' = [cjob EXCEPT !.pc = "values", !.sums = [secret |-> account, configmap |-> confSeen]]
        /\ lagged' = (confSeen # conf) /\ UNCHANGED due
    BY <1>4 DEF ComputeChecksums, Fail, SecretRead, ConfigMapRead
  <2>2. /\ cjob'.pc = "values" /\ cjob'.offer = cjob.offer /\ cjob'.zones = cjob.zones
        /\ cjob'.storage = cjob.storage /\ cjob'.sums = [secret |-> account, configmap |-> confSeen]
    BY <2>1 DEF JobFields
  <2>. QED  BY <1>4, <2>1, <2>2 DEF CurrentInv, ComputeChecksums, given, Mounted
<1>5. ASSUME GetControlPlaneChartValues, ~due' PROVE CurrentInv'
  <2>. DEFINE ks == InfraClusterKubeconfigs(account, cjob.offer)
  <2>1. cjob' = [cjob EXCEPT !.pc = "ccm", !.kubeconfigs = ks] /\ UNCHANGED due
        /\ RenderCSI(ks, cjob.zones) # {} /\ cjob.pc = "values"
    BY <1>5 DEF GetControlPlaneChartValues, Fail
  <2>2. /\ cjob'.pc = "ccm" /\ cjob'.offer = cjob.offer /\ cjob'.zones = cjob.zones
        /\ cjob'.storage = cjob.storage /\ cjob'.sums = cjob.sums /\ cjob'.kubeconfigs = ks
    BY <2>1 DEF JobFields
  <2>3. cjob.zones \subseteq DOMAIN cjob.offer.zones
    BY <2>1, Rendered DEF InfraClusterKubeconfigs
  <2>. QED
    BY <1>5, <2>1, <2>2, <2>3 DEF CurrentInv, GetControlPlaneChartValues, given, deployed, Mounted
<1>6. ASSUME ApplyCCM, ~due' PROVE CurrentInv'
  <2>1. ccm'.sums = cjob.sums /\ ccm'.notes = PodAnnotations(cjob.sums) /\ Goto("csi")
        /\ cjob.pc = "ccm" /\ UNCHANGED <<given, conf, csi, defaults, lagged>>
    BY <1>6 DEF ApplyCCM
  <2>2. cjob.sums = Mounted => PodAnnotations(cjob.sums) = Mounted
    BY DEF PodAnnotations, Mounted
  <2>. QED  BY <1>6, <2>1, <2>2, GotoStep DEF CurrentInv, given, Mounted
<1>7. ASSUME ApplyCSI, ~due' PROVE CurrentInv'
  <2>1. Goto("shoot") /\ cjob.pc = "csi" /\ UNCHANGED <<given, conf, ccm, defaults, lagged>>
        /\ csi' \in RenderCSI(cjob.kubeconfigs, cjob.zones)
    BY <1>7 DEF ApplyCSI
  <2>2. UNCHANGED due
    BY <2>1 DEF Goto
  <2>3. active # {} => csi' = [z \in active |-> Raw(offered.zones[z], account, offered)]
    <3>1. cjob.kubeconfigs = InfraClusterKubeconfigs(account, offered) /\ cjob.zones = active
      BY <1>7, <2>1, <2>2 DEF CurrentInv
    <3>2. active # {} => /\ active \subseteq DOMAIN offered.zones
                         /\ csi' = [z \in active |-> InfraClusterKubeconfigs(account, offered)[z]]
      BY <2>1, <3>1, Rendered DEF InfraClusterKubeconfigs
    <3>. QED  BY <3>2 DEF InfraClusterKubeconfigs
  <2>. QED  BY <1>7, <2>1, <2>2, <2>3, GotoStep DEF CurrentInv, given, Mounted
<1>8. ASSUME DeployShootCharts, ~due' PROVE CurrentInv'
  <2>1. cjob'.pc = "idle"
    BY <1>8 DEF DeployShootCharts, NoJob
  <2>. QED  BY <1>8, <2>1 DEF DeployShootCharts, CurrentInv, given, Mounted
<1>9. ASSUME UNCHANGED <<given, due, cjob, conf, ccm, csi, defaults, lagged>> PROVE CurrentInv'
  BY <1>9 DEF CurrentInv, given, Mounted
<1>10. ASSUME SeeConfigMap \/ RolloutCCM \/ RolloutCSI \/ CCMCrashes \/ UNCHANGED cpvars
       PROVE  CurrentInv'
  BY <1>9, <1>10 DEF SeeConfigMap, RolloutCCM, RolloutCSI, CCMCrashes, cpvars, deployed
<1>11. ASSUME ChangeInputs \/ CPInterrupted PROVE CurrentInv'
  BY <1>1, <1>11 DEF ChangeInputs, CPInterrupted, Fail
<1>. QED
  BY <1>2, <1>3, <1>4, <1>5, <1>6, <1>7, <1>8, <1>10, <1>11, <1>1 DEF CPNext

(* The invariant of the control plane holds in every reachable state.         *)
LEMMA CPInvariant == CPSpec => []CPIInv
<1>1. CPInit => CPIInv
  BY DEF CPInit, CPIInv, JobFields, CSIInv, Usable, NotesInv, CurrentInv, NoJob
<1>2. CPIInv /\ [CPNext]_cpvars => CPIInv'
  BY FieldsStep, CSIStep, NotesStep, CurrentStep DEF CPIInv
<1>. QED  BY <1>1, <1>2, PTL DEF CPSpec

(* For any secrets, profiles, zones and failures: a kubeconfig in the CSI      *)
(* driver's pod is one kubeconfig.Raw made of some account and some profile,  *)
(* and gdch-sa-auth-plugin can use every such one, because the account that   *)
(* is marshalled never names a CA file next to the profile's CA.             *)
THEOREM CSIAuthenticates == CPSpec => []CSICanAuthenticate
<1>1. ASSUME NEW k, Kubeconfig(k)
      PROVE  /\ ~PluginFails(k.exec) /\ k.exec.audience = k.server
             /\ \E o \in Offers : PluginTrusts(k.exec) = o.caData
  <2>. DEFINE url == k.server
  <2>1. PICK a \in Accounts, o \in Offers : url # Unset /\ k = Raw(url, a, o)
    BY <1>1 DEF Kubeconfig
  <2>2. MarshalAccount(a).caCertPath = Unset /\ MarshalAccount(a) # Unset
    <3>1. DOMAIN a = {"project", "key", "caCertPath"} /\ MarshalAccount(a) # Unset
      BY AccountsAssumption
    <3>. QED  BY <3>1 DEF MarshalAccount
  <2>3. /\ k.server = url /\ k.exec.audience = url /\ k.exec.keyString = MarshalAccount(a)
        /\ k.exec.caCert = o.caData
    BY <2>1 DEF Raw
  <2>. HIDE DEF MarshalAccount
  <2>. QED  BY <2>1, <2>2, <2>3 DEF PluginFails, PluginTrusts
<1>2. CPIInv => CSICanAuthenticate
  BY <1>1 DEF CPIInv, CSIInv, Usable, CSICanAuthenticate
<1>. QED  BY <1>2, CPInvariant, PTL

(* For any inputs, and any order of their changes, of failures and restarts,  *)
(* of the cache's updates and of the pods' starts: what has settled works     *)
(* with the latest inputs.                                                   *)
THEOREM ReconciledWorksWithLatest == CPSpec => []ReconciledIsLoaded
<1>1. CPIInv => ReconciledIsLoaded
  <2>. SUFFICES ASSUME CPIInv, Settled
                PROVE  /\ lagged \/ ccmPod.ahead \/
                            /\ ccmPod.loaded = [secret |-> account,
                                                configmap |-> ConfigValues(account, offered, active)]
                            /\ DOMAIN ccmPod.loaded.configmap.zones = active
                       /\ active # {} => csiPod = [z \in active |-> Raw(offered.zones[z], account, offered)]
                       /\ defaults = StorageClassesValues(storage)
    BY DEF ReconciledIsLoaded
  <2>1. ~due /\ cjob.pc = "idle" /\ ccmPod.notes = ccm.notes /\ csiPod = csi
    BY DEF Settled, NoJob
  <2>2. /\ conf = ConfigValues(account, offered, active) /\ active \subseteq DOMAIN offered.zones
        /\ ~lagged => ccm.notes = Mounted
        /\ active # {} => csi = [z \in active |-> Raw(offered.zones[z], account, offered)]
        /\ defaults = StorageClassesValues(storage)
    BY <2>1 DEF CPIInv, CurrentInv
  <2>3. ASSUME ~lagged, ~ccmPod.ahead
        PROVE  ccmPod.loaded = [secret |-> account, configmap |-> ConfigValues(account, offered, active)]
    BY <2>1, <2>2, <2>3 DEF CPIInv, NotesInv, Mounted
  <2>4. DOMAIN ConfigValues(account, offered, active).zones = active
    BY <2>2 DEF ConfigValues, FilterZones
  <2>. QED  BY <2>1, <2>2, <2>3, <2>4
<1>. QED  BY <1>1, CPInvariant, PTL

---------------------------------------------------------------------------
(* The API server's webhook *)
IsAPIServer(w) ==
  /\ {"image", "labels", "containers"} \subseteq DOMAIN w
  /\ "kube-apiserver" \in DOMAIN w.containers
  /\ "flags" \in DOMAIN w.containers["kube-apiserver"]
Flagged(w) == "PersistentVolumeLabel" \in Disabled(w.containers["kube-apiserver"])

VersionInv == /\ version \in Minors /\ versionSeen \in Minors /\ versionSeen <= version
              /\ object \in DOMAIN Templates

(* The API server that is stored is for no later version than the shoot's,    *)
(* and what the webhook has read of it is no later than what it reads now.    *)
StoredInv == object = "kube-apiserver" /\ stored # NotSet =>
  /\ IsAPIServer(stored) /\ stored.image \in Minors /\ stored.image <= version
  /\ view.version \in Minors /\ view.version <= versionSeen

WHIInv == VersionInv /\ StoredInv /\ PluginMatchesVersion

(* EnsureKubeAPIServer keeps the image, and names the plugin iff it was named  *)
(* before or the version it is told is older than 1.31.                       *)
LEMMA EnsuredFlag ==
  ASSUME NEW w, IsAPIServer(w), NEW v
  PROVE  LET m == EnsureKubeAPIServer(w, v) IN
         IsAPIServer(m) /\ m.image = w.image /\ (Flagged(m) <=> Flagged(w) \/ v < 31)
<1>. DEFINE c == w.containers["kube-apiserver"]
            bare == NoFlags(c, {"cloud-provider", "cloud-config"})
            args == EnsureAPIServerArgs(c, v)
            m == EnsureKubeAPIServer(w, v)
<1>1. "flags" \in DOMAIN c
  BY DEF IsAPIServer
<1>2. /\ "flags" \in DOMAIN bare /\ DOMAIN bare.flags = DOMAIN c.flags \ {"cloud-provider", "cloud-config"}
      /\ \A f \in DOMAIN bare.flags : bare.flags[f] = c.flags[f]
  BY <1>1 DEF NoFlags
<1>3. Disabled(bare) = Disabled(c)
  BY <1>2 DEF Disabled
<1>4. "flags" \in DOMAIN args /\ ("PersistentVolumeLabel" \in Disabled(args) <=> Flagged(w) \/ v < 31)
  <2>1. CASE v < 31
    <3>. DEFINE plugins == Disabled(bare) \cup {"PersistentVolumeLabel"}
    <3>1. args = SetFlag(bare, "disable-admission-plugins", plugins)
      BY <2>1 DEF EnsureAPIServerArgs, Less131
    <3>. HIDE DEF args, bare, plugins
    <3>2. /\ "flags" \in DOMAIN args /\ "disable-admission-plugins" \in DOMAIN args.flags
          /\ args.flags["disable-admission-plugins"] = plugins
      BY <1>2, <3>1 DEF SetFlag
    <3>3. Disabled(args) = plugins
      BY <3>2 DEF Disabled
    <3>. QED  BY <2>1, <3>2, <3>3 DEF plugins
  <2>2. CASE ~(v < 31)
    <3>1. args = bare
      BY <2>2 DEF EnsureAPIServerArgs, Less131
    <3>. HIDE DEF args, bare
    <3>. QED  BY <1>2, <1>3, <2>2, <3>1 DEF Flagged
  <2>. QED  BY <2>1, <2>2
<1>5. /\ {"image", "labels", "containers"} \subseteq DOMAIN m /\ m.image = w.image
      /\ "kube-apiserver" \in DOMAIN m.containers
      /\ m.containers["kube-apiserver"] = args
  <2>. DEFINE labelled == [w EXCEPT !.labels = @ \cup {"to-csi-snapshot-validation"}]
              Args(container) == EnsureAPIServerArgs(container, v)
              once == OnContainers(labelled, {"kube-apiserver"}, Args)
  <2>1. m = OnContainers(once, {"vpn-client", "vpn-client-1"}, EnsureSELinuxSPCT)
    BY DEF EnsureKubeAPIServer
  <2>2. /\ DOMAIN labelled = DOMAIN w /\ labelled.image = w.image /\ labelled.containers = w.containers
    BY DEF IsAPIServer
  <2>. HIDE DEF labelled
  <2>3. /\ DOMAIN once = DOMAIN w /\ once.image = w.image /\ "kube-apiserver" \in DOMAIN once.containers
        /\ once.containers["kube-apiserver"] = args
    BY <2>2 DEF OnContainers, IsAPIServer
  <2>. HIDE DEF once, m
  <2>. QED  BY <2>1, <2>3 DEF OnContainers, IsAPIServer
<1>. HIDE DEF m, args
<1>6. IsAPIServer(m) /\ (Flagged(m) <=> "PersistentVolumeLabel" \in Disabled(args))
  BY <1>4, <1>5 DEF IsAPIServer, Flagged
<1>. QED  BY <1>4, <1>5, <1>6 DEF m

(* Versions only grow, and the cached Cluster follows.                        *)
LEMMA VersionStep ==
  ASSUME WHIInv, [WNext]_wvars
  PROVE  VersionInv' /\ version <= version' /\ versionSeen <= versionSeen' /\ UNCHANGED object
<1>. USE MinorsAssumption DEF WHIInv, VersionInv
<1>1. version \in Nat /\ versionSeen \in Nat
  OBVIOUS
<1>2. CASE UpgradeShoot
  <2>1. version' \in Minors /\ version' > version /\ UNCHANGED <<versionSeen, object>>
    BY <1>2 DEF UpgradeShoot
  <2>2. version' \in Nat
    BY <2>1
  <2>. QED  BY <1>1, <2>1, <2>2
<1>3. CASE SeeCluster
  BY <1>1, <1>3 DEF SeeCluster
<1>4. CASE RestartOperator
  BY <1>1, <1>4 DEF RestartOperator
<1>5. CASE UNCHANGED <<version, versionSeen, object>>
  BY <1>1, <1>5
<1>. QED
  BY <1>2, <1>3, <1>4, <1>5 DEF WNext, WriteTemplate, WriteBack, UpgradeSeed, wvars

(* No write stores an API server whose flags its version does not match.      *)
LEMMA StoredStep ==
  ASSUME WHIInv, [WNext]_wvars
  PROVE  (StoredInv /\ PluginMatchesVersion)'
<1>. USE MinorsAssumption
<1>. SUFFICES ASSUME object' = "kube-apiserver", stored' # NotSet
              PROVE  /\ IsAPIServer(stored') /\ stored'.image \in Minors /\ stored'.image <= version'
                     /\ view'.version \in Minors /\ view'.version <= versionSeen'
                     /\ stored'.image < 31 => Flagged(stored')
                     /\ stored'.image >= 31 /\ Flagged(stored') => view'.version < 31
  BY DEF StoredInv, PluginMatchesVersion, Flagged
<1>1. /\ version \in Nat /\ versionSeen \in Nat /\ version' \in Nat /\ versionSeen' \in Nat
      /\ version <= version' /\ versionSeen <= versionSeen' /\ versionSeen <= version
      /\ object = "kube-apiserver" /\ version \in Minors /\ versionSeen \in Minors
      /\ object \in DOMAIN Templates
  BY VersionStep DEF WHIInv, VersionInv
<1>2. CurrentView.version = versionSeen
  BY DEF CurrentView
<1>3. \A new, old : Mutated(new, old, CurrentView) = EnsureKubeAPIServer(new, versionSeen)
  BY <1>1, <1>2 DEF Mutated
<1>4. ASSUME NEW t \in Templates[object], WriteTemplate(t)
      PROVE  /\ IsAPIServer(stored') /\ stored'.image \in Minors /\ stored'.image <= version'
             /\ view'.version \in Minors /\ view'.version <= versionSeen'
             /\ stored'.image < 31 => Flagged(stored')
             /\ stored'.image >= 31 /\ Flagged(stored') => view'.version < 31
  <2>1. /\ t.image = version /\ view'.version = versionSeen /\ stored' = EnsureKubeAPIServer(t, versionSeen)
        /\ UNCHANGED <<version, versionSeen>>
    BY <1>1, <1>2, <1>3, <1>4 DEF WriteTemplate, MadeForVersion
  <2>2. IsAPIServer(t) /\ (t.image >= 31 => ~Flagged(t))
    BY <1>1, TemplatesAssumption DEF IsAPIServer, Flagged
  <2>3. IsAPIServer(stored') /\ stored'.image = version /\ (Flagged(stored') <=> Flagged(t) \/ versionSeen < 31)
    BY <2>1, <2>2, EnsuredFlag
  <2>. QED  BY <1>1, <2>1, <2>2, <2>3
<1>5. ASSUME stored # NotSet
      PROVE  /\ IsAPIServer(stored) /\ stored.image \in Minors /\ stored.image <= version
             /\ view.version \in Minors /\ view.version <= versionSeen
             /\ stored.image < 31 => Flagged(stored)
             /\ stored.image >= 31 /\ Flagged(stored) => view.version < 31
             /\ stored.image \in Nat /\ view.version \in Nat
  <2>1. stored.image \in Minors /\ view.version \in Minors
    BY <1>1, <1>5 DEF WHIInv, StoredInv
  <2>2. stored.image \in Nat /\ view.version \in Nat
    BY <2>1
  <2>. QED  BY <1>1, <1>5, <2>2 DEF WHIInv, StoredInv, PluginMatchesVersion, Flagged
<1>6. ASSUME WriteBack
      PROVE  /\ IsAPIServer(stored') /\ stored'.image \in Minors /\ stored'.image <= version'
             /\ view'.version \in Minors /\ view'.version <= versionSeen'
             /\ stored'.image < 31 => Flagged(stored')
             /\ stored'.image >= 31 /\ Flagged(stored') => view'.version < 31
  <2>1. /\ stored' = EnsureKubeAPIServer(stored, versionSeen) /\ stored # NotSet
        /\ UNCHANGED <<version, versionSeen, view>>
    BY <1>3, <1>6 DEF WriteBack
  <2>2. IsAPIServer(stored') /\ stored'.image = stored.image
        /\ (Flagged(stored') <=> Flagged(stored) \/ versionSeen < 31)
    BY <1>5, <2>1, EnsuredFlag
  <2>. QED  BY <1>1, <1>5, <2>1, <2>2
<1>7. ASSUME UNCHANGED <<stored, view>>
      PROVE  /\ IsAPIServer(stored') /\ stored'.image \in Minors /\ stored'.image <= version'
             /\ view'.version \in Minors /\ view'.version <= versionSeen'
             /\ stored'.image < 31 => Flagged(stored')
             /\ stored'.image >= 31 /\ Flagged(stored') => view'.version < 31
  <2>1. stored # NotSet /\ stored' = stored /\ view' = view
    BY <1>7
  <2>2. stored.image <= version' /\ view.version <= versionSeen'
    BY <1>1, <1>5, <2>1
  <2>. QED  BY <1>5, <2>1, <2>2
<1>. QED
  BY <1>4, <1>6, <1>7 DEF WNext, UpgradeShoot, SeeCluster, UpgradeSeed, RestartOperator, wvars

(* For any versions, templates and order of writes, upgrades, restarts and     *)
(* updates of the cache: the API server's flags fit its version, but for what *)
(* a stale Cluster at gardenlet's last write leaves behind.                  *)
THEOREM PluginFitsVersion == WSpec => []PluginMatchesVersion
<1>1. WInit => WHIInv
  <2>. SUFFICES ASSUME WInit PROVE WHIInv
    OBVIOUS
  <2>1. version \in Minors /\ version \in Nat /\ versionSeen = version /\ object \in DOMAIN Templates
    BY MinorsAssumption DEF WInit
  <2>2. object = "kube-apiserver" => stored = NotSet
    BY DEF WInit
  <2>. QED  BY <2>1, <2>2 DEF WHIInv, VersionInv, StoredInv, PluginMatchesVersion
<1>2. WHIInv /\ [WNext]_wvars => WHIInv'
  BY VersionStep, StoredStep DEF WHIInv
<1>3. WHIInv => PluginMatchesVersion
  BY DEF WHIInv
<1>. QED  BY <1>1, <1>2, <1>3, PTL DEF WSpec

---------------------------------------------------------------------------
(* Every webhook once more *)

(* To set a flag, or the SELinux type, to what it is changes nothing.        *)
LEMMA SetTwice ==
  ASSUME NEW c, NEW flag, NEW x
  PROVE  /\ SetFlag(SetFlag(c, flag, x), flag, x) = SetFlag(c, flag, x)
         /\ EnsureSELinuxSPCT(EnsureSELinuxSPCT(c)) = EnsureSELinuxSPCT(c)
<1>1. SetFlag(SetFlag(c, flag, x), flag, x) = SetFlag(c, flag, x)
  <2>. DEFINE F == [f \in DOMAIN c.flags \cup {flag} |-> IF f = flag THEN x ELSE c.flags[f]]
              d == [c EXCEPT !.flags = F]
              G == [f \in DOMAIN d.flags \cup {flag} |-> IF f = flag THEN x ELSE d.flags[f]]
  <2>1. SetFlag(c, flag, x) = d /\ SetFlag(d, flag, x) = [d EXCEPT !.flags = G]
    BY DEF SetFlag
  <2>2. CASE "flags" \in DOMAIN c
    <3>1. d.flags = F
      BY <2>2
    <3>2. G = F
      BY <3>1
    <3>. HIDE DEF F, G
    <3>. QED  BY <2>1, <3>2
  <2>3. CASE "flags" \notin DOMAIN c
    <3>. HIDE DEF F, G
    <3>. QED  BY <2>1, <2>3
  <2>. QED  BY <2>2, <2>3
<1>2. EnsureSELinuxSPCT(EnsureSELinuxSPCT(c)) = EnsureSELinuxSPCT(c)
  BY DEF EnsureSELinuxSPCT
<1>. QED  BY <1>1, <1>2

(* Containers given SELinux type spc_t are given it again: nothing changes.  *)
LEMMA SPCTwice ==
  ASSUME NEW w, NEW names
  PROVE  OnContainers(OnContainers(w, names, EnsureSELinuxSPCT), names, EnsureSELinuxSPCT)
           = OnContainers(w, names, EnsureSELinuxSPCT)
<1>. DEFINE C == [n \in DOMAIN w.containers |->
                    IF n \in names THEN EnsureSELinuxSPCT(w.containers[n]) ELSE w.containers[n]]
            u == [w EXCEPT !.containers = C]
            D == [n \in DOMAIN u.containers |->
                    IF n \in names THEN EnsureSELinuxSPCT(u.containers[n]) ELSE u.containers[n]]
<1>1. /\ OnContainers(w, names, EnsureSELinuxSPCT) = u
      /\ OnContainers(u, names, EnsureSELinuxSPCT) = [u EXCEPT !.containers = D]
  BY DEF OnContainers
<1>2. CASE "containers" \in DOMAIN w
  <2>1. u.containers = C
    BY <1>2
  <2>2. D = C
    BY <2>1, SetTwice
  <2>. HIDE DEF C, D
  <2>. QED  BY <1>1, <2>2
<1>3. CASE "containers" \notin DOMAIN w
  <2>. HIDE DEF C, D
  <2>. QED  BY <1>1, <1>3
<1>. QED  BY <1>2, <1>3

(* The sidecar replaces a sidecar of its own for the same version.           *)
LEMMA MCMTwice ==
  ASSUME NEW w, NEW v
  PROVE  EnsureMCM(EnsureMCM(w, v), v) = EnsureMCM(w, v)
<1>. DEFINE C == [n \in DOMAIN w.containers \cup {"provider"} |->
                    IF n = "provider" THEN ProviderSidecar(v) ELSE w.containers[n]]
            u == [w EXCEPT !.containers = C]
            D == [n \in DOMAIN u.containers \cup {"provider"} |->
                    IF n = "provider" THEN ProviderSidecar(v) ELSE u.containers[n]]
<1>1. EnsureMCM(w, v) = u /\ EnsureMCM(u, v) = [u EXCEPT !.containers = D]
  BY DEF EnsureMCM
<1>2. CASE "containers" \in DOMAIN w
  <2>1. u.containers = C
    BY <1>2
  <2>2. D = C
    BY <2>1
  <2>. HIDE DEF C, D
  <2>. QED  BY <1>1, <2>2
<1>3. CASE "containers" \notin DOMAIN w
  <2>. HIDE DEF C, D
  <2>. QED  BY <1>1, <1>3
<1>. QED  BY <1>2, <1>3

(* The provider's policy for the autoscaler replaces itself.                 *)
LEMMA VPATwice ==
  ASSUME NEW vpa, EnsureVPA(vpa).policies # NotSet
  PROVE  EnsureVPA(EnsureVPA(vpa)) = EnsureVPA(vpa)
<1>. DEFINE P == (IF vpa.policies = NotSet THEN {} ELSE {p \in vpa.policies : p[1] # "provider"})
                   \cup {<<"provider", "minimum">>}
            u == [vpa EXCEPT !.policies = P]
            Q == {p \in u.policies : p[1] # "provider"} \cup {<<"provider", "minimum">>}
<1>1. EnsureVPA(vpa) = u /\ EnsureVPA(u) = [u EXCEPT !.policies = Q]
  BY DEF EnsureVPA
<1>2. CASE "policies" \in DOMAIN vpa
  <2>1. u.policies = P
    BY <1>2
  <2>2. <<"provider", "minimum">>[1] = "provider"
    OBVIOUS
  <2>3. \A p \in P : p[1] # "provider" \/ p = <<"provider", "minimum">>
    OBVIOUS
  <2>4. Q = P
    BY <2>1, <2>2, <2>3
  <2>. HIDE DEF P, Q
  <2>. QED  BY <1>1, <2>4
<1>3. CASE "policies" \notin DOMAIN vpa
  <2>. HIDE DEF P, Q
  <2>. QED  BY <1>1, <1>3
<1>. QED  BY <1>2, <1>3

(* The kubelet's unit and settings take the same additions once.             *)
LEMMA KubeletTwice ==
  ASSUME NEW u
  PROVE  /\ EnsureKubeletUnit(EnsureKubeletUnit(u)) = EnsureKubeletUnit(u)
         /\ EnsureKubeletConfiguration(EnsureKubeletConfiguration(u)) = EnsureKubeletConfiguration(u)
<1>1. EnsureKubeletConfiguration(EnsureKubeletConfiguration(u)) = EnsureKubeletConfiguration(u)
  BY DEF EnsureKubeletConfiguration
<1>. DEFINE S(x) == SetFlag(x, "cloud-provider", "external")
            Started(x) == IF x.start = NotSet THEN x ELSE [x EXCEPT !.start = S(x.start)]
            Prepared(x) == [x EXCEPT !.pre = x.pre \cup {"set-hostname"}]
<1>2. \A x : EnsureKubeletUnit(x) = Prepared(Started(x))
  BY DEF EnsureKubeletUnit
<1>3. \A x : S(S(x)) = S(x)
  BY SetTwice
<1>. HIDE DEF S
<1>4. Prepared(Started(Prepared(Started(u)))) = Prepared(Started(u))
  <2>. DEFINE a == Started(u)  b == Prepared(a)
  <2>1. CASE u.start = NotSet
    <3>1. a = u
      BY <2>1
    <3>2. Prepared(b) = b
      OBVIOUS
    <3>3. CASE "start" \in DOMAIN u
      <4>1. b.start = NotSet
        BY <2>1, <3>3
      <4>. QED  BY <3>2, <4>1
    <3>4. CASE "start" \notin DOMAIN u
      <4>1. Started(b) = b
        BY <3>4
      <4>. QED  BY <3>2, <4>1
    <3>. QED  BY <3>3, <3>4
  <2>2. CASE u.start # NotSet
    <3>1. a = [u EXCEPT !.start = S(u.start)]
      BY <2>2
    <3>2. Prepared(b) = b
      OBVIOUS
    <3>3. Started(b) = b
      <4>1. CASE "start" \in DOMAIN u
        <5>1. b.start = S(u.start)
          BY <3>1, <4>1
        <5>2. S(b.start) = b.start
          BY <1>3, <5>1
        <5>. QED  BY <5>2
      <4>2. CASE "start" \notin DOMAIN u
        BY <3>1, <4>2
      <4>. QED  BY <4>1, <4>2
    <3>. QED  BY <3>2, <3>3
  <2>. QED  BY <2>1, <2>2
<1>. QED  BY <1>1, <1>2, <1>4

(* An escaped keyword of a CRD is none.                                      *)
LEMMA CRDTwice ==
  ASSUME NEW crd, NEW seed
  PROVE  MutateCRD(MutateCRD(crd, seed), seed) = MutateCRD(crd, seed)
<1>1. \A x : Escape(Escape(x)) = Escape(x)
  BY DEF Escape
<1>. QED  BY <1>1 DEF MutateCRD

(* The kube-controller-manager's container has no more to set or to drop.    *)
LEMMA KCMContainerTwice ==
  ASSUME NEW c
  PROVE  KCMContainer(KCMContainer(c)) = KCMContainer(c)
<1>. DEFINE gone == {"cloud-config", "external-cloud-volume-plugin"}
            mounts == {"etc-ssl", "usr-share-cacerts"}
            Flags(x) == [f \in (DOMAIN x \ gone) \cup {"cloud-provider"} |->
                           IF f = "cloud-provider" THEN "external" ELSE x[f]]
            K(x) == [i \in DOMAIN x |-> IF i = "flags" THEN Flags(x["flags"])
                                        ELSE IF i = "mounts" THEN x["mounts"] \ mounts ELSE x[i]]
<1>1. ASSUME NEW x PROVE KCMContainer(x) = K(x)
  <2>. DEFINE bare == NoFlags(x, gone)
              set == SetFlag(bare, "cloud-provider", "external")
              B == [f \in DOMAIN x.flags \ gone |-> x.flags[f]]
              G == [f \in DOMAIN bare.flags \cup {"cloud-provider"} |->
                      IF f = "cloud-provider" THEN "external" ELSE bare.flags[f]]
  <2>1. bare = [x EXCEPT !.flags = B] /\ set = [bare EXCEPT !.flags = G]
        /\ KCMContainer(x) = [set EXCEPT !.mounts = @ \ mounts]
    BY DEF NoFlags, SetFlag, KCMContainer
  <2>2. "flags" \in DOMAIN x => G = Flags(x["flags"])
    <3>1. SUFFICES ASSUME "flags" \in DOMAIN x PROVE G = Flags(x["flags"])
      OBVIOUS
    <3>2. bare.flags = B
      BY <2>1, <3>1
    <3>. HIDE DEF bare
    <3>. QED  BY <3>2
  <2>. HIDE DEF bare, set, B, G, Flags, mounts
  <2>3. set = [i \in DOMAIN x |-> IF i = "flags" THEN Flags(x["flags"]) ELSE x[i]]
    BY <2>1, <2>2
  <2>4. "mounts" \in DOMAIN x => set.mounts = x["mounts"]
    BY <2>3
  <2>. QED  BY <2>1, <2>3, <2>4
<1>2. \A x : Flags(Flags(x)) = Flags(x)
  OBVIOUS
<1>3. \A x : (x \ mounts) \ mounts = x \ mounts
  OBVIOUS
<1>. HIDE DEF Flags, mounts
<1>4. K(K(c)) = K(c)
  <2>. DEFINE d == K(c)
  <2>1. DOMAIN d = DOMAIN c
    OBVIOUS
  <2>2. "flags" \in DOMAIN c => d["flags"] = Flags(c["flags"])
    OBVIOUS
  <2>3. "mounts" \in DOMAIN c => d["mounts"] = c["mounts"] \ mounts
    OBVIOUS
  <2>. QED  BY <1>2, <1>3, <2>1, <2>2, <2>3
<1>. QED  BY <1>1, <1>4

(* Nor have its labels and volumes.                                          *)
LEMMA KCMTwice ==
  ASSUME NEW w
  PROVE  EnsureKubeControllerManager(EnsureKubeControllerManager(w)) = EnsureKubeControllerManager(w)
<1>. DEFINE labels == {"to-blocked-cidrs", "to-public-networks", "to-private-networks"}
            volumes == {"etc-ssl", "usr-share-cacerts"}
            Containers(x) == [n \in DOMAIN x |->
                                IF n \in {"kube-controller-manager"} THEN KCMContainer(x[n]) ELSE x[n]]
            K(x) == [i \in DOMAIN x |-> IF i = "containers" THEN Containers(x["containers"])
                                        ELSE IF i = "labels" THEN x["labels"] \ labels
                                        ELSE IF i = "volumes" THEN x["volumes"] \ volumes ELSE x[i]]
<1>1. ASSUME NEW x PROVE EnsureKubeControllerManager(x) = K(x)
  <2>. DEFINE on == OnContainers(x, {"kube-controller-manager"}, KCMContainer)
              C == Containers(x.containers)
  <2>1. /\ on = [x EXCEPT !.containers = C]
        /\ EnsureKubeControllerManager(x) =
             [on EXCEPT !.labels = @ \ labels, !.volumes = @ \ volumes]
    BY DEF OnContainers, EnsureKubeControllerManager
  <2>. HIDE DEF on, labels, volumes, Containers
  <2>2. on = [i \in DOMAIN x |-> IF i = "containers" THEN Containers(x["containers"]) ELSE x[i]]
    BY <2>1
  <2>3. /\ "labels" \in DOMAIN x => on.labels = x["labels"]
        /\ "volumes" \in DOMAIN x => on.volumes = x["volumes"]
    BY <2>2
  <2>. QED  BY <2>1, <2>2, <2>3
<1>2. \A x : Containers(Containers(x)) = Containers(x)
  BY KCMContainerTwice
<1>3. /\ \A x : (x \ labels) \ labels = x \ labels
      /\ \A x : (x \ volumes) \ volumes = x \ volumes
  OBVIOUS
<1>. HIDE DEF Containers, labels, volumes
<1>4. K(K(w)) = K(w)
  <2>. DEFINE d == K(w)
  <2>1. DOMAIN d = DOMAIN w
    OBVIOUS
  <2>2. /\ "containers" \in DOMAIN w => d["containers"] = Containers(w["containers"])
        /\ "labels" \in DOMAIN w => d["labels"] = w["labels"] \ labels
        /\ "volumes" \in DOMAIN w => d["volumes"] = w["volumes"] \ volumes
    OBVIOUS
  <2>. QED  BY <1>2, <1>3, <2>1, <2>2
<1>. QED  BY <1>1, <1>4

(* The API server's plugin is disabled once, its old flags are gone.         *)
LEMMA APIServerTwice ==
  ASSUME NEW w, NEW v
  PROVE  EnsureKubeAPIServer(EnsureKubeAPIServer(w, v), v) = EnsureKubeAPIServer(w, v)
<1>. DEFINE Args(c) == EnsureAPIServerArgs(c, v)
            gone == {"cloud-provider", "cloud-config"}
<1>1. ASSUME NEW c PROVE Args(Args(c)) = Args(c)
  <2>. DEFINE bare == NoFlags(c, gone)  a == Args(c)  again == NoFlags(a, gone)
              B == [f \in DOMAIN c.flags \ gone |-> c.flags[f]]
              S(x) == SetFlag(x, "disable-admission-plugins", Disabled(x) \cup {"PersistentVolumeLabel"})
  <2>1. /\ bare = [c EXCEPT !.flags = B]
        /\ a = Args(c) /\ a = IF Less131(v) THEN S(bare) ELSE bare
        /\ Args(a) = IF Less131(v) THEN S(again) ELSE again
    BY DEF NoFlags, EnsureAPIServerArgs
  <2>2. "flags" \in DOMAIN c => bare.flags = B
    BY <2>1
  <2>3. ASSUME NEW x, DOMAIN x = DOMAIN c, "flags" \notin DOMAIN c, x = [i \in DOMAIN c |-> c[i]]
        PROVE  NoFlags(x, gone) = x /\ S(x) = x
    BY <2>3 DEF NoFlags, SetFlag
  <2>4. CASE "flags" \notin DOMAIN c
    <3>1. bare = [i \in DOMAIN c |-> c[i]]
      BY <2>1, <2>4
    <3>. HIDE DEF bare, a, S, again
    <3>2. a = bare
      BY <2>1, <2>3, <2>4, <3>1
    <3>3. again = a
      BY <2>3, <2>4, <3>1, <3>2 DEF again
    <3>. QED  BY <2>1, <2>3, <2>4, <3>1, <3>2, <3>3
  <2>5. CASE "flags" \in DOMAIN c
    <3>1. ASSUME NEW x, "flags" \in DOMAIN x, x = [i \in DOMAIN x |-> x[i]], DOMAIN x.flags \cap gone = {},
                 x.flags = [f \in DOMAIN x.flags |-> x.flags[f]]
          PROVE  NoFlags(x, gone) = x
      <4>1. [f \in DOMAIN x.flags \ gone |-> x.flags[f]] = x.flags
        BY <3>1
      <4>. QED  BY <3>1, <4>1 DEF NoFlags
    <3>2. DOMAIN bare.flags \cap gone = {} /\ "flags" \in DOMAIN bare /\ bare = [i \in DOMAIN bare |-> bare[i]]
          /\ bare.flags = [f \in DOMAIN bare.flags |-> bare.flags[f]]
      <4>1. DOMAIN B \cap gone = {} /\ B = [f \in DOMAIN B |-> B[f]]
        OBVIOUS
      <4>. HIDE DEF B, bare
      <4>. QED  BY <2>1, <2>2, <2>5, <4>1
    <3>. DEFINE P == Disabled(bare) \cup {"PersistentVolumeLabel"}
                F == [f \in DOMAIN bare.flags \cup {"disable-admission-plugins"} |->
                        IF f = "disable-admission-plugins" THEN P ELSE bare.flags[f]]
    <3>3. CASE Less131(v)
      <4>1. a = [bare EXCEPT !.flags = F]
        BY <2>1, <3>3 DEF SetFlag
      <4>2. DOMAIN F \cap gone = {} /\ F = [f \in DOMAIN F |-> F[f]]
            /\ "disable-admission-plugins" \in DOMAIN F /\ F["disable-admission-plugins"] = P
        BY <3>2
      <4>. HIDE DEF bare, a, F, P, S
      <4>3. a.flags = F /\ "flags" \in DOMAIN a /\ a = [i \in DOMAIN a |-> a[i]]
        BY <3>2, <4>1
      <4>4. again = a
        BY <3>1, <4>2, <4>3
      <4>5. Disabled(a) \cup {"PersistentVolumeLabel"} = P
        BY <4>2, <4>3 DEF Disabled, P
      <4>6. S(a) = SetFlag(a, "disable-admission-plugins", P)
        BY <4>5 DEF S
      <4>7. a = SetFlag(bare, "disable-admission-plugins", P)
        BY <2>1, <3>3 DEF S, P
      <4>8. S(a) = a
        BY <4>6, <4>7, SetTwice
      <4>. QED  BY <2>1, <3>3, <4>4, <4>8
    <3>4. CASE ~Less131(v)
      <4>. HIDE DEF bare, a, S
      <4>1. a = bare
        BY <2>1, <3>4
      <4>2. again = bare
        BY <3>1, <3>2, <4>1
      <4>. HIDE DEF again
      <4>. QED  BY <2>1, <3>4, <4>1, <4>2
    <3>. QED  BY <3>3, <3>4
  <2>. QED  BY <2>4, <2>5
<1>. DEFINE Containers(x) == [n \in DOMAIN x |->
                                IF n \in {"kube-apiserver"} THEN Args(x[n])
                                ELSE IF n \in {"vpn-client", "vpn-client-1"} THEN EnsureSELinuxSPCT(x[n])
                                ELSE x[n]]
            Labels(x) == x \cup {"to-csi-snapshot-validation"}
            K(x) == [i \in DOMAIN x |-> IF i = "containers" THEN Containers(x["containers"])
                                        ELSE IF i = "labels" THEN Labels(x["labels"]) ELSE x[i]]
<1>2. ASSUME NEW x PROVE EnsureKubeAPIServer(x, v) = K(x)
  <2>. DEFINE labelled == [x EXCEPT !.labels = @ \cup {"to-csi-snapshot-validation"}]
              C == [n \in DOMAIN labelled.containers |-> IF n \in {"kube-apiserver"}
                      THEN Args(labelled.containers[n]) ELSE labelled.containers[n]]
              once == [labelled EXCEPT !.containers = C]
              D == [n \in DOMAIN once.containers |-> IF n \in {"vpn-client", "vpn-client-1"}
                      THEN EnsureSELinuxSPCT(once.containers[n]) ELSE once.containers[n]]
  <2>1. EnsureKubeAPIServer(x, v) = [once EXCEPT !.containers = D]
    BY DEF EnsureKubeAPIServer, OnContainers
  <2>. HIDE DEF Args
  <2>2. CASE "containers" \in DOMAIN x
    <3>1. labelled.containers = x["containers"] /\ "containers" \in DOMAIN labelled
      BY <2>2
    <3>2. once.containers = C
      BY <3>1
    <3>3. D = Containers(x["containers"])
      <4>. HIDE DEF labelled, once
      <4>. QED  BY <3>1, <3>2
    <3>. HIDE DEF C, D, Containers
    <3>. QED  BY <2>1, <3>3
  <2>3. CASE "containers" \notin DOMAIN x
    <3>. HIDE DEF C, D, Containers
    <3>. QED  BY <2>1, <2>3
  <2>. QED  BY <2>2, <2>3
<1>3. \A x : Containers(Containers(x)) = Containers(x)
  <2>. HIDE DEF Args
  <2>. QED  BY <1>1, SetTwice
<1>4. \A x : Labels(Labels(x)) = Labels(x)
  OBVIOUS
<1>. HIDE DEF Containers, Labels
<1>5. K(K(w)) = K(w)
  <2>. DEFINE d == K(w)
  <2>1. DOMAIN d = DOMAIN w
    OBVIOUS
  <2>2. /\ "containers" \in DOMAIN w => d["containers"] = Containers(w["containers"])
        /\ "labels" \in DOMAIN w => d["labels"] = Labels(w["labels"])
    OBVIOUS
  <2>. QED  BY <1>3, <1>4, <2>1, <2>2
<1>. QED  BY <1>2, <1>5

(* The k-th of a finite set of positions: there is one and only one.          *)
LEMMA Ranked ==
  ASSUME NEW n \in Nat, NEW S \in SUBSET (1..n), NEW k \in 1..Cardinality(S)
  PROVE  \E i \in S : /\ Cardinality({j \in S : j <= i}) = k
                      /\ \A h \in S : Cardinality({j \in S : j <= h}) = k => h = i
<1>. DEFINE c == Cardinality(S)
            Upto(i) == {j \in S : j <= i}
            rank == [i \in S |-> Cardinality(Upto(i))]
<1>1. IsFiniteSet(S) /\ c \in Nat
  <2>1. IsFiniteSet(1..n)
    BY FS_Interval
  <2>. QED  BY <2>1, FS_Subset, FS_CardinalityType
<1>2. ASSUME NEW i \in S
      PROVE  /\ IsFiniteSet(Upto(i)) /\ Upto(i) \in SUBSET S /\ Upto(i) # {}
             /\ Cardinality(Upto(i)) \in 1..c
  <2>1. Upto(i) \in SUBSET S /\ i \in Upto(i)
    OBVIOUS
  <2>2. IsFiniteSet(Upto(i)) /\ Cardinality(Upto(i)) <= c
    BY <1>1, <2>1, FS_Subset
  <2>3. Cardinality(Upto(i)) \in Nat /\ Cardinality(Upto(i)) # 0
    BY <2>1, <2>2, FS_CardinalityType, FS_EmptySet
  <2>. HIDE DEF Upto
  <2>. QED  BY <1>1, <2>1, <2>2, <2>3
<1>3. ASSUME NEW i \in S, NEW h \in S, i < h PROVE Cardinality(Upto(i)) < Cardinality(Upto(h))
  <2>1. Upto(i) \in SUBSET Upto(h) /\ Upto(i) # Upto(h)
    <3>1. h \in Upto(h) /\ h \notin Upto(i)
      BY <1>3
    <3>2. \A j \in S : j <= i => j <= h
      BY <1>3
    <3>. QED  BY <3>1, <3>2
  <2>2. /\ Cardinality(Upto(i)) <= Cardinality(Upto(h)) /\ Cardinality(Upto(i)) # Cardinality(Upto(h))
    BY <1>2, <2>1, FS_Subset
  <2>. HIDE DEF Upto
  <2>. QED  BY <1>1, <1>2, <2>2
<1>4. \A i, h \in S : rank[i] = rank[h] => i = h
  <2>1. SUFFICES ASSUME NEW i \in S, NEW h \in S, rank[i] = rank[h], i # h PROVE FALSE
    OBVIOUS
  <2>2. i < h \/ h < i
    BY <2>1
  <2>3. Cardinality(Upto(i)) = Cardinality(Upto(h)) /\ Cardinality(Upto(i)) \in 1..c
    BY <1>2, <2>1
  <2>. HIDE DEF Upto
  <2>. QED  BY <1>1, <1>3, <2>2, <2>3
<1>5. rank \in Injection(S, 1..c)
  <2>1. rank \in [S -> 1..c]
    BY <1>2
  <2>. HIDE DEF rank
  <2>. QED  BY <1>4, <2>1 DEF Injection, IsInjective
<1>6. rank \in Surjection(S, 1..c)
  <2>1. IsFiniteSet(1..c) /\ Cardinality(1..c) = c
    BY <1>1, FS_Interval
  <2>. HIDE DEF rank, c
  <2>. QED  BY <1>5, <2>1, FS_Injection DEF c
<1>7. PICK i \in S : rank[i] = k
  <2>. HIDE DEF rank
  <2>. QED  BY <1>6 DEF Surjection
<1>. QED  BY <1>4, <1>7

(* A list of projects that has been cleaned is clean.                         *)
LEMMA CleanedTwice ==
  ASSUME NEW p \in Seq([name : STRING, padded : BOOLEAN])
  PROVE  CleanedProjects(CleanedProjects(p)) = CleanedProjects(p)
<1>. DEFINE any == <<[name |-> "*", padded |-> FALSE]>>
            Wild(x) == \E i \in DOMAIN x : x[i].name = "*"
            At(x, k) == CHOOSE i \in FirstNamed(x) : Cardinality({j \in FirstNamed(x) : j <= i}) = k
            List(x) == [k \in 1..Cardinality(FirstNamed(x)) |-> [name |-> x[At(x, k)].name, padded |-> FALSE]]
<1>1. \A x : CleanedProjects(x) = IF Wild(x) THEN any ELSE List(x)
  BY DEF CleanedProjects
<1>2. Wild(any)
  OBVIOUS
<1>3. DOMAIN p = 1..Len(p) /\ Len(p) \in Nat
  OBVIOUS
<1>. DEFINE F == FirstNamed(p)  c == Cardinality(F)  q == List(p)
<1>4. F \in SUBSET (1..Len(p)) /\ \A i, j \in F : p[i].name = p[j].name => i = j
  BY <1>3 DEF FirstNamed
<1>5. c \in Nat
  <2>1. IsFiniteSet(1..Len(p))
    BY <1>3, FS_Interval
  <2>. QED  BY <1>4, <2>1, FS_Subset, FS_CardinalityType
<1>6. ASSUME NEW k \in 1..c
      PROVE  At(p, k) \in F /\ Cardinality({j \in F : j <= At(p, k)}) = k
  <2>1. \E i \in F : Cardinality({j \in F : j <= i}) = k
    <3>1. k \in 1..Cardinality(F)
      OBVIOUS
    <3>. HIDE DEF F
    <3>2. \E i \in F : /\ Cardinality({j \in F : j <= i}) = k
                       /\ \A h \in F : Cardinality({j \in F : j <= h}) = k => h = i
      BY <1>3, <1>4, <3>1, Ranked
    <3>. QED  BY <3>2
  <2>. QED  BY <2>1
<1>. HIDE DEF At
<1>7. /\ DOMAIN q = 1..c /\ q = [k \in 1..c |-> q[k]]
      /\ \A k \in 1..c : q[k] = [name |-> p[At(p, k)].name, padded |-> FALSE]
      /\ \A k \in 1..c : q[k].name = p[At(p, k)].name
  OBVIOUS
<1>. HIDE DEF q, c, F
<1>8. \A k, l \in 1..c : q[k].name = q[l].name => k = l
  <2>1. SUFFICES ASSUME NEW k \in 1..c, NEW l \in 1..c, q[k].name = q[l].name PROVE k = l
    OBVIOUS
  <2>2. At(p, k) = At(p, l)
    <3>1. q[k].name = p[At(p, k)].name /\ q[l].name = p[At(p, l)].name
      BY <1>7
    <3>. QED  BY <1>4, <1>6, <2>1, <3>1
  <2>. QED  BY <1>6, <2>2
<1>9. ~Wild(p) => ~Wild(q)
  <2>1. SUFFICES ASSUME NEW k \in 1..c, q[k].name = "*" PROVE Wild(p)
    BY <1>7
  <2>2. At(p, k) \in DOMAIN p
    BY <1>3, <1>4, <1>6
  <2>3. q[k].name = p[At(p, k)].name
    BY <1>7
  <2>. QED  BY <2>1, <2>2, <2>3
<1>10. FirstNamed(q) = 1..c
  <2>1. \A i \in 1..c : \A j \in 1..(i - 1) : j \in 1..c /\ j # i
    BY <1>5
  <2>. QED  BY <1>7, <1>8, <2>1 DEF FirstNamed
<1>11. Cardinality(1..c) = c
  BY <1>5, FS_Interval
<1>12. ASSUME NEW k \in 1..c PROVE At(q, k) = k
  <2>1. \A i \in 1..c : Cardinality({j \in 1..c : j <= i}) = i
    <3>1. SUFFICES ASSUME NEW i \in 1..c PROVE Cardinality({j \in 1..c : j <= i}) = i
      OBVIOUS
    <3>2. {j \in 1..c : j <= i} = 1..i
      BY <1>5
    <3>3. Cardinality(1..i) = i
      BY <1>5, FS_Interval
    <3>. QED  BY <3>2, <3>3
  <2>2. At(q, k) = CHOOSE i \in 1..c : Cardinality({j \in 1..c : j <= i}) = k
    BY <1>10 DEF At
  <2>3. \E i \in 1..c : Cardinality({j \in 1..c : j <= i}) = k
    BY <2>1
  <2>4. At(q, k) \in 1..c /\ Cardinality({j \in 1..c : j <= At(q, k)}) = k
    BY <2>2, <2>3
  <2>. QED  BY <2>1, <2>4
<1>13. List(q) = q
  <2>1. List(q) = [k \in 1..c |-> [name |-> q[At(q, k)].name, padded |-> FALSE]]
    BY <1>10, <1>11
  <2>2. q = [k \in 1..c |-> q[k]]
    BY <1>7
  <2>3. \A k \in 1..c : [name |-> q[At(q, k)].name, padded |-> FALSE] = q[k]
    BY <1>7, <1>12
  <2>. QED  BY <2>1, <2>2, <2>3
<1>14. CASE Wild(p)
  <2>. HIDE DEF Wild, List, any
  <2>. QED  BY <1>1, <1>2, <1>14
<1>15. CASE ~Wild(p)
  <2>1. CleanedProjects(p) = q
    BY <1>1, <1>15 DEF q
  <2>. HIDE DEF Wild, List, any
  <2>. QED  BY <1>1, <1>9, <1>13, <1>15, <2>1
<1>. QED  BY <1>14, <1>15

(* The list of a validated Service is clean: validated again it is the same. *)
LEMMA ServiceTwice ==
  ASSUME NEW s, s.projects # NotSet => s.projects \in Seq([name : STRING, padded : BOOLEAN])
  PROVE  ValidateService(ValidateService(s)) = ValidateService(s)
<1>. DEFINE C == CleanedProjects(s.projects)  t == [s EXCEPT !.projects = C]
<1>1. CASE Inspected(s) /\ s.projects # NotSet
  <2>1. ValidateService(s) = t
    BY <1>1 DEF ValidateService
  <2>2. CASE "projects" \in DOMAIN s
    <3>1. t.projects = C
      BY <2>2
    <3>2. CleanedProjects(C) = C
      BY <1>1, CleanedTwice
    <3>3. [t EXCEPT !.projects = C] = t
      <4>. HIDE DEF C
      <4>. QED  OBVIOUS
    <3>. HIDE DEF C, t
    <3>. QED  BY <2>1, <3>1, <3>2, <3>3 DEF ValidateService
  <2>3. CASE "projects" \notin DOMAIN s
    <3>1. \A x : [t EXCEPT !.projects = x] = t
      <4>. HIDE DEF C
      <4>. QED  BY <2>3
    <3>. HIDE DEF C, t
    <3>. QED  BY <2>1, <3>1 DEF ValidateService
  <2>. QED  BY <2>2, <2>3
<1>2. CASE ~(Inspected(s) /\ s.projects # NotSet)
  BY <1>2 DEF ValidateService
<1>. QED  BY <1>1, <1>2

WithStatus == {"etcd-main", "node"}

(* What the webhook makes of a template it makes of its own result, whatever  *)
(* was stored, as long as it reads the same versions.                       *)
LEMMA MutatedTwice ==
  ASSUME object \in DOMAIN Templates, object \notin WithStatus, NEW t \in Templates[object],
         NEW a, NEW b, NEW seen, NEW seen2, seen.version = seen2.version, seen.seed = seen2.seed
  PROVE  /\ Mutated(t, a, seen) = Mutated(t, b, seen2)
         /\ Mutated(Mutated(t, a, seen), b, seen2) = Mutated(t, a, seen)
<1>. DEFINE v == seen.version
<1>. SUFFICES ASSUME NEW s, NEW c, s.version = v, s.seed = seen.seed
              PROVE  Mutated(t, c, s) = Mutated(t, a, seen)
                     /\ Mutated(Mutated(t, a, seen), c, s) = Mutated(t, a, seen)
  OBVIOUS
<1>1. CASE object = "machine-controller-manager"
  <2>1. \A w, o : Mutated(w, o, s) = EnsureMCM(w, v) /\ Mutated(w, o, seen) = EnsureMCM(w, v)
    BY <1>1 DEF Mutated
  <2>. QED  BY <2>1, MCMTwice
<1>2. CASE object = "machine-controller-manager-vpa"
  <2>1. \A w, o : Mutated(w, o, s) = EnsureVPA(w) /\ Mutated(w, o, seen) = EnsureVPA(w)
    BY <1>2 DEF Mutated
  <2>2. EnsureVPA(t).policies # NotSet
    BY <1>2, WrittenAssumption
  <2>. QED  BY <2>1, <2>2, VPATwice
<1>3. CASE object = "kube-apiserver"
  <2>1. \A w, o : Mutated(w, o, s) = EnsureKubeAPIServer(w, v) /\ Mutated(w, o, seen) = EnsureKubeAPIServer(w, v)
    BY <1>3 DEF Mutated
  <2>. QED  BY <2>1, APIServerTwice
<1>4. CASE object = "kube-controller-manager"
  <2>1. \A w, o : /\ Mutated(w, o, s) = EnsureKubeControllerManager(w)
                  /\ Mutated(w, o, seen) = EnsureKubeControllerManager(w)
    BY <1>4 DEF Mutated
  <2>. QED  BY <2>1, KCMTwice
<1>5. CASE object = "vpn-seed-server"
  <2>1. \A w, o : Mutated(w, o, s) = EnsureVPNSeedServer(w) /\ Mutated(w, o, seen) = EnsureVPNSeedServer(w)
    BY <1>5 DEF Mutated
  <2>2. EnsureVPNSeedServer(EnsureVPNSeedServer(t)) = EnsureVPNSeedServer(t)
    BY SPCTwice DEF EnsureVPNSeedServer
  <2>. QED  BY <2>1, <2>2
<1>6. CASE object = "fluent-bit"
  <2>1. \A w, o : Mutated(w, o, s) = EnsureFluentBit(w) /\ Mutated(w, o, seen) = EnsureFluentBit(w)
    BY <1>6 DEF Mutated
  <2>2. EnsureFluentBit(EnsureFluentBit(t)) = EnsureFluentBit(t)
    BY SPCTwice DEF EnsureFluentBit
  <2>. QED  BY <2>1, <2>2
<1>7. CASE object = "kubelet.service"
  <2>1. \A w, o : Mutated(w, o, s) = EnsureKubeletUnit(w) /\ Mutated(w, o, seen) = EnsureKubeletUnit(w)
    BY <1>7 DEF Mutated
  <2>. QED  BY <2>1, KubeletTwice
<1>8. CASE object = "kubelet"
  <2>1. \A w, o : /\ Mutated(w, o, s) = EnsureKubeletConfiguration(w)
                  /\ Mutated(w, o, seen) = EnsureKubeletConfiguration(w)
    BY <1>8 DEF Mutated
  <2>. QED  BY <2>1, KubeletTwice
<1>9. CASE object = "service"
  <2>1. \A w, o : Mutated(w, o, s) = ValidateService(w) /\ Mutated(w, o, seen) = ValidateService(w)
    BY <1>9 DEF Mutated
  <2>2. t.projects # NotSet => t.projects \in Seq([name : STRING, padded : BOOLEAN])
    BY <1>9, WrittenAssumption
  <2>. QED  BY <2>1, <2>2, ServiceTwice
<1>10. CASE object = "crd"
  <2>1. \A w, o : Mutated(w, o, s) = MutateCRD(w, seen.seed) /\ Mutated(w, o, seen) = MutateCRD(w, seen.seed)
    BY <1>10 DEF Mutated
  <2>. QED  BY <2>1, CRDTwice
<1>11. object \in {"machine-controller-manager", "machine-controller-manager-vpa", "kube-apiserver",
                   "kube-controller-manager", "vpn-seed-server", "fluent-bit", "kubelet.service", "kubelet",
                   "service", "crd"}
  BY WrittenAssumption DEF WithStatus
<1>. QED  BY <1>1, <1>2, <1>3, <1>4, <1>5, <1>6, <1>7, <1>8, <1>9, <1>10, <1>11

(* A dropped write of the route controller leaves a Node that drops it again.  *)
LEMMA NodeTwice ==
  ASSUME NotSet \notin Nodes, NEW t \in Nodes, NEW old \in Nodes
  PROVE  LET n == MutateNode(t, old) IN
         n \in Nodes /\ MutateNode(t, n) = n /\ MutateNode(n, n) = n
<1>. DEFINE c == IF old.condition = "false" THEN "false" ELSE "none"
            n == MutateNode(t, old)
<1>1. CASE ~t.deleting /\ t.condition = "noRouteCreated"
  <2>1. n = [t EXCEPT !.condition = c]
    BY <1>1 DEF MutateNode
  <2>2. n \in Nodes /\ n.condition = c /\ c \in {"false", "none"}
    BY <2>1 DEF Nodes
  <2>3. n # NotSet
    BY <2>2
  <2>. HIDE DEF n
  <2>4. MutateNode(t, n) = [t EXCEPT !.condition = IF n.condition = "false" THEN "false" ELSE "none"]
    BY <1>1, <2>3 DEF MutateNode
  <2>5. MutateNode(n, n) = n
    BY <2>2 DEF MutateNode
  <2>6. (IF n.condition = "false" THEN "false" ELSE "none") = c
    BY <2>2
  <2>. QED  BY <2>1, <2>2, <2>4, <2>5, <2>6 DEF n
<1>2. CASE ~(~t.deleting /\ t.condition = "noRouteCreated")
  BY <1>2 DEF MutateNode
<1>. QED  BY <1>1, <1>2

(* An etcd that is there keeps its storage.                                  *)
LEMMA StorageKept ==
  ASSUME NotSet \notin EtcdStorage, NEW t \in EtcdStorage, NEW old \in EtcdStorage \cup {NotSet},
         NEW d, d # NotSet => d \in EtcdStorage
  PROVE  /\ EnsureETCDStorage(t, old, d) \in EtcdStorage
         /\ old # NotSet /\ LeavesStorageOut(t) => EnsureETCDStorage(t, old, d) = old
<1>1. PICK C, D : EtcdStorage = [class : C, capacity : D]
  BY DEF EtcdStorage
<1>2. CASE old # NotSet
  BY <1>1, <1>2 DEF EnsureETCDStorage, Given, LeavesStorageOut
<1>3. CASE old = NotSet /\ d = NotSet
  BY <1>3 DEF EnsureETCDStorage
<1>4. CASE old = NotSet /\ d # NotSet
  BY <1>1, <1>4 DEF EnsureETCDStorage, Given
<1>. QED  BY <1>2, <1>3, <1>4

(* What the webhook had read at the last template it has not overtaken since.  *)
ViewInv ==
  /\ seedVersion \in Minors /\ operator.seed \in Minors /\ operator.seed <= seedVersion
  /\ operator.etcd \in EtcdConfigs
  /\ wanted # NotSet =>
       /\ wanted \in Templates[object]
       /\ view.version \in Minors /\ view.version <= versionSeen
       /\ view.seed \in Minors /\ view.seed <= operator.seed

(* What is stored is what that template and those versions make, again and    *)
(* again; an etcd's storage and a Node's condition also depend on what was. *)
AppliedInv ==
  /\ object = "node" => stored \in Nodes /\ (wanted # NotSet => MutateNode(wanted, stored) = stored)
  /\ object = "etcd-main" => stored \in EtcdStorage \cup {NotSet} /\ (wanted # NotSet => stored # NotSet)
  /\ wanted # NotSet /\ object \notin WithStatus /\ view.version = versionSeen /\ view.seed = operator.seed
       => stored = Mutated(wanted, NotSet, view)

(* No step but a write changes what is stored, and none makes the webhook read *)
(* again the versions of the last template once it has read others.         *)
LEMMA ViewStep ==
  ASSUME WHIInv, ViewInv, [WNext]_wvars
  PROVE  /\ ViewInv'
         /\ \/ \E t \in Templates[object] : WriteTemplate(t)
            \/ WriteBack /\ UNCHANGED <<object, wanted, view, versionSeen, operator>>
            \/ /\ UNCHANGED <<object, wanted, view, stored>>
               /\ wanted # NotSet /\ view'.version = versionSeen' /\ view'.seed = operator'.seed =>
                    view.version = versionSeen /\ view.seed = operator.seed
<1>1. /\ version \in Minors /\ versionSeen \in Minors /\ versionSeen <= version
      /\ versionSeen' \in Minors /\ versionSeen <= versionSeen' /\ object' = object
  BY VersionStep DEF WHIInv, VersionInv
<1>2. version \in Nat /\ versionSeen \in Nat /\ versionSeen' \in Nat /\ seedVersion \in Nat /\ operator.seed \in Nat
  BY <1>1, MinorsAssumption DEF ViewInv
<1>3. wanted # NotSet => view.version \in Nat /\ view.seed \in Nat
  BY MinorsAssumption DEF ViewInv
<1>4. ASSUME NEW t \in Templates[object], WriteTemplate(t) PROVE ViewInv'
  <2>1. /\ view'.version = versionSeen /\ view'.seed = operator.seed /\ wanted' = t
        /\ UNCHANGED <<object, versionSeen, seedVersion, operator>>
    BY <1>4 DEF WriteTemplate, CurrentView
  <2>. QED  BY <1>1, <1>2, <2>1 DEF ViewInv
<1>5. ASSUME UNCHANGED <<versionSeen, seedVersion, operator, object, wanted, view>> PROVE ViewInv'
  BY <1>5 DEF ViewInv
<1>6. ASSUME UpgradeShoot \/ UNCHANGED wvars
      PROVE  UNCHANGED <<versionSeen, seedVersion, operator, object, wanted, view, stored>>
  BY <1>6 DEF UpgradeShoot, wvars
<1>7. ASSUME SeeCluster
      PROVE  /\ ViewInv' /\ UNCHANGED <<object, wanted, view, stored>>
             /\ wanted # NotSet => view'.version # versionSeen'
  <2>1. versionSeen # versionSeen' /\ UNCHANGED <<seedVersion, operator, object, wanted, view, stored>>
    BY <1>7 DEF SeeCluster
  <2>2. wanted # NotSet => view.version <= versionSeen /\ view.version # versionSeen'
    BY <1>1, <1>2, <1>3, <2>1 DEF ViewInv
  <2>3. wanted # NotSet => view.version <= versionSeen'
    BY <1>1, <1>2, <1>3, <2>2
  <2>. QED  BY <2>1, <2>2, <2>3 DEF ViewInv
<1>8. ASSUME UpgradeSeed
      PROVE  ViewInv' /\ UNCHANGED <<object, wanted, view, stored, versionSeen, operator>>
  <2>1. /\ seedVersion' \in Minors /\ seedVersion' > seedVersion
        /\ UNCHANGED <<versionSeen, operator, object, wanted, view, stored>>
    BY <1>8 DEF UpgradeSeed
  <2>2. operator.seed <= seedVersion'
    <3>1. seedVersion' \in Nat
      BY <2>1, MinorsAssumption
    <3>. QED  BY <1>2, <2>1, <3>1 DEF ViewInv
  <2>. QED  BY <2>1, <2>2 DEF ViewInv
<1>9. ASSUME RestartOperator
      PROVE  /\ ViewInv' /\ UNCHANGED <<object, wanted, view, stored>>
             /\ wanted # NotSet /\ view'.version = versionSeen' /\ view'.seed = operator'.seed =>
                  view.version = versionSeen /\ view.seed = operator.seed
  <2>1. /\ operator'.seed = seedVersion /\ operator'.etcd \in EtcdConfigs /\ versionSeen' = version
        /\ UNCHANGED <<seedVersion, object, wanted, view, stored>>
    BY <1>9 DEF RestartOperator
  <2>2. seedVersion <= seedVersion
    BY <1>2
  <2>3. wanted # NotSet => /\ view.version <= versionSeen' /\ view.seed <= seedVersion
                           /\ view.version = version => view.version = versionSeen
                           /\ view.seed = seedVersion => view.seed = operator.seed
    BY <1>1, <1>2, <1>3, <2>1 DEF ViewInv
  <2>. QED  BY <2>1, <2>2, <2>3, <1>1 DEF ViewInv
<1>10. WriteBack => UNCHANGED <<versionSeen, seedVersion, operator, object, wanted, view>>
  BY DEF WriteBack
<1>. QED  BY <1>4, <1>5, <1>6, <1>7, <1>8, <1>9, <1>10 DEF WNext

(* Every step keeps what is stored the result of the last template.           *)
LEMMA AppliedStep ==
  ASSUME WHIInv, ViewInv, AppliedInv, [WNext]_wvars
  PROVE  AppliedInv'
<1>0. object \in DOMAIN Templates /\ object' = object
  BY VersionStep DEF WHIInv, VersionInv
<1>1. Mutated(wanted, NotSet, view)' = Mutated(wanted', NotSet, view')
  BY <1>0 DEF Mutated
<1>2. /\ object = "node" => \A w, o, s : Mutated(w, o, s) = MutateNode(w, o)
      /\ object = "etcd-main" => \A w, o, s : Mutated(w, o, s) = EnsureETCDStorage(w, o, s.etcd)
  BY DEF Mutated
<1>3. /\ object = "node" => Templates[object] \subseteq Nodes /\ NotSet \notin Nodes
      /\ object = "etcd-main" =>
           /\ Templates[object] \subseteq EtcdStorage /\ NotSet \notin EtcdStorage
           /\ operator.etcd # NotSet => operator.etcd \in EtcdStorage
  BY <1>0, WrittenAssumption DEF ViewInv
<1>4. CurrentView.version = versionSeen /\ CurrentView.seed = operator.seed /\ CurrentView.etcd = operator.etcd
  BY DEF CurrentView
<1>5. ASSUME NEW t \in Templates[object], WriteTemplate(t) PROVE AppliedInv'
  <2>1. /\ wanted' = t /\ view' = CurrentView /\ stored' = Mutated(t, stored, CurrentView)
        /\ UNCHANGED <<object, versionSeen, operator>>
    BY <1>5 DEF WriteTemplate
  <2>2. CASE object = "node"
    <3>1. stored' \in Nodes /\ MutateNode(t, stored') = stored'
      BY <1>2, <1>3, <2>1, <2>2, NodeTwice DEF AppliedInv
    <3>2. MutateNode(wanted, stored)' = MutateNode(t, stored')
      BY <2>1 DEF MutateNode
    <3>. QED  BY <1>0, <2>2, <3>1, <3>2 DEF AppliedInv, WithStatus
  <2>3. CASE object = "etcd-main"
    <3>1. stored' \in EtcdStorage
      BY <1>2, <1>3, <1>4, <2>1, <2>3, StorageKept DEF AppliedInv
    <3>2. stored' # NotSet
      BY <1>3, <2>3, <3>1
    <3>. QED  BY <1>0, <2>3, <3>1, <3>2 DEF AppliedInv, WithStatus, EtcdStorage
  <2>4. CASE object \notin WithStatus
    <3>1. stored' = Mutated(wanted', NotSet, view')
      BY <1>0, <2>1, <2>4, MutatedTwice
    <3>. QED  BY <1>0, <1>1, <2>4, <3>1 DEF AppliedInv, WithStatus
  <2>. QED  BY <2>2, <2>3, <2>4 DEF WithStatus
<1>6. ASSUME WriteBack, UNCHANGED <<object, wanted, view, versionSeen, operator>> PROVE AppliedInv'
  <2>1. stored' = Mutated(stored, stored, CurrentView) /\ stored # NotSet
    BY <1>6 DEF WriteBack
  <2>2. CASE object = "node"
    <3>1. stored \in Nodes /\ stored' = MutateNode(stored, stored)
      BY <1>2, <2>1, <2>2 DEF AppliedInv
    <3>2. stored' \in Nodes
      BY <1>3, <2>2, <3>1, NodeTwice
    <3>3. ASSUME wanted # NotSet PROVE MutateNode(wanted, stored') = stored'
      <4>1. wanted \in Nodes /\ MutateNode(wanted, stored) = stored
        BY <1>3, <2>2, <3>3 DEF AppliedInv, ViewInv
      <4>2. MutateNode(stored, stored) = stored
        BY <1>3, <2>2, <3>1, <4>1, NodeTwice
      <4>. QED  BY <3>1, <4>1, <4>2
    <3>4. MutateNode(wanted, stored)' = MutateNode(wanted, stored')
      BY <1>6 DEF MutateNode
    <3>. QED  BY <1>0, <1>6, <2>2, <3>2, <3>3, <3>4 DEF AppliedInv, WithStatus
  <2>3. CASE object = "etcd-main"
    <3>1. stored' \in EtcdStorage
      BY <1>2, <1>3, <1>4, <2>1, <2>3, StorageKept DEF AppliedInv
    <3>2. stored' # NotSet
      BY <1>3, <2>3, <3>1
    <3>. QED  BY <1>0, <2>3, <3>1, <3>2 DEF AppliedInv, WithStatus, EtcdStorage
  <2>4. CASE object \notin WithStatus
    <3>1. ASSUME wanted # NotSet, view.version = versionSeen, view.seed = operator.seed
          PROVE  stored' = Mutated(wanted, NotSet, view)
      <4>1. stored = Mutated(wanted, NotSet, view) /\ wanted \in Templates[object]
        BY <2>4, <3>1 DEF AppliedInv, ViewInv
      <4>. QED  BY <1>0, <1>4, <2>1, <2>4, <3>1, <4>1, MutatedTwice
    <3>. QED  BY <1>0, <1>1, <1>6, <2>4, <3>1 DEF AppliedInv, WithStatus
  <2>. QED  BY <2>2, <2>3, <2>4 DEF WithStatus
<1>7. ASSUME UNCHANGED <<object, wanted, view, stored>>,
             wanted # NotSet /\ view'.version = versionSeen' /\ view'.seed = operator'.seed =>
               view.version = versionSeen /\ view.seed = operator.seed
      PROVE  AppliedInv'
  <2>1. Mutated(wanted, NotSet, view)' = Mutated(wanted, NotSet, view)
    BY <1>1, <1>7
  <2>2. MutateNode(wanted, stored)' = MutateNode(wanted, stored)
    BY <1>7 DEF MutateNode
  <2>. QED  BY <1>7, <2>1, <2>2 DEF AppliedInv, WithStatus, EtcdStorage
<1>. QED  BY <1>5, <1>6, <1>7, ViewStep

(* For any templates, defaults, versions and order of writes, upgrades and     *)
(* restarts: a reconcile that writes its template again changes nothing.     *)
THEOREM ReapplyHolds == WSpec => []ReapplyChangesNothing
<1>1. WInit => WHIInv /\ ViewInv /\ AppliedInv
  <2>1. SUFFICES ASSUME WInit PROVE WHIInv /\ ViewInv /\ AppliedInv
    OBVIOUS
  <2>2. /\ version \in Minors /\ version \in Nat /\ versionSeen = version /\ object \in DOMAIN Templates
        /\ seedVersion \in Minors /\ seedVersion \in Nat /\ operator.seed = seedVersion
        /\ operator.etcd \in EtcdConfigs /\ wanted = NotSet
    BY <2>1, MinorsAssumption DEF WInit
  <2>3. IF object = "node" THEN stored \in Nodes ELSE stored = NotSet
    BY <2>1 DEF WInit, Nodes
  <2>4. WHIInv
    BY <2>2, <2>3 DEF WHIInv, VersionInv, StoredInv, PluginMatchesVersion
  <2>5. ViewInv /\ AppliedInv
    BY <2>2, <2>3 DEF ViewInv, AppliedInv
  <2>. QED  BY <2>4, <2>5
<1>2. WHIInv /\ ViewInv /\ AppliedInv /\ [WNext]_wvars => (WHIInv /\ ViewInv /\ AppliedInv)'
  BY VersionStep, StoredStep, ViewStep, AppliedStep DEF WHIInv
<1>3. WHIInv /\ ViewInv /\ AppliedInv => ReapplyChangesNothing
  <2>1. SUFFICES ASSUME WHIInv, ViewInv, AppliedInv, wanted # NotSet,
                        object = "etcd-main" => LeavesStorageOut(wanted),
                        view.version = versionSeen, view.seed = operator.seed
                 PROVE  Mutated(wanted, stored, CurrentView) = stored
    BY DEF ReapplyChangesNothing
  <2>2. /\ object \in DOMAIN Templates /\ wanted \in Templates[object]
        /\ CurrentView.version = versionSeen /\ CurrentView.seed = operator.seed
        /\ CurrentView.etcd = operator.etcd
    BY <2>1 DEF WHIInv, VersionInv, ViewInv, CurrentView
  <2>3. CASE object = "node"
    BY <2>1, <2>3 DEF AppliedInv, Mutated
  <2>4. CASE object = "etcd-main"
    <3>1. Mutated(wanted, stored, CurrentView) = EnsureETCDStorage(wanted, stored, operator.etcd)
      BY <2>2, <2>4 DEF Mutated
    <3>2. /\ NotSet \notin EtcdStorage /\ wanted \in EtcdStorage
          /\ operator.etcd # NotSet => operator.etcd \in EtcdStorage
          /\ stored \in EtcdStorage /\ stored # NotSet
      BY <2>1, <2>2, <2>4, WrittenAssumption DEF ViewInv, AppliedInv
    <3>. QED  BY <2>1, <2>4, <3>1, <3>2, StorageKept
  <2>5. CASE object \notin WithStatus
    <3>1. stored = Mutated(wanted, NotSet, view)
      BY <2>1, <2>5 DEF AppliedInv
    <3>. QED  BY <2>1, <2>2, <2>5, <3>1, MutatedTwice
  <2>. QED  BY <2>3, <2>4, <2>5 DEF WithStatus
<1>. QED  BY <1>1, <1>2, <1>3, PTL DEF WSpec

(* A Node's condition is of its four values, and the CNI's as the property    *)
(* says; the first write counts.                                             *)
NodeInv == writes \in Nat /\ object \in DOMAIN Templates /\ (object = "node" => stored \in Nodes)

LEMMA NodeStep ==
  ASSUME NodeInv, NodeFollowsCNI, [WNext]_wvars
  PROVE  (NodeInv /\ NodeFollowsCNI)'
<1>1. object' = object
  BY DEF WNext, WriteTemplate, WriteBack, UpgradeShoot, SeeCluster, UpgradeSeed, RestartOperator, wvars
<1>2. CASE object # "node"
  BY <1>1, <1>2 DEF NodeInv, NodeFollowsCNI, WNext, WriteTemplate, WriteBack, UpgradeShoot, SeeCluster,
                    UpgradeSeed, RestartOperator, wvars
<1>3. CASE object = "node"
  <2>1. stored \in Nodes /\ stored # NotSet /\ Templates[object] \subseteq Nodes /\ writes \in Nat
    BY <1>3, WrittenAssumption DEF NodeInv
  <2>2. \A w, o, s : Mutated(w, o, s) = MutateNode(w, o)
    BY <1>3 DEF Mutated
  <2>3. ASSUME NEW t \in Templates[object], WriteTemplate(t) PROVE (NodeInv /\ NodeFollowsCNI)'
    <3>1. /\ t \in Nodes /\ stored' = MutateNode(t, stored) /\ writes' = writes + 1
          /\ stored.deleting => t.deleting
          /\ said' = IF t.condition # "noRouteCreated" THEN t.condition ELSE said
      BY <1>3, <2>1, <2>2, <2>3 DEF WriteTemplate, Undeletes
    <3>2. NodeInv'
      BY <1>1, <1>3, <2>1, <3>1 DEF NodeInv, MutateNode, Nodes
    <3>3. ASSUME ~stored'.deleting
          PROVE  /\ stored'.condition = "false" <=> said' = "false"
                 /\ stored'.condition = "down" => said' = "down"
                 /\ stored'.condition # "noRouteCreated"
      <4>1. ~t.deleting /\ ~stored.deleting
        BY <2>1, <3>1, <3>3 DEF MutateNode, Nodes
      <4>2. stored.condition = "false" <=> said = "false"
        BY <1>3, <4>1 DEF NodeFollowsCNI
      <4>. QED  BY <2>1, <3>1, <4>1, <4>2 DEF MutateNode, Nodes
    <3>. QED  BY <3>2, <3>3 DEF NodeFollowsCNI
  <2>4. ASSUME WriteBack PROVE (NodeInv /\ NodeFollowsCNI)'
    <3>1. stored' = MutateNode(stored, stored) /\ writes' = writes + 1 /\ said' = said
      BY <2>2, <2>4 DEF WriteBack
    <3>2. /\ stored' \in Nodes /\ stored'.deleting = stored.deleting
          /\ stored'.condition = "false" <=> stored.condition = "false"
          /\ stored'.condition = "down" => stored.condition = "down"
          /\ ~stored.deleting => stored'.condition # "noRouteCreated"
      BY <2>1, <3>1 DEF MutateNode, Nodes
    <3>. QED  BY <1>1, <1>3, <2>1, <3>1, <3>2 DEF NodeInv, NodeFollowsCNI
  <2>5. ASSUME UNCHANGED <<stored, said, writes>> PROVE (NodeInv /\ NodeFollowsCNI)'
    BY <1>1, <2>1, <2>5 DEF NodeInv, NodeFollowsCNI
  <2>. QED
    BY <2>3, <2>4, <2>5 DEF WNext, UpgradeShoot, SeeCluster, UpgradeSeed, RestartOperator, wvars
<1>. QED  BY <1>2, <1>3

(* For any Node states the CNI, the route controller and others write, in any  *)
(* order: the CNI alone makes a node reachable or takes that back.           *)
THEOREM NodeConditionHolds == WSpec => []NodeFollowsCNI
<1>1. WInit => NodeInv /\ NodeFollowsCNI
  <2>. SUFFICES ASSUME WInit PROVE NodeInv /\ NodeFollowsCNI
    OBVIOUS
  <2>1. object \in DOMAIN Templates /\ said = "none" /\ writes = 0
    BY DEF WInit
  <2>2. object = "node" => stored \in [deleting : {FALSE}, condition : {"none", "noRouteCreated"}]
    BY DEF WInit
  <2>. QED  BY <2>1, <2>2 DEF NodeInv, NodeFollowsCNI, Nodes
<1>2. NodeInv /\ NodeFollowsCNI /\ [WNext]_wvars => (NodeInv /\ NodeFollowsCNI)'
  BY NodeStep
<1>. QED  BY <1>1, <1>2, PTL DEF WSpec
=============================================================================
