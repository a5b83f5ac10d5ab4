---------------------------- MODULE ControlPlane ----------------------------
(***************************************************************************)
(* What the values provider makes Gardener's generic control plane actuator *)
(* deploy: the configuration of the cloud-controller-manager (CCM), the     *)
(* kubeconfigs of the CSI driver and the defaults of the storage classes.   *)
(* A reconcile fixes the Cluster and the ControlPlane it was given but reads *)
(* the secret with the service account whenever it needs it, and the        *)
(* ConfigMap it has just applied from the manager's cache.  Pods load what  *)
(* is deployed when they start, and start anew when their template changes. *)
(***************************************************************************)
EXTENDS Naturals, FiniteSets

CONSTANTS
  Accounts,        \* service account JSONs: project, key, CA path of the file
  Offers,          \* CloudProfileConfigs: CA data, endpoints by zone
  ActiveZoneSets,  \* zones an InfrastructureStatus may list
  StorageConfigs,  \* ControlPlaneConfigs' Storage: the two switches
  MaxInputs,       \* bound: changes of the inputs
  MaxBreaks,       \* bound: failed calls, restarts of operator and pods
  Unset            \* an unset field, an object not there

VARIABLES
  account,   \* the shoot's cloudprovider secret
  offered,   \* the CloudProfileConfig
  active,    \* zones of the ControlPlane's infrastructureProviderStatus
  storage,   \* Storage of its providerConfig
  due,       \* the operation annotation asks for a reconcile
  result,    \* of the last reconcile
  cjob,      \* the reconcile under way, with what it has read
  conf,      \* ConfigMap cloud-provider-config
  confSeen,  \* as the manager's cache shows it
  ccm,       \* what CCM's pod template was made from, and its annotations
  ccmPod,    \* the annotations CCM's pod was started with, and what it loaded
  csi,       \* secret infra-cluster-kubeconfig, whose checksum and zones are
             \* in the CSI controller's template
  csiPod,    \* what the CSI controller's pod was started with
  defaults,   \* which of the two defaults the shoot was given
  lagged,    \* the last checksum was not that of the applied ConfigMap
  inputs, breaks
given == <<account, offered, active, storage>>
deployed == <<conf, ccm, csi, defaults, lagged>>
pods == <<ccmPod, csiPod>>
cpvars == <<given, due, result, cjob, confSeen, deployed, pods, inputs, breaks>>

---------------------------------------------------------------------------
(* The values. *)

(* getServiceAccountFromJSON refuses a service account without project and   *)
(* knows no CA path, so none is ever written again.                         *)
AccountOK(a) == a.project # Unset
MarshalAccount_Raw(a) == a
MarshalAccount(a) == [a EXCEPT !.caCertPath = Unset]

(* filtereCloudProfileZones: a zone the profile does not offer is dropped.   *)
FilterZones(offer, zones) == [z \in zones \cap DOMAIN offer.zones |-> offer.zones[z]]
ConfigValues(a, offer, zones) ==
  [project |-> a.project, caData |-> offer.caData, zones |-> FilterZones(offer, zones)]

(* kubeconfig.Raw: the server, and the plugin's arguments.                   *)
Raw(url, a, offer) ==
  [server |-> url,
   exec |-> [audience |-> url, keyString |-> MarshalAccount(a), caCert |-> offer.caData]]
InfraClusterKubeconfigs(a, offer) == [z \in DOMAIN offer.zones |-> Raw(offer.zones[z], a, offer)]

(* The chart's secret: the kubeconfigs of the active zones, which must all be *)
(* there; without active zones that of any zone, as map keys come.          *)
RenderCSI(kubeconfigs, zones) ==
  IF zones = {} THEN {[key \in {"kubeconfig"} |-> kubeconfigs[z]] : z \in DOMAIN kubeconfigs}
  ELSE IF zones \subseteq DOMAIN kubeconfigs THEN {[z \in zones |-> kubeconfigs[z]]} ELSE {}

(* GetControlPlaneChartValues' podAnnotations for CCM.                       *)
PodAnnotations_SecretOnly(sums) == [secret |-> sums.secret]
PodAnnotations(sums) == [secret |-> sums.secret, configmap |-> sums.configmap]

(* GetStorageClassesChartValues: both defaults are managed unless switched off. *)
Deref(switch) == IF switch = Unset THEN TRUE ELSE switch
StorageClassesValues(s) ==
  IF s = Unset THEN [class |-> TRUE, snapshotClass |-> TRUE]
  ELSE [class |-> Deref(s.class), snapshotClass |-> Deref(s.snapshotClass)]

(* gdch-sa-auth-plugin, called by the CSI driver: what it will not run with, *)
(* and the exchange it runs otherwise.                                      *)
PluginFails(x) == \/ x.audience = Unset \/ x.keyString = Unset
                  \/ x.caCert # Unset /\ x.keyString.caCertPath # Unset
PluginTrusts(x) == IF x.keyString.caCertPath # Unset THEN x.keyString.caCertPath ELSE x.caCert

(* A service account is a record of its fields, and what is marshalled of it *)
(* is never empty; validateZoneEndpoints requires an infrastructureAPI of     *)
(* every zone of a CloudProfile.                                             *)
ASSUME AccountsAssumption ==
  \A a \in Accounts : DOMAIN a = {"project", "key", "caCertPath"} /\ MarshalAccount(a) # Unset
ASSUME OffersAssumption == \A o \in Offers : \A z \in DOMAIN o.zones : o.zones[z] # Unset

---------------------------------------------------------------------------
NoJob == [pc |-> "idle", offer |-> Unset, zones |-> {}, storage |-> Unset,
          sums |-> Unset, kubeconfigs |-> Unset]

CPInit ==
  /\ account \in {a \in Accounts : AccountOK(a)} /\ offered \in Offers
  /\ active \in ActiveZoneSets /\ active \subseteq DOMAIN offered.zones
  /\ storage \in StorageConfigs
  /\ due = TRUE /\ result = "none" /\ cjob = NoJob
  /\ conf = Unset /\ confSeen = Unset /\ ccm = Unset /\ csi = Unset /\ defaults = Unset
  /\ ccmPod = [notes |-> Unset, loaded |-> Unset, ahead |-> FALSE] /\ csiPod = Unset
  /\ lagged = FALSE /\ inputs = 0 /\ breaks = 0

(* Gardener writes what has changed before it asks for a reconcile.          *)
ChangeInputs ==
  /\ inputs < MaxInputs /\ inputs' = inputs + 1 /\ due' = TRUE
  /\ \/ account' \in Accounts \ {account} /\ UNCHANGED <<offered, active, storage>>
     \/ offered' \in Offers \ {offered} /\ UNCHANGED <<account, active, storage>>
     \/ active' \in ActiveZoneSets \ {active} /\ UNCHANGED <<account, offered, storage>>
     \/ storage' \in StorageConfigs \ {storage} /\ UNCHANGED <<account, offered, active>>
  /\ UNCHANGED <<result, cjob, confSeen, deployed, pods, breaks>>

SeeConfigMap ==
  /\ confSeen # conf /\ confSeen' = conf
  /\ UNCHANGED <<given, due, result, cjob, deployed, pods, inputs, breaks>>

---------------------------------------------------------------------------
(* Reconcile: a handler that fails is asked again.                           *)
Fail == cjob' = NoJob /\ due' = TRUE /\ result' = "failed"
Goto(pc) == cjob' = [cjob EXCEPT !.pc = pc] /\ UNCHANGED <<due, result>>

StartReconcile ==
  /\ due /\ cjob = NoJob
  /\ due' = FALSE
  /\ cjob' = [NoJob EXCEPT !.pc = "config", !.offer = offered, !.zones = active,
                           !.storage = storage]
  /\ UNCHANGED <<given, result, confSeen, deployed, pods, inputs, breaks>>

DeployConfigChart ==
  /\ cjob.pc = "config"
  /\ IF AccountOK(account)
     THEN conf' = ConfigValues(account, cjob.offer, cjob.zones) /\ Goto("checksums")
     ELSE Fail /\ UNCHANGED conf
  /\ UNCHANGED <<given, confSeen, ccm, csi, defaults, lagged, pods, inputs, breaks>>

(* Only Secrets are kept out of the manager's cache.                         *)
SecretRead == account
ConfigMapRead == confSeen
ComputeChecksums ==
  /\ cjob.pc = "checksums"
  /\ IF ConfigMapRead = Unset
     THEN Fail /\ UNCHANGED lagged
     ELSE /\ cjob' = [cjob EXCEPT !.pc = "values",
                        !.sums = [secret |-> SecretRead, configmap |-> ConfigMapRead]]
          /\ lagged' = (confSeen # conf)
          /\ UNCHANGED <<due, result>>
  /\ UNCHANGED <<given, confSeen, conf, ccm, csi, defaults, pods, inputs, breaks>>

(* GetControlPlaneChartValues reads the secret again; the charts are rendered *)
(* as a whole before any object is applied.                                 *)
GetControlPlaneChartValues ==
  /\ cjob.pc = "values"
  /\ LET kubeconfigs == InfraClusterKubeconfigs(account, cjob.offer) IN
     IF AccountOK(account) /\ RenderCSI(kubeconfigs, cjob.zones) # {}
     THEN /\ cjob' = [cjob EXCEPT !.pc = "ccm", !.kubeconfigs = kubeconfigs]
          /\ UNCHANGED <<due, result>>
     ELSE Fail
  /\ UNCHANGED <<given, confSeen, deployed, pods, inputs, breaks>>

ApplyCCM ==
  /\ cjob.pc = "ccm" /\ ccm' = [sums |-> cjob.sums, notes |-> PodAnnotations(cjob.sums)] /\ Goto("csi")
  /\ UNCHANGED <<given, confSeen, conf, csi, defaults, lagged, pods, inputs, breaks>>

ApplyCSI ==
  /\ cjob.pc = "csi" /\ csi' \in RenderCSI(cjob.kubeconfigs, cjob.zones) /\ Goto("shoot")
  /\ UNCHANGED <<given, confSeen, conf, ccm, defaults, lagged, pods, inputs, breaks>>

(* GetControlPlaneShootChartValues and GetStorageClassesChartValues.         *)
DeployShootCharts ==
  /\ cjob.pc = "shoot" /\ defaults' = StorageClassesValues(cjob.storage)
  /\ cjob' = NoJob /\ result' = "succeeded"
  /\ UNCHANGED <<given, due, confSeen, conf, ccm, csi, lagged, pods, inputs, breaks>>

---------------------------------------------------------------------------
(* The pods.  CCM mounts the secret and the ConfigMap; it is ahead if it      *)
(* starts with others than its template was made from.                      *)
Mounted == [secret |-> account, configmap |-> conf]
RunCCM == ccmPod' = [notes |-> ccm.notes, loaded |-> Mounted, ahead |-> Mounted # ccm.sums]
RolloutCCM == /\ ccm # Unset /\ ccmPod.notes # ccm.notes /\ RunCCM
              /\ UNCHANGED <<given, due, result, cjob, confSeen, deployed, csiPod, inputs, breaks>>
RolloutCSI == /\ csi # csiPod /\ csiPod' = csi
              /\ UNCHANGED <<given, due, result, cjob, confSeen, deployed, ccmPod, inputs, breaks>>
CCMCrashes == /\ ccm # Unset /\ ccmPod.notes = ccm.notes /\ RunCCM
              /\ breaks < MaxBreaks /\ breaks' = breaks + 1
              /\ UNCHANGED <<given, due, result, cjob, confSeen, deployed, csiPod, inputs>>

(* A call fails or the operator restarts.                                    *)
CPInterrupted == /\ cjob # NoJob /\ breaks < MaxBreaks /\ breaks' = breaks + 1 /\ Fail
               /\ UNCHANGED <<given, confSeen, deployed, pods, inputs>>

CPNext == \/ ChangeInputs \/ SeeConfigMap \/ StartReconcile \/ DeployConfigChart
          \/ ComputeChecksums \/ GetControlPlaneChartValues \/ ApplyCCM \/ ApplyCSI
          \/ DeployShootCharts \/ RolloutCCM \/ RolloutCSI \/ CCMCrashes \/ CPInterrupted
CPSpec == CPInit /\ [][CPNext]_cpvars

---------------------------------------------------------------------------
Settled == /\ result = "succeeded" /\ ~due /\ cjob = NoJob
           /\ ccmPod.notes = ccm.notes /\ csiPod = csi

(* Once a reconcile has succeeded, nothing has changed since and the pods are *)
(* rolled out, they work with the latest inputs (the checksums "ensuring the  *)
(* component operates with the latest settings"): CCM with the account, CA   *)
(* and every active zone, unless the cache had not shown the new ConfigMap   *)
(* when its checksum was taken or the pod had started ahead of its template; *)
(* the CSI driver with a kubeconfig per active zone; the shoot with the      *)
(* defaults asked for.                                                      *)
ReconciledIsLoaded == Settled =>
  /\ lagged \/ ccmPod.ahead \/
       /\ ccmPod.loaded = [secret |-> account, configmap |-> ConfigValues(account, offered, active)]
       /\ DOMAIN ccmPod.loaded.configmap.zones = active
  /\ active # {} => csiPod = [z \in active |-> Raw(offered.zones[z], account, offered)]
  /\ defaults = StorageClassesValues(storage)

(* What the values provider writes into a kubeconfig, gdch-sa-auth-plugin can *)
(* use: whatever secrets, profiles and failures went before, it runs, asks   *)
(* for the cluster the kubeconfig leads to and trusts the profile's CA.      *)
CSICanAuthenticate == csiPod # Unset => \A k \in DOMAIN csiPod :
  LET c == csiPod[k] IN
  /\ ~PluginFails(c.exec) /\ c.exec.audience = c.server
  /\ \E o \in Offers : PluginTrusts(c.exec) = o.caData
=============================================================================
