# Verification of the GDC provider extension

TLA+ models of `gardener-extension-provider-gdc`, the extension with which Gardener runs
clusters on Google Distributed Cloud (GDC); TLC configurations that check them on small
instances; and TLAPS proofs of the results that matter most, for any number of shoots, zones
and names. `PROJECT.json` maps every definition to the lines it models and lists runs, mutants,
hazards, findings and theorems.

Paths below are relative to `src/pkg` unless they begin with `gdc/` (`src/gdc`).

## 1. The system

Two processes: the *extension* (a set of controllers and webhooks that runs in every seed) and
the *admission* server (webhooks in the garden cluster). Neither keeps state of its own, apart
from caches. All state is in Kubernetes objects: Gardener's resources in seed and garden, and
GDC's resources behind a global API server and one per zone. A controller is called for a
Gardener resource, makes a sequence of calls to GDC, any of which may fail or find the object
not ready, and publishes a status. On error the resource is queued again and the handler starts
over. A webhook is called with one object, and answers it changed or refuses it.

| Component | Source | State | Operations | What makes it correct |
|---|---|---|---|---|
| infrastructure controller | `controller/infrastructure/actuator.go` | Infrastructure status; root, global, propagated and z- subnets; egress and NAT gateway per zone | Reconcile, Restore, Delete, ForceDelete, Migrate | one owner per root subnet; published subnets stay; it converges; deletion is complete |
| task runner | `taskrunner/taskrunner.go` | a wait group and a buffered channel | AddTask, Run | every result counted once; Run returns |
| shoot admission | `admission/validator/shoot.go`, `apis/gdc/validation/infrastructure.go` | an informer cache of shoots | Validate on create and update | no admitted update changes what the root subnet is compared by; node networks do not overlap |
| cloud profile admission | `admission/validator/*cloudprofile.go`, `admission/mutator`, `apis/gdc/validation/cloudprofile.go` | an informer cache of profiles and shoots | Validate both kinds of profile, merge image mappings into a status | what shoots use is not taken away; the parent's images win |
| seed admission | `admission/validator/backup_bucket.go` | none | Validate a Seed's backup section | kind and retention of the seed's bucket do not drift from its configuration |
| backup bucket and entry controllers | `controller/backupbucket`, `controller/backupentry` | annotation, generated secret and status of a BackupBucket; the GDC bucket and its object versions | Reconcile and Delete of both | what is published is usable; a deletion takes all of its own objects and nobody else's; secrets outlive buckets |
| object storage clients | `gdc/storage`, `gdc/pkg/s3` | none | bucket status check, choice of access keys, paged deletion | no page is skipped, a locked version is an error, keys are the account's own |
| etcd webhook | `webhook/utils/etcd.go` | none | EnsureETCDBackup | an etcd points at its own published bucket |
| bastion controller | `controller/bastion` | zone and ingress in the Bastion's status; five GDC objects | Reconcile, Delete, ForceDelete | everything is in the recorded zone; the project is open only while the machine is there |
| dnsrecord controller | `controller/dnsrecord` | one ResourceRecordSet per name and type | Reconcile, Delete, ForceDelete, Migrate, Restore | the value of the last reconcile is served, in the zone of spec or status or else the most specific one, through migration |
| worker controller | `controller/worker` inside Gardener's generic actuator | machine deployments, machine classes, image list in the Worker's status | GenerateMachineDeployments, DeployMachineClasses, UpdateMachineImagesStatus | no place has two deployments; classes are told apart; images in use are not lost |
| control plane values | `controller/controlplane/valuesprovider.go`, `gdc/pkg/kubeconfig` | none; it fills a ConfigMap, secrets and pod templates | the five Get...ChartValues, called by Gardener's generic actuator | pods run with the latest inputs; the CSI driver can authenticate |
| control plane and shoot webhooks | `webhook/controlplane`, `webhook/shoot`, `webhook/shootservice`, `webhook/daemonset`, `webhook/crd` | settings read at the operator's start, a cached Cluster | one mutation per kind of object | writing again changes nothing; flags fit the version; a node is reachable when the CNI says so |
| authentication | `gdc/pkg/auth`, `gdc/pkg/client`, `gdc-sa-auth-plugin` | a cached token per client | token exchange | no request goes out with a token that is over by more than its exchange took, or is the old one after a failed exchange |

How they interact. Admission guards what the infrastructure controller relies on (a root subnet
whose key never changes) and what the backup bucket controller relies on (a configuration that
stays). The infrastructure status, with its zones and its egress switch, is an input of the
worker controller, through machine class hashes, and of the control plane's values, through the
active zones. The cloud profiles give the worker controller its images and the values provider
its endpoints. The bastion takes its zone from the shoot's configuration. The BackupBucket's annotation is read by
the etcd webhook, and its generated secret by etcd-backup-restore; BackupEntry deletion reads the
GDC bucket the BackupBucket controller made. The DNS record of a shoot is written by the extensions of two
seeds, one after the other, around a control plane migration. The kubeconfigs that the values
provider writes are read by the plugin, in the CSI driver's pod.

What is hard: namesakes from different Gardener projects that share a GDC project; objects that
linger in deletion behind finalizers; failures and restarts between any two calls; two parallel
tasks in one reconcile; specs that change while an older spec is worked on; status and
annotations written in several steps; caches that lag behind a decision taken from them; objects
written by several parties through one webhook; control plane migration. `hazards` in
`PROJECT.json` lists each with its line and the properties about it, or the reason there is none
yet.

## 2. The modules

One step of a model is one call to an API server (or, in `TaskRunner`, one channel or
wait-group operation); a handler's local variables are a program counter and the values it has
read. Definitions keep the names of the code where they can. A definition `F_Bug` in front of `F`
is a mutated form of it, used only to show that a property notices the bug.

**`Infrastructure`** (with `InfrastructureProperties`, instantiated by `MCInfrastructure`) is the
core. `cr[i]` is an Infrastructure resource with phase, spec and provider status. `job[i]` is the
operation in flight: `pc`, `zi` for the subnet task and `epc`, `ezi` for the egress task; `snap` is
the spec read at the start. `root[n]` is the root subnet of shoot name `n`, with owner label,
key (node CIDR and parent), readiness, and whether it is being deleted. `sub` holds all other
GDC objects by kind, name and zone. Actions follow the functions: `GetRoot`, `AdoptRoot`,
`CreateRoot`, `WaitRoot` are `reconcileRootSubnet`; `GetZone` to `WaitZone` are
`reconcileGlobalSubnet`; `WaitPropagated` to `WaitNet` finish `createShootVMSubnets`; `Del*` are
`deleteAllSubnets`, entered from Delete and, when the root key has changed, from Reconcile;
`Finish` joins both tasks and patches the status. `CallFails` ends one task while the other runs
on, as the runner lets it; `Restart` loses every job. `RootReady`, `SubReady`, `*Vanishes`,
`Propagate` and `Withdraw` are GDC. Waiting is one poll here: the code polls until ready or
timeout, and both outcomes are covered, an early failure followed by a retry. The history variable
`trespassers` records who deleted anything under a root subnet that is not theirs.

**`TaskRunner`** has one process per goroutine and the main one.

**`ShootAdmission`** has the API server's store, the webhook's cache of it (behind, by any
number of steps), and the admitted request not stored yet. `RootKey` is what the
infrastructure controller derives from a configuration, so that the properties of one
component are stated in terms of the other. CIDRs are sets of addresses.

**`CloudProfiles`** has a parent profile, one namespaced profile derived from it, and shoots
that use either. `CloudProfileOK`, `CreateOK`, `UpdateKeepsUsed` and `DeletionOK` are the
validators; `Merge` is the mutator, which runs on the status that Gardener has just set from a
parent it may have read some time ago. As in `ShootAdmission` an admitted request is
stored in a step of its own, and `missed` records the shoots its admission could not see.

**`SeedBackup`** follows one seed's backup configuration: through the validator, with and
without the override annotation, to the BackupBucket, to the kind and retention of the GDC bucket,
to the access keys of the generated secret and to the container named in an Etcd. Bucket
names are sequences, so that one may contain another. `creds` says whether the seed's secret is there;
without it Delete leaves bucket and generated secret (`LoseSecret`, `DeleteGdcBucket`).

**`Backup`** composes both backup controllers, the deletion of pages, the etcd webhook, and
etcd-backup-restore as the writer of versions and delete markers, call by call. Entry names are
sequences, so that one may begin another. The zonal and the dual-zone flow make the same calls on different
APIs and are one flow here; `SeedBackup` tells them apart.

**`Bastion`** and **`DNSRecord`** are independent and small. A DNSRecord may name a zone in its spec
(`SpecZones`) or carry one in its status (`StatusZones`, which only Gardener or an earlier version can
have written); `ZonesOf` is `getZone`: the first, else the second, else a managed zone with the longest
suffix.

**`Worker`** has the delegate's three operations at the points where Gardener's generic worker
actuator calls them.

**`ControlPlane`** has one reconcile of the generic control plane actuator around the values
provider's functions: `DeployConfigChart`, `ComputeChecksums`, `GetControlPlaneChartValues`,
`ApplyCCM`, `ApplyCSI`, `DeployShootCharts`. The shoot's secret is read anew at three of these
points, the Cluster is not; the ConfigMap just applied is read from the manager's cache
(`confSeen`). Pods load what they mount when they start, on a rollout or after a crash.

**`Webhooks`** follows one object of twelve kinds (`object`) through any sequence of writes
by its owner and by others, upgrades of shoot and seed, and restarts of the operator with another
configuration. `Mutated` is the webhook: one operator per `Ensure...` function or mutator.
The history variable `said` is what the CNI last said of the Node.

**`TokenCache`** has a clock, the requests of one client, the cache with its lock, and the
exchange, split into signing, issue and answer. Time passes only while an exchange is out or
nobody has anything to do: what the process computes takes no time.

**`RootLock`** is the abstract specification of what root subnets are for: one lock per shoot
name, taken, labelled, used and given back. `InfrastructureProperties` maps `Infrastructure`
onto it (`LockState`, `LockLabel`, `LockUsers`, `LockBroken`): the lock is held while the root subnet
is live, its label is the owner label, and who is provisioned uses it. It is broken
once somebody has deleted below a foreign root or a root key has changed; from then on the
abstract specification promises nothing. `LockImplemented` is the refinement.

Composition. Components that share state are in one module or in one state space
(`Backup`, `ControlPlane` with its pods, `Infrastructure` with its two tasks). Components that
share none are checked side by side by `MCShootServices`, `MCAdmission` and `MCShootControl`: a
variable `follows`, chosen at the start, says which of them a behaviour moves, and the others stay in
one initial state, in which nothing is asked of its workers. So no product of unrelated state spaces is built, and every property
holds of every behaviour of its own component.

External code, modelled from how the source uses it:

- Gardener's generic worker actuator applies the wanted deployments, waits for them, deletes
  the others and drops unused classes. Its generic control plane actuator deploys the config chart,
  computes checksums, asks for the values, renders all charts and applies them, then those of the shoot.
- The API server hands a webhook the stored object as the old one. Gardenlet writes the Cluster
  before the objects made from it; etcd templates leave storage class and capacity out.
- Gardener writes a namespaced profile's status from its parent and the mutator runs on that write;
  a seed's backup section is never taken away; retention can be raised in GDC but not lowered.
- client-go's `NewCachedTokenSource` reads the clock before it takes the lock, once, has no
  leeway as it is used here, and prefers an old token to none.

## 3. The runs

| Run | Instance | What it shows |
|---|---|---|
| `infra_own` | two shoots of one name, one found unlabelled; lingering deletions; one fault | the controller implements `RootLock` (`LockImplemented`); `OwnershipInv` is invariant, hence a provisioned shoot keeps a live root subnet (`ProvisionedOwnsRoot`) |
| `infra_life` | a shoot that gains a zone and drops egress, and its successor after migration; one update, one fault | `PublishedSubnetsStay`, `MigratedKeepsNetwork`, `DeleteComplete` |
| `infra_converge` | one shoot whose zone CIDR or root key changes, lingering deletions, one update, one fault | `ZonalMatchesGlobal`, `EventuallyConverged`, `EventuallyDeleted` |
| `infra_unowned_delete` | two shoots of one name | **violated** `LiveRootKept`: see section 6 |
| `infra_egress_leak` | a shoot that drops a zone and switches egress off | **violated** `EgressCleanedUp` |
| `infra_restore` | a shoot and its resource after migration | **violated** `RestoreCompletes` |
| `infra_cidr` | one shoot whose zone CIDR changes three times; lingering deletions, no fault | **violated** `ZoneGetsItsCidr` |
| `admission` | *shoots:* two, three nested CIDRs, eight configurations with every way to name a parent; *profiles:* a parent with one or two versions, seven namespaced specs, a shoot, four submissions; *seed:* six configurations, three key secrets, names of buckets that nest, three updates | `RootKeyImmutable`, overlaps only where the cache lagged (`OverlapOnlyUnseen`); `UsedVersionStays`, `ParentImageWins`; `BucketMatchesSeed`, `KeysAreOwn`, `EtcdKeepsBucket` |
| `profile_project` | the profiles of `admission`, with a parent that keeps its images in a project | **violated** `ParentMappingKept` |
| `shoot_services` | *bastion:* two zones, two changes, two failures; *record:* a wildcard name, nested zones, spec and status with and without a zone, four values, one error; *backups:* names `a` and `source-ab`, pages of one or two objects, locked versions, readiness flaps, two faults | the bastion's `OneZone`, `OpenOnlyForMachine`, `GoneLeavesNothing`, `ComesUpOrGoes`; the record's `ReconciledIsServed`, `ServedUntilDeleted`; the backups' `PublishedIsUsable`, `SecretOutlivesBucket`, `GoneIsGone`, `OthersBackupsStay`, `RequestsEnd` |
| `dns_restore` | two records, one of them a wildcard, otherwise as `shoot_services` | **violated** `RestoredIsServed` |
| `shoot_control` | *workers:* a pool in one or two of three zones in either order, two versions, three changes, one fault; *control plane:* three accounts, two profiles, two changes, one break; *webhooks:* twelve kinds of object, three writes, two upgrades; *tokens:* two requests, a lifetime shorter than the HTTP timeout, one fault; *task runner:* three tasks | `NoTwin`, `ClassKeepsPlace`, `UsedImageStays`, `Settles`; `ReconciledIsLoaded`, `CSICanAuthenticate`; `PluginMatchesVersion`, `ReapplyChangesNothing`, `NodeFollowsCNI`; `SentIsValid`; `EveryResultOnce`, `RunReturns` |

Bounds. `MaxUpdates`, `MaxChanges`, `MaxInputs`, `MaxSubmits`, `MaxSeedUpdates`, `MaxUpgrades`
and `MaxValues` bound what users and operators change; `MaxWrites` bounds the writes of one object,
where three suffice for the owner, somebody else, and the owner again. `MaxFaults`, `MaxFails`,
`MaxErrors`, `MaxBreaks` and `MaxExchangeFaults` bound failed calls and restarts: one fault may hit
any point of a handler, and the retry starts over, so that a second one matters only where a handler
leaves traces for the retry, which is why backups and the bastion have two. `MaxVersions` bounds
uploads per shoot. A page has at most `PageSize = 2` objects and may have fewer, as S3 allows: so a
deletion may take several pages, and a locked version may share its page with a marker that goes. `MaxTime` bounds the
clock: with `Lifetimes = {2}`, `Timeout = 3` and `JWTLife = 4` a token can expire while the
exchange that fetched it is out, while another request waits for the lock, and in the cache. Two
shoots suffice for the label protocol, as each step of it involves one shoot and the root subnet;
the proofs lift that bound. Runs with deadlock checking off are of systems that may come to rest (a
deleted shoot, a Run that returned, a component at its bounds).

`infra_life` sets `Finalizers = FALSE` (a deleted object is gone at once) to afford two zones and
two resources; `infra_own` and `infra_converge` have lingering deletions, and the proofs cover
both values. `infra_own` has
`EgressAllowed = FALSE`, the case of a service account without egress permissions, whose
`Forbidden` answers Delete ignores.

What the properties except, and why. `PublishedSubnetsStay` and the subnets of
`MigratedKeepsNetwork` speak of shoots that are `Undisturbed`: no configuration gives a zone another
CIDR (such a change replaces the subnet, as the code means to), and, where deletions linger, no shoot
of the name has been deleted. The successor of a deleted shoot may find its predecessor's subnets
in deletion but still ready, take them for its own, publish them and then lose them: every Get
ignores the deletion timestamp, and `waitForGlobalSubnetReady` (`actuator.go:714`) looks only at conditions. `DeleteComplete`
excepts subnets when a shoot of the name in another namespace came while the Delete was on its way, as
that one may have created the subnet anew. `ReconciledIsLoaded` excepts a reconcile whose checksum was taken
of a ConfigMap the cache had not shown yet, and a pod that crashed into the new configuration
before its template had the new checksum: in the first the pod may go on with the old
configuration until the next reconcile, as the code has no remedy. `PluginMatchesVersion` allows the
disabled plugin's flag on a 1.31 API server while the webhook's view at gardenlet's last write was an
older version. `EtcdKeepsBucket` excepts buckets whose names contain one another, which
`eitherContains` cannot tell apart. `SentIsValid` allows a token that is over by less than its
exchange took, as the expiry is counted from the answer's arrival, and the old token after a
failed exchange. `NodeFollowsCNI` leaves out Nodes in deletion, which the
mutator does not touch, and says "down only if the CNI said so" but not the converse: the route
controller's next write takes the CNI's "down" away. `ReapplyChangesNothing` excepts an etcd template that names a size or class itself: it
loses to the default when the etcd is created and wins when it is updated.
`BucketMatchesSeed` holds until the override annotation is used, and it and `GoneIsGone` except a
bucket whose deletion finds the seed's credentials lost: Delete then reports success and leaves it
(`backupbucket/actuator.go:169`). `EventuallyConverged` speaks of a spec that changed at
most once; so does `ZonalMatchesGlobal` where deletions linger, and it is about a shoot that has its
name for itself and names no zone twice: a CIDR changed to and fro breaks both (`infra_cidr`,
section 6).

Fairness. Weak fairness is assumed of each task of a job in flight, of the start of an operation
(the work queue re-adds a resource whose reconcile failed, and Gardener reconciles every resource
periodically), and of GDC's steps (a live object becomes ready, a deleted one whose content is
gone vanishes, a retention period ends). In `shoot_control` it is stated for the worker's
`Reconcile` and for each deployment's `Vanishes`, and for the main process and each goroutine of the
task runner, guarded by `follows`. In `shoot_services` it is stated for the
bastion's and the backups' workers, which have nothing to do before their resource is created. Nothing is assumed of the components that only have
safety properties. Users and faults are under no obligation. Liveness
properties therefore have the form "if it is left alone": they say nothing of a shoot
whose spec changes for ever, which the bounds exclude in any case. The violated liveness property
`RestoreCompletes` is checked under the same fairness.

Each property of a passing run has a mutant in `PROJECT.json`: a plausible bug in a mapped
definition with which the same run fails. A run's time grows with the bounds; these finish within
minutes on two cores.

## 4. What is proved

Every theorem is for arbitrary sets of resources, names, zones, versions and configurations and for
any values of the bounds, within the named assumptions of the modules. Besides types,
and that `None` and its kin are not values, they are:

| Assumption | Module | Why the code or its surroundings justify it |
|---|---|---|
| `ConfigsAssumption`, `LegacyAssumption` | `Infrastructure` | validation wants a zone; two shoots of one name from before the label would have shared a subnet already, and a namespace has one shoot |
| `NamesAssumption`, `ShootsAssumption` | `Backup` | names of Kubernetes objects hold no slash; after a migration the `source-` entry is in the other seed's bucket |
| `RecordsAssumption` | `DNSRecord` | a shoot's records have names of their own, and no DNS label begins with a hyphen |
| `TokensAssumption` | `TokenCache` | tokens are issued for longer than the cache's leeway |
| `SpecsAssumption` | `Worker` | a pool has a zone |
| `AccountsAssumption`, `OffersAssumption` | `ControlPlane` | a service account has its fields; `validateZoneEndpoints` wants each zone's infrastructure API |
| `TemplatesAssumption` | `Webhooks` | gardenlet's API server has its container, and from 1.31 on Gardener's validation refuses the removed plugin |
| `WrittenAssumption` | `Webhooks` | the objects are the twelve the webhooks watch; an etcd's storage is a class and a capacity, a Node is in one of four conditions, an annotation is a list of names, and none of these is `NotSet` |
| `KeySecretsAssumption` | `SeedBackup` | in the project's own namespace a service account's name is unique |

For each component there is an inductive invariant that implies the property, and one
lemma or step per action that it is preserved. What follows says what had to be added to each property, and why.

`InfrastructureProofs`:

- `TypeCorrect`: `TypeOK`. Its non-routine part is that `zi` and `ezi` stay within the zones of
  the job's own configuration, however the spec changes meanwhile.
- `OwnershipHolds`: `OwnershipInv`, the inductive invariant. `ProvisionedOwnsRoot` is not inductive
  by itself: a reconcile between its label check and its end is about to provision a shoot.
  So `OwnershipInv` says per shoot: past the label check (`OwnershipChecked`) the
  label is the shoot's own; a labelled root of a shoot whose Delete has not begun is live and has a
  key the shoot may ask for; a job only adopts if the shoot has a status; a reconcile never
  enters `deleteAllSubnets`; a resource that does not exist yet owns nothing. One lemma per group of
  actions shows that it is preserved.
- `ProvisionedOwnsRootHolds`, `OneHolder` follow from it; `OwnerKept` is the action
  property, from the invariant before the step.

They hold under `StableRoot /\ trespassers = {}`, which are part of the properties: admitted
updates do not change the root key, and nobody has deleted under a foreign root. The first is
what `RootKeyStays` establishes; the second is not guaranteed by the code, as
`infra_unowned_delete` shows.

`RootLockProofs`:

- `LockExcludes`: the abstract lock does what a lock is for. Until it is broken, every user of a
  name's network holds its lock and there is one such user, by an induction over the lock's seven steps.

`InfrastructureProofs`, its second part:

- `LockImplementedHolds`: every step of `Infrastructure` is a step of `RootLock` under the
  mapping, or a stutter; initial states map to initial states. The step lemmas follow the actions: an
  adoption is `PutLabel`, a creation `Acquire`, the end of a reconcile `BeginUse`, a DeleteShoot or
  Migrate `EndUse`, a deleted root subnet `GiveBack` or `Destroy`, its end `Returned`. It takes
  `OwnershipInv` (that `BeginUse` finds its own label, that `GiveBack` finds no user) and covers the
  steps that break the lock, after which only `broken` must stay. So whatever
  `LockExcludes` says of the lock holds of root subnets and of the shoots that use them.

`NetworkProofs`, on top of `OwnershipInv`:

- `PublishedStay`, `MigratedKeeps`. A published subnet is lost if somebody deletes it, and who may is decided
  long before: `reconcileGlobalSubnet` deletes a z- subnet when the global one is missing or has another
  CIDR. So `NetworkInv` has to say why no reconcile comes to that. `SecuredInv`: the z- subnets of the status, and
  of the zones a reconcile has passed, are live, and a global subnet above one fits the
  configuration, so that a later `GetZone` finds no fault. `CalmInv`: until a shoot of the
  name is deleted, whoever owns the root subnet has made all below it, hence nothing there is
  in deletion or has a stranger's CIDR. `LiveInv` takes its place where nothing lingers. `MigratedInv`
  keeps the label with the migrated resource, so that reconciles on the next seed stop at the
  label check. It takes `OwnershipInv` that other shoots' jobs stop there too; the lemmas go by
  actions, with one about what an untouched object may become in a step (`NodesAge`).
- `DeletionHolds`, `DeleteLeavesNothing`: `DeletionInv` follows the two tasks of a Delete: what each has
  passed is gone or in deletion (`SubnetsPassed`, `RootPassed`, `EgressPassed`), although other jobs create in
  between. For egress objects that rests on `NamespaceInv` (a namespace has one shoot at a time,
  and a Delete's own shoot has no reconcile in flight, `OpInv`), for subnets on the absence of a namesake elsewhere.
  `ForbiddenInv` is the case in which Delete takes `Forbidden` for success: then there is nothing to delete.
- `CutWhereNothingLingers`: `ZonalMatches` of every name where deleted objects do not linger, namesakes
  included as long as none was deleted. `CutInv` says of each position
  between the two Deletes and the two Creates of a changed CIDR which of the pair stands: from
  `zone_delglobal` to `zone_create` there is no z- subnet, from `zone_wait` to `net_create` the global subnet is there
  with the job's CIDR. It holds however often the spec changes for a shoot that has its name for itself. With
  namesakes it needs that nobody else works below the root subnet, hence the owner check
  (`OwnershipInv`) and that none of them has been deleted: the Delete of one that is interrupted
  between its two calls may go on when another has built anew.
- `ZonalMatchesHolds`: `ZonalMatchesGlobal`. Where nothing lingers it is the former theorem. Where
  deleted objects linger, it is about a shoot alone with its name whose spec changed at most once.
  There the global subnet may be going while its z- subnet is live, so the invariant
  (`OnceInv`) is about standing subnets: a z- subnet without a standing global subnet has the CIDR the
  spec gives its zone (`Replaceable`), so the global subnet to come fits it; and until a job
  takes up the changed spec, all that stands is as the first spec has it (`FirstBuilt`), so nothing
  has been deleted yet. Changes to and fro leave a z- subnet of a
  former CIDR (section 6), and the hypothesis `updates <= 1` excludes them. A zone that is named
  twice (`Distinct` excludes it) has two CIDRs at once.

`AdmissionProofs`, of the three webhooks:

- `AdmissionInvariant`: types, and that a request under way was admitted against the object it
  will replace (the API server hands the webhook the stored object, so the lagging cache does
  not matter to update rules).
- `RootKeyStays`: no admitted update changes the root key, migration from `parentSubnet` to
  `parentReference` included. The lemma `UpdateKeepsRootKey` is the case split over the
  validation rules.
- `OverlapsOnlyUnseen`: `OverlapOnlyUnseen` speaks of stored shoots only; `HeldInv` says the same
  of what a shoot holds, stored or admitted, because a request takes its addresses when the webhook
  lets it through. A second admission of a shoot forgets what the first could not see; that this
  loses nothing rests on `PendingInv`: the node network is the same, and the cache has been compared again.
- `SeedGetsItsBucket`: without an override one configuration goes from seed to BackupBucket to worker
  (`ConfigInv`), so `CreateIfNotExists` and Delete, which read it at different times, agree. A bucket left
  behind is one whose Delete found no credentials.
- `PublishedKeysAreOwn`: from the name and owner checks of the key selection.
- `EtcdStaysInItsBucket`: from what `eitherContains` can match, over any number of mutations.
- `UsedVersionsStay`: an action property. `KeepInv` says it of the request under way, which is stored
  later: it was compared with the profile it replaces, and every shoot that changed since is in `missed`.
- `ParentImagesWin`: `StatusInv` says that the status is what the mutator makes of a parent's configuration. The
  weight is on lemmas about the lists: the entry of a name in the merged list begins with the parent's
  versions (`MergeKeeps`, whatever order the map of names is walked in), and the first match in it is
  therefore the parent's (`MutateFindsSame`).

`BackupProofs`: one invariant (`BucketInv`, `EntryInv`) gives all four.

- `Published`, `SecretOutlives`: what a reconcile has read of the bucket is still so when it writes, because
  only a deletion removes the bucket, and the worker handles one operation at a time.
- `Gone`: a handler that has come to its end has emptied the folder, for any page size.
- `OthersStayInSpec`: the lemma `FolderPrefix`, that of two folders with their slashes neither begins
  the other, and the case split over the steps that delete.

`ShootServicesProofs`:

- `BastionInOneZone`, `BastionOpenOnlyForMachine`, `BastionGone`: `BInv` adds what a handler has done up
  to its position (made what comes before it, or withdrawn it) and that a reconcile never
  meets objects in deletion.
- `RecordIsServed`, `RecordServedUntilDeleted`: `DInv` adds that the two seeds take turns
  (`TakeTurns`), and that the zone in use is one `getZone` may return for the record as it stands. For a
  record with no zone in spec or status that one is most specific, in whatever order the map is walked.

`ShootControlProofs`:

- `TokenIsValid`: `WaitInv` is the heart. A request that has read the clock and waits for the lock finds
  no good token later or one that is good by now: nobody waits while the lock is free, and no
  time passes until it is taken.
- `RunAccountsForAll`: `CountInv` (the wait group's counter is the number of goroutines not gone, by
  cardinality) and `PlaceInv` (a result is nowhere before it is sent and then in exactly one of
  channel, errors and map), by lemmas on `Append` and `Tail`.
- `WorkersHaveNoTwin`: stronger than the property, deployments in deletion count too, and the
  names a reconcile has chosen but not deployed yet have no twin either.
- `ClassesKeepTheirPlace`, `UsedImagesStay`: action properties, from the contents of the hash and of the
  status's one writer.

`ControlPlaneProofs`:

- `CSIAuthenticates`: what is made of a secret and a profile stays a kubeconfig of some account and some
  profile in job, secret and pod (`CSIInv`); that the plugin can use every such one is a
  fact about `MarshalAccount` and the plugin's choice of CA.
- `ReconciledWorksWithLatest`: `CurrentInv` says for each step of the reconcile what it has left behind that
  belongs to the present inputs, as long as nobody asked for another reconcile.
- `PluginFitsVersion`: the stored API server is for no later version than the shoot's, and what the
  webhook has read of the shoot is no later than what it reads now. The flag goes by the Cluster
  the webhook reads and must fit the image, so both orders of an upgrade matter.
- `NodeConditionHolds`: `NodeFollowsCNI` is inductive given the types of the Node and of the number of
  writes (`NodeInv`): each writer's template, seen against what is stored, keeps the CNI's word.
- `ReapplyHolds`: each mutation is idempotent (the lemmas `...Twice`, one per object; that of a Service's projects
  counts first occurrences). `AppliedInv`: what is stored is what the last template makes with the
  versions read then. It does not depend on what others wrote back in between, because versions only
  grow (`ViewInv`): if the webhook reads now what it read then, it read nothing else in between. An
  etcd and a Node depend on what was stored, and have invariants of their own.

Only model-checked, and why:

- liveness (`EventuallyConverged`, `EventuallyDeleted`, `RequestsEnd`, `ComesUpOrGoes`, `Settles`, `RunReturns`):
  the prover has neither fairness nor ENABLED. What they rest on is proved: a token's validity, the accounts of
  Run, what a Delete has left behind at each position.

The violated properties are counterexamples and need no proof.

## 5. Not modelled

Error codes (`DetermineError`: every error is retried alike), the infrastructure configuration's
validator at reconcile time (it accepts everything), executables and their flags, API types,
generated conversions and deep copies, charts as text, and the tooling of the integration tests.

Within modelled components: machine types and images of bastions; worker disks, sizes, user data
and the capacity that the worker hash leaves out; the worker and networking rules of shoot
admission, which look at one field each; of the control plane chart the constants (image vectors,
replicas, which the CSI chart fixes at 1 whatever the values say, and values such as `webhookConfig`
and `csiSnapshotValidation` that no chart uses); signatures and HTTP in authentication.

Names are built from triples in
`Infrastructure`, so that the collisions their concatenation allows (`x` in zone `a-b`, `x-a` in
zone `b`) cannot occur there. `Infrastructure` reads specs and objects from the API server, not
from a cache: the code's GDC clients are uncached, its seed client is not, and what is left
out is a reconcile of an older spec right after a newer one. The CSI secret of a control plane
without active zones has the kubeconfig of any zone, as the code ranges over a map.

## 6. Where code and comments disagree

- `infra_unowned_delete`: Reconcile rejects a root subnet with another shoot's label
  ("it belongs to someone else. Reject.", `actuator.go:471`). Delete of the rejected shoot does not look
  at the label, and deletes that subnet and those below it by name.
- `infra_egress_leak`: egress resources are to be cleaned up when egress is switched off
  (`actuator.go:200`), but only zones still configured are visited.
- `infra_restore`: Restore is documented to reconcile again (`actuator.go:380`), and is refused: the
  label holds the UID of the resource left on the old seed.
- `dns_restore`: Restore of a DNSRecord (`dnsrecord/actuator.go:111`) makes no call.
- `profile_project`: a mapping's `Project` "specifies the namespace which the image comes from"
  (`apis/gdc/types_cloudprofile.go:42`) and versions of the parent "cannot be overridden"
  (`admission/validator/namespacedcloudprofile.go:219`). When a namespaced profile adds a version to an
  image of its parent, `mergeMachineImages` (`admission/mutator/namespacedcloudprofile.go:94`)
  builds the entry from name and versions only, and the parent's versions are looked for in `vm-system`.

- `infra_cidr`: the CIDR of a zone "is the CIDR for the zone, derived from its parent subnet's CIDR"
  (`apis/gdc/types_infrastructure.go:95`). Get takes a global subnet in deletion for one that is there
  (`actuator.go:552`), so a z- subnet is created below a global subnet of CIDR 1 that is on its way out;
  when the CIDR has changed on to 2, and the old global subnet is gone, the new one is created
  without a look at the z- subnet, and `ReconcileZonalSubnet` never compares its CIDR. The reconcile
  succeeds with the z- subnet of CIDR 1. By TLC it takes three changes (1, 2, 1, 2).

One more disagrees with no comment and has no run of its own. The proof of `PublishedStay` failed where a
shoot takes its deleted predecessor's subnets, still ready, for its own (section 3, "what the properties
except").

## 7. Plan

Done: the infrastructure controller with its proofs, the lock it implements and the proof of the
refinement, the task runner, shoot, cloud profile and seed admission, the backup path, the bastion,
DNS records, workers, control plane values, all webhooks, and the token cache.

Next, modelling:

1. names as concatenations, for the collisions of `actuator.go:282`, and a zone named twice with
   disjoint CIDRs (`apis/gdc/validation/infrastructure.go:219`);
2. the capacity that workers strip from the hash, and error classification as a function of
   joined errors.

Next, proofs: every invariant and action property of the runs has its theorem; the liveness properties are
out of the prover's reach. What could be had next: `ZonalMatchesHolds` for namesakes, with an order on their
deletions in place of "alone with its name", and the new models' invariants.

## 8. Running it

    tlc -workers 2 -config MCInfra_own.cfg MCInfrastructure.tla
    tlapm NetworkProofs.tla

and likewise for the other configurations: `MCInfra_*` with `MCInfrastructure`, `MCAdmission` and
`MCAdmission_project` with `MCAdmission`, `MCShootServices` and `MCDNS_restore` with
`MCShootServices`, `MCShootControl`; and for the proofs `InfrastructureProofs`, `RootLockProofs`,
`NetworkProofs` (the longest, about five minutes), `AdmissionProofs`, `BackupProofs`, `ShootServicesProofs`, `ShootControlProofs` and
`ControlPlaneProofs`.
