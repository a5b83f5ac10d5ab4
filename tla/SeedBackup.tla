------------------------------ MODULE SeedBackup ------------------------------
(***************************************************************************)
(* From the backup section of a Seed to the bucket an etcd writes to: the  *)
(* validator of seeds (pkg/admission/validator/backup_bucket.go), the kind *)
(* and retention of the GDC bucket (pkg/gdc/storage, controller/           *)
(* backupbucket), the choice of access keys, and the two webhooks that     *)
(* name the bucket in an Etcd.  Backup.tla has the publication and the     *)
(* deletion of one bucket in detail; here they are one step each.          *)
(***************************************************************************)
EXTENDS Integers, Sequences

CONSTANTS
  BackupConfigs,   \* the providerConfigs operators write into the Seed
  KeySecrets,      \* the secrets that may exist in GDC
  Account,         \* project and name of the service account
  SeedBucket,      \* name of the seed's BackupBucket, a sequence
  OtherBuckets,    \* names of other BackupBuckets in the cluster
  MaxSeedUpdates,  \* bound on changes to the seed, its secret and the key secrets
  NoBackup,        \* the config of a seed without backup section
  Nil              \* no object, a nil pointer, an empty string

DefaultObjectRetentionDays == 1
MaxObjectRetentionDays == 36500
Checksums == {"WHEN_SUPPORTED", "WHEN_REQUIRED"}
BackupBucketConfig == [location: STRING \cup {Nil}, request: STRING \cup {Nil},
                       response: STRING \cup {Nil}, retention: Int \cup {Nil}]
Kinds == {"zonal", "dual"}
Buckets == {SeedBucket} \cup OtherBuckets

ASSUME BackupConfigsAssumption == /\ BackupConfigs \subseteq BackupBucketConfig \cup {Nil}
                                  /\ NoBackup \notin BackupConfigs
(* A ServiceAccount that a secret in the account's own project namespace      *)
(* names is one of that namespace.                                           *)
ASSUME KeySecretsAssumption == \A s \in KeySecrets :
  s.ns = "project" /\ s.owner.name = Account.name => s.owner = Account
ASSUME SeedBoundAssumption == MaxSeedUpdates \in Nat
ASSUME BucketNamesAssumption == Buckets \subseteq Seq(STRING) \ {<<>>}

VARIABLES
  seed,       \* its providerConfig, Nil or a config, once it has a backup section
  overridden, \* history: an update passed only because of it
  url,        \* the API that the secret's orgClusterURL points to
  creds,      \* whether that secret is there
  bb,         \* the seed's BackupBucket: phase, spec, and the config a worker took up
  gdcBuckets, \* the GDC buckets of the seed: [Kinds -> Nil or their retention]
  secrets,    \* the key secrets in GDC, and those a role lets the account read
  published,  \* the secret whose keys the generated secret carries
  fqn,        \* the BackupBuckets with a fully-qualified-name annotation
  container,  \* what each bucket's etcd has as its container
  updates
svars == <<seed, overridden, url, creds, bb, gdcBuckets, secrets, published, fqn, container, updates>>

---------------------------------------------------------------------------
(* validateChecksumSettings *)
SettingsOK(c) ==
  /\ {c.request, c.response} \subseteq Checksums \cup {Nil}
  /\ c.retention # Nil => c.retention \in 0..MaxObjectRetentionDays

EffectiveRetentionDays(c) ==
  IF c = Nil THEN DefaultObjectRetentionDays
  ELSE IF c.retention = Nil THEN DefaultObjectRetentionDays ELSE c.retention

(* Validate.  The three comparisons only differ in their messages; a seed   *)
(* without backup section on either side is not compared.                  *)
SeedUpdateOK_RetentionOnly(old, new, annotated) ==
  /\ new # Nil => SettingsOK(new)
  /\ old # NoBackup /\ ~annotated => EffectiveRetentionDays(new) = EffectiveRetentionDays(old)
SeedUpdateOK(old, new, annotated) ==
  /\ new # Nil => SettingsOK(new)
  /\ old # NoBackup /\ ~annotated =>
       /\ EffectiveRetentionDays(new) = EffectiveRetentionDays(old)
       /\ (new = Nil) = (old = Nil)
       /\ new = old

(* IsDualZoneBucketFlow, and the API its URL has to name. *)
KindOf(c) == IF c # Nil /\ c.location # Nil THEN "dual" ELSE "zonal"
UrlOK(u, kind) == u = IF kind = "dual" THEN "global-api" ELSE "management-kube"

(* getLockingPolicy *)
LockingPolicy(c) == EffectiveRetentionDays(c)

---------------------------------------------------------------------------
(* getAccessKeysFromProjectNamespace: subjects are short names there.       *)
Subject(s) == IF s.ns = "shared" THEN s.owner ELSE s.owner.name
ProjectMatches == {s \in secrets.exist :
  /\ s.ns = "project" /\ s.type = "ServiceAccount" /\ s.prefixed
  /\ s.subject /\ Subject(s) = Account.name}

(* getAccessKeysFromSharedNamespace: the candidates are the names a          *)
(* SelfSubjectRulesReview lets the account get, whether or not they exist;  *)
(* a candidate that is gone ends the search, wherever it is in the list.   *)
Candidates == {s \in secrets.readable : s.ns = "shared" /\ s.prefixed}
SharedMatches_ShortName == {s \in Candidates \cap secrets.exist :
  s.type = "User" /\ s.subject /\ s.owner.name = Account.name}
SharedMatches == {s \in Candidates \cap secrets.exist :
  s.type = "User" /\ s.subject /\ Subject(s) = Account}

(* GetAccessKeyAndKeyID: the first match in a list of any order, or an error.*)
Found == IF ProjectMatches # {} THEN ProjectMatches ELSE SharedMatches
AccessKeys == {s \in Found : s.complete}
KeysMayFail == \/ Found = {} \/ Found # AccessKeys
               \/ ProjectMatches = {} /\ ~(Candidates \subseteq secrets.exist)

---------------------------------------------------------------------------
(* EnsureETCDBackup                                                         *)
Fqn(b) == <<"org-">> \o b
HasInfix(s, t) == \E k \in 0..(Len(s) - Len(t)) : SubSeq(s, k + 1, k + Len(t)) = t
EitherContains(s, t) == HasInfix(s, t) \/ HasInfix(t, s)
Matches_Any(b, c) == TRUE
Matches(b, c) == EitherContains(b, c) \/ (b \in fqn /\ Fqn(b) = c)

---------------------------------------------------------------------------
SInit == /\ seed = NoBackup /\ overridden = FALSE
         /\ url \in {"global-api", "management-kube"} /\ creds = TRUE
         /\ bb = [phase |-> "none", spec |-> Nil, work |-> "idle", snap |-> Nil]
         /\ gdcBuckets = [k \in Kinds |-> Nil]
         /\ secrets = [exist |-> {}, readable |-> {}]
         /\ published = Nil
         /\ fqn \in SUBSET OtherBuckets
         /\ container = [b \in Buckets |-> Nil]
         /\ updates = 0

Update == updates < MaxSeedUpdates /\ updates' = updates + 1

(* A write of the Seed, with or without the annotation.  Gardener does not   *)
(* let a backup section be taken away.                                      *)
WriteSeed(c, annotated) ==
  /\ Update /\ bb.phase \in {"none", "live"}
  /\ SeedUpdateOK(seed, c, annotated)
  /\ seed' = c
  /\ overridden' = (overridden \/ (annotated /\ ~SeedUpdateOK(seed, c, FALSE)))
  /\ UNCHANGED <<url, creds, bb, gdcBuckets, secrets, published, fqn, container>>

SwitchUrl ==
  /\ Update
  /\ url' = IF url = "global-api" THEN "management-kube" ELSE "global-api"
  /\ UNCHANGED <<seed, overridden, creds, bb, gdcBuckets, secrets, published, fqn, container>>

(* Keys are rotated: secrets come and go, and the roles that name them may   *)
(* outlive them.                                                            *)
Rotate(s) ==
  /\ Update
  /\ secrets' = IF s \in secrets.exist
                THEN [secrets EXCEPT !.exist = @ \ {s}]
                ELSE [exist |-> secrets.exist \cup {s}, readable |-> secrets.readable \cup {s}]
  /\ UNCHANGED <<seed, overridden, url, creds, bb, gdcBuckets, published, fqn, container>>

(* Gardener copies the seed's config to its BackupBucket, and deletes that   *)
(* with the seed.                                                           *)
CopyConfig ==
  /\ seed # NoBackup /\ bb.phase \in {"none", "live"}
  /\ bb.phase = "none" \/ bb.spec # seed
  /\ bb' = [bb EXCEPT !.phase = "live", !.spec = seed]
  /\ UNCHANGED <<seed, overridden, url, creds, gdcBuckets, secrets, published, fqn, container, updates>>

DeleteSeedBucket ==
  /\ bb.phase = "live"
  /\ bb' = [bb EXCEPT !.phase = "deleting"]
  /\ UNCHANGED <<seed, overridden, url, creds, gdcBuckets, secrets, published, fqn, container, updates>>

(* Reconcile: the flow is decided on the object the worker was handed.       *)
TakeUpBucket ==
  /\ bb.phase = "live" /\ bb.work = "idle"
  /\ UrlOK(url, KindOf(bb.spec))
  /\ bb' = [bb EXCEPT !.work = "create", !.snap = bb.spec]
  /\ UNCHANGED <<seed, overridden, url, creds, gdcBuckets, secrets, published, fqn, container, updates>>

(* createZonalBucketIfNotExists and createDualZoneBucketIfNotExists.         *)
CreateIfNotExists ==
  /\ bb.work = "create"
  /\ gdcBuckets' = [gdcBuckets EXCEPT ![KindOf(bb.snap)] = IF @ = Nil THEN LockingPolicy(bb.snap) ELSE @]
  /\ bb' = [bb EXCEPT !.work = "publish"]
  /\ UNCHANGED <<seed, overridden, url, creds, secrets, published, fqn, container, updates>>

(* The annotation is patched before the keys are looked for; the keys are    *)
(* taken from the first match, or the handler fails.                        *)
PublishKeys ==
  /\ bb.work = "publish"
  /\ fqn' = fqn \cup {SeedBucket}
  /\ \/ KeysMayFail /\ UNCHANGED published
     \/ \E s \in AccessKeys : published' = s
  /\ bb' = [bb EXCEPT !.work = "idle"]
  /\ UNCHANGED <<seed, overridden, url, creds, gdcBuckets, secrets, container, updates>>

(* A worker gives up, or dies.                                              *)
DropWork ==
  /\ bb.work # "idle"
  /\ bb' = [bb EXCEPT !.work = "idle"]
  /\ UNCHANGED <<seed, overridden, url, creds, gdcBuckets, secrets, published, fqn, container, updates>>

(* Somebody removes the secret too early, as Backup.tla has it.             *)
LoseSecret ==
  /\ bb.phase = "deleting" /\ creds
  /\ creds' = FALSE
  /\ UNCHANGED <<seed, overridden, url, bb, gdcBuckets, secrets, published, fqn, container, updates>>

(* Delete.  Without the secret it reports success and leaves everything.     *)
DeleteGdcBucket ==
  /\ bb.phase = "deleting" /\ bb.work = "idle"
  /\ \/ ~creds /\ UNCHANGED <<gdcBuckets, published>>
     \/ /\ creds /\ UrlOK(url, KindOf(bb.spec))
        /\ gdcBuckets' = [gdcBuckets EXCEPT ![KindOf(bb.spec)] = Nil]
        /\ published' = Nil
  /\ bb' = [bb EXCEPT !.phase = "gone"]
  /\ fqn' = fqn \ {SeedBucket}
  /\ UNCHANGED <<seed, overridden, url, creds, secrets, container, updates>>

(* Retention may be raised in GDC itself; nobody lowers it again.            *)
RaiseRetention(k) ==
  /\ Update /\ gdcBuckets[k] \notin {Nil, 0}
  /\ gdcBuckets' = [gdcBuckets EXCEPT ![k] = @ + 1]
  /\ UNCHANGED <<seed, overridden, url, creds, bb, secrets, published, fqn, container>>

(* Gardener writes an Etcd that names its own bucket; the webhooks replace    *)
(* the name by that of the first bucket listed that matches it.  It is run   *)
(* again on what it has written, whenever the Etcd is updated.               *)
MutateEtcd(b) ==
  /\ b = SeedBucket => bb.phase = "live"
  /\ \E c \in {b, container[b]} \ {Nil}, m \in Buckets :
       /\ m = SeedBucket => bb.phase \in {"live", "deleting"}
       /\ Matches(m, c) /\ m \in fqn
       /\ container' = [container EXCEPT ![b] = Fqn(m)]
  /\ UNCHANGED <<seed, overridden, url, creds, bb, gdcBuckets, secrets, published, fqn, updates>>

SNext == \/ \E c \in BackupConfigs, o \in BOOLEAN : WriteSeed(c, o)
         \/ SwitchUrl \/ CopyConfig \/ DeleteSeedBucket
         \/ TakeUpBucket \/ CreateIfNotExists \/ PublishKeys \/ DropWork
         \/ LoseSecret \/ DeleteGdcBucket
         \/ \E k \in Kinds : RaiseRetention(k)
         \/ \E s \in KeySecrets : Rotate(s)
         \/ \E b \in Buckets : MutateEtcd(b)
SSpec == SInit /\ [][SNext]_svars

---------------------------------------------------------------------------
(* As long as nobody has used the override annotation to change it, the      *)
(* seed's bucket is of the one kind its config asks for, retains objects no *)
(* shorter than the config says, and is not left behind when the            *)
(* BackupBucket goes, unless the secret went before it (backupbucket/        *)
(* actuator.go:169-175): the validator (backup_bucket.go:97-118) keeps the   *)
(* config still that CreateIfNotExists applies once and Delete goes by.     *)
BucketMatchesSeed == ~overridden => \A k \in Kinds : gdcBuckets[k] # Nil =>
  /\ bb.phase = "gone" => ~creds
  /\ k = KindOf(seed)
  /\ gdcBuckets[k] >= EffectiveRetentionDays(seed)

(* The keys handed to backup-restore are those of the seed's own service     *)
(* account, though shared namespaces hold keys of its namesakes in other    *)
(* projects.                                                                *)
KeysAreOwn == published # Nil => published.owner = Account

(* An Etcd writes to its own bucket, unless the name of another BackupBucket *)
(* contains that of its container, or is contained in it.                  *)
EtcdKeepsBucket == \A b \in Buckets :
  container[b] # Nil /\ (\A o \in Buckets \ {b} : ~EitherContains(o, b) /\ ~EitherContains(o, Fqn(b)))
    => container[b] = Fqn(b)
=============================================================================
