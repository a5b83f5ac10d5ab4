------------------------------- MODULE Backup -------------------------------
(***************************************************************************)
(* The backup path: the BackupBucket actuator (create, publish, empty and *)
(* delete a GDC bucket), the BackupEntry actuator (delete a shoot's        *)
(* objects), the S3 client's paged deletion, and the etcd webhook that     *)
(* points an etcd at the bucket.                                           *)
(*                                                                         *)
(* There is one BackupBucket and one GDC bucket of its name.  A shoot's    *)
(* BackupEntry is named by a sequence, so that one name may begin another, *)
(* and "source-" in front marks an entry left behind by a migration.       *)
(***************************************************************************)
EXTENDS Naturals, Sequences, FiniteSets
LOCAL INSTANCE SequencesExt

CONSTANTS
  Entries,      \* the names of the BackupEntries, sequences
  PageSize,     \* most objects on a listed page (1000 in the code)
  MaxVersions,  \* bound: uploads per entry
  MaxFaults     \* bound: failed calls, restarts and readiness flaps

ASSUME PageAssumption == PageSize \in Nat \ {0}
ASSUME EntriesAssumption == Entries \subseteq Seq(STRING) \ {<<>>}
(* A BackupEntry has the name of a Kubernetes object, which holds no slash. *)
ASSUME NamesAssumption == \A e \in Entries : \A i \in 1..Len(e) : e[i] # "/"

VARIABLES
  bucket,   \* the BackupBucket: phase, FQN annotation, status.generatedSecretRef
  creds,    \* spec.secretRef resolves
  secret,   \* the generated secret: "none", "blank" (no endpoint), "full"
  gdc,      \* the GDC bucket: existence, Ready condition, status fields
  objects,  \* what the GDC bucket holds: versions and delete markers
  locked,   \* the versions whose retention has not run out
  entry,    \* the phase of each BackupEntry
  etcd,     \* the entries whose etcd writes backups
  bjob,     \* where the worker of the BackupBucket stands
  ejob,     \* where the worker of each BackupEntry stands
  faults
vars == <<bucket, creds, secret, gdc, objects, locked, entry, etcd, bjob, ejob, faults>>

crs == <<bucket, creds, entry, etcd>>
cloud == <<gdc, objects, locked>>

(* strings.TrimPrefix(name, "source-") *)
Trim(e) == IF Head(e) = "source-" THEN Tail(e) ELSE e

(* The key under which backup-restore stores a shoot's objects. *)
Folder(e) == IF Head(e) = "source-" THEN Tail(e) \o <<"/">> ELSE e \o <<"/">>
Prefix_NoSlash(e) == Trim(e)
Prefix(e) == Trim(e) \o <<"/">>
(* A migration leaves the "source-" entry in the bucket of the seed it comes *)
(* from, and the shoot's own entry is in another seed's bucket.             *)
ASSUME ShootsAssumption == \A e, f \in Entries : Trim(e) = Trim(f) => e = f

Missing == [st |-> "absent", ready |-> FALSE, status |-> FALSE]

(* validateBucketStatus *)
Valid_Exists(g) == g.st # "absent"
Valid(g) == g.st # "absent" /\ g.ready /\ g.status

Of(e) == {o \in objects : o.key = Folder(e)}

---------------------------------------------------------------------------
Init == /\ bucket = [phase |-> "none", fqn |-> FALSE, ref |-> FALSE]
        /\ creds = TRUE /\ secret = "none" /\ gdc = Missing
        /\ objects = {} /\ locked = {}
        /\ entry = [e \in Entries |-> "none"] /\ etcd = {}
        /\ bjob = "idle" /\ ejob = [e \in Entries |-> "idle"]
        /\ faults = 0

(* Gardener: a seed gets a BackupBucket; a BackupEntry follows a published   *)
(* bucket, its etcd goes before it, and the bucket is deleted once no entry *)
(* refers to it.  The seed's secret may go with the seed.                   *)
NewBucket ==
  /\ bucket.phase = "none"
  /\ bucket' = [bucket EXCEPT !.phase = "live"]
  /\ UNCHANGED <<creds, secret, cloud, entry, etcd, bjob, ejob, faults>>

CreateEntry(e) ==
  /\ bucket.phase = "live" /\ bucket.ref /\ entry[e] = "none"
  /\ entry' = [entry EXCEPT ![e] = "live"]
  /\ UNCHANGED <<bucket, creds, secret, cloud, etcd, bjob, ejob, faults>>

StopEtcd(e) ==
  /\ e \in etcd
  /\ etcd' = etcd \ {e}
  /\ UNCHANGED <<bucket, creds, secret, cloud, entry, bjob, ejob, faults>>

DeleteEntry(e) ==
  /\ entry[e] = "live" /\ e \notin etcd
  /\ entry' = [entry EXCEPT ![e] = "deleting"]
  /\ UNCHANGED <<bucket, creds, secret, cloud, etcd, bjob, ejob, faults>>

DeleteBucket ==
  /\ bucket.phase = "live" /\ \A e \in Entries : entry[e] \in {"none", "gone"}
  /\ bucket' = [bucket EXCEPT !.phase = "deleting"]
  /\ UNCHANGED <<creds, secret, cloud, entry, etcd, bjob, ejob, faults>>

LoseCreds ==
  /\ bucket.phase = "deleting" /\ creds
  /\ creds' = FALSE
  /\ UNCHANGED <<bucket, secret, cloud, entry, etcd, bjob, ejob, faults>>

(* EnsureETCDBackup: an etcd is only admitted once the bucket's annotation  *)
(* names a container for it.                                               *)
EnsureETCDBackup(e) ==
  /\ entry[e] = "live" /\ e \notin etcd
  /\ bucket.phase # "gone" /\ bucket.fqn
  /\ etcd' = etcd \cup {e}
  /\ UNCHANGED <<bucket, creds, secret, cloud, entry, bjob, ejob, faults>>

(* backup-restore uploads a snapshot, locked by the retention policy, or    *)
(* deletes one, which in a versioned bucket only adds a marker.            *)
Upload(e) ==
  /\ e \in etcd /\ secret = "full" /\ gdc.st = "present"
  /\ \E n \in 1..MaxVersions, keep \in BOOLEAN :
       LET o == [key |-> Folder(e), kind |-> "version", n |-> n] IN
       /\ o \notin objects
       /\ objects' = objects \cup {o}
       /\ locked' = IF keep THEN locked \cup {o} ELSE locked
  /\ UNCHANGED <<crs, secret, gdc, bjob, ejob, faults>>

Collect(e) ==
  /\ e \in etcd /\ secret = "full" /\ gdc.st = "present"
  /\ \E n \in 1..MaxVersions :
       /\ [key |-> Folder(e), kind |-> "version", n |-> n] \in objects
       /\ [key |-> Folder(e), kind |-> "marker", n |-> n] \notin objects
       /\ objects' = objects \cup {[key |-> Folder(e), kind |-> "marker", n |-> n]}
  /\ UNCHANGED <<crs, secret, gdc, locked, bjob, ejob, faults>>

(* GDC *)
GdcReady ==
  /\ gdc.st = "present" /\ ~gdc.ready
  /\ gdc' = [gdc EXCEPT !.ready = TRUE, !.status = TRUE]
  /\ UNCHANGED <<crs, secret, objects, locked, bjob, ejob, faults>>

GdcUnready ==
  /\ gdc.ready /\ faults < MaxFaults
  /\ gdc' = [gdc EXCEPT !.ready = FALSE]
  /\ faults' = faults + 1
  /\ UNCHANGED <<crs, secret, objects, locked, bjob, ejob>>

GdcVanishes ==
  /\ gdc.st = "deleting" /\ objects = {}
  /\ gdc' = Missing
  /\ UNCHANGED <<crs, secret, objects, locked, bjob, ejob, faults>>

Expire ==
  /\ \E o \in locked : locked' = locked \ {o}
  /\ UNCHANGED <<crs, secret, gdc, objects, bjob, ejob, faults>>

---------------------------------------------------------------------------
(* BackupBucket Reconcile *)
bstep == <<creds, entry, etcd, ejob, faults>>

Reconcile ==
  /\ bucket.phase = "live" /\ bjob = "idle" /\ creds
  /\ bjob' = "create"
  /\ UNCHANGED <<bucket, secret, cloud, bstep>>

(* createBucketIfNotExists: a bucket that is there is left as it is. *)
CreateBucket ==
  /\ bjob = "create" /\ bjob' = "validate"
  /\ gdc' = IF gdc.st = "absent" THEN [Missing EXCEPT !.st = "present"] ELSE gdc
  /\ UNCHANGED <<bucket, secret, objects, locked, bstep>>

GetAndValidate ==
  /\ bjob = "validate"
  /\ bjob' = IF Valid(gdc) THEN "annotate" ELSE "idle"
  /\ UNCHANGED <<bucket, secret, cloud, bstep>>

(* The annotation and the secret carry what GetAndValidate has read: a bucket *)
(* that has once reported its status keeps it.                              *)
Annotate ==
  /\ bjob = "annotate" /\ bjob' = "secret"
  /\ bucket' = [bucket EXCEPT !.fqn = gdc.status]
  /\ UNCHANGED <<secret, cloud, bstep>>

WriteSecret ==
  /\ bjob = "secret" /\ bjob' = "publish"
  /\ secret' = IF gdc.status THEN "full" ELSE "blank"
  /\ UNCHANGED <<bucket, cloud, bstep>>

PublishStatus ==
  /\ bjob = "publish" /\ bjob' = "idle"
  /\ bucket' = [bucket EXCEPT !.ref = TRUE]
  /\ UNCHANGED <<secret, cloud, bstep>>

(* BackupBucket Delete.  Without the credentials it reports success. *)
StartBucketDelete ==
  /\ bucket.phase = "deleting" /\ bjob = "idle"
  /\ IF creds THEN bjob' = "get" /\ UNCHANGED bucket
              ELSE bucket' = [bucket EXCEPT !.phase = "gone"] /\ UNCHANGED bjob
  /\ UNCHANGED <<secret, cloud, bstep>>

GetBucket ==
  /\ bjob = "get"
  /\ bjob' = IF gdc.st # "absent" /\ gdc.status THEN "objects" ELSE "delete"
  /\ UNCHANGED <<bucket, secret, cloud, bstep>>

(* One page of DeleteObjectVersionsWithPrefix.  Locked versions come back in *)
(* output.Errors while the rest of the page is deleted.  S3 may list fewer    *)
(* than MaxKeys on a page.                                                   *)
Listed_NoMarkers(prefix) == {o \in objects : IsPrefix(prefix, o.key) /\ o.kind = "version"}
Listed(prefix) == {o \in objects : IsPrefix(prefix, o.key)}
Pages(prefix) == LET all == Listed(prefix) IN
  {S \in SUBSET all : Cardinality(S) <= PageSize /\ (S = {} => all = {})}
DeletePage(prefix, pc, next, again, failed) == \E page \in Pages(prefix) :
  /\ objects' = objects \ (page \ locked)
  /\ pc = IF page \cap locked # {} THEN failed
          ELSE IF page = Listed(prefix) THEN next ELSE again

DeleteObjects ==
  /\ bjob = "objects"
  /\ DeletePage(<<>>, bjob', "delete", "objects", "idle")
  /\ UNCHANGED <<bucket, secret, gdc, locked, bstep>>

RemoveBucket ==
  /\ bjob = "delete" /\ bjob' = "verify"
  /\ gdc' = IF gdc.st = "absent" THEN gdc ELSE [gdc EXCEPT !.st = "deleting"]
  /\ UNCHANGED <<bucket, secret, objects, locked, bstep>>

VerifyDeleted_Trusts ==
  /\ bjob = "verify" /\ bjob' = "dropSecret"
  /\ UNCHANGED <<bucket, secret, cloud, bstep>>

VerifyDeleted_NotFoundFails ==
  /\ bjob = "verify" /\ bjob' = "idle"
  /\ UNCHANGED <<bucket, secret, cloud, bstep>>

VerifyDeleted ==
  /\ bjob = "verify"
  /\ bjob' = IF gdc.st = "absent" THEN "dropSecret" ELSE "idle"
  /\ UNCHANGED <<bucket, secret, cloud, bstep>>

(* The secret goes, Delete returns nil and the extension library removes the *)
(* finalizer.                                                               *)
DropSecret ==
  /\ bjob = "dropSecret" /\ bjob' = "idle"
  /\ secret' = "none"
  /\ bucket' = [bucket EXCEPT !.phase = "gone"]
  /\ UNCHANGED <<cloud, bstep>>

---------------------------------------------------------------------------
(* BackupEntry Delete *)
estep == <<bucket, creds, secret, gdc, locked, etcd, bjob, faults>>

StartEntryDelete(e) ==
  /\ entry[e] = "deleting" /\ ejob[e] = "idle"
  /\ ejob' = [ejob EXCEPT ![e] = "bucket"]
  /\ UNCHANGED <<estep, objects, entry>>

(* createS3Client: a missing bucket means there is nothing to delete, one   *)
(* that is not valid is an error.                                          *)
GetBucketMetadata(e) ==
  /\ ejob[e] = "bucket"
  /\ ejob' = [ejob EXCEPT ![e] = IF gdc.st = "absent" THEN "done"
                                 ELSE IF Valid(gdc) THEN "objects" ELSE "idle"]
  /\ UNCHANGED <<estep, objects, entry>>

DeleteEntryObjects(e) ==
  /\ ejob[e] = "objects"
  /\ \E pc \in {"done", "objects", "idle"} :
       /\ DeletePage(Prefix(e), pc, "done", "objects", "idle")
       /\ ejob' = [ejob EXCEPT ![e] = pc]
  /\ UNCHANGED <<estep, entry>>

FinishEntry(e) ==
  /\ ejob[e] = "done"
  /\ ejob' = [ejob EXCEPT ![e] = "idle"]
  /\ entry' = [entry EXCEPT ![e] = "gone"]
  /\ UNCHANGED <<estep, objects>>

---------------------------------------------------------------------------
(* Any call may fail, which ends its handler, and the process may restart. *)
CallFails ==
  /\ faults < MaxFaults
  /\ faults' = faults + 1
  /\ \/ bjob # "idle" /\ bjob' = "idle" /\ UNCHANGED ejob
     \/ \E e \in Entries : /\ ejob[e] # "idle"
                           /\ ejob' = [ejob EXCEPT ![e] = "idle"]
                           /\ UNCHANGED bjob
  /\ UNCHANGED <<crs, secret, cloud>>

Restart ==
  /\ faults < MaxFaults
  /\ faults' = faults + 1
  /\ bjob' = "idle" /\ ejob' = [e \in Entries |-> "idle"]
  /\ UNCHANGED <<crs, secret, cloud>>

BucketWorker == \/ Reconcile \/ CreateBucket \/ GetAndValidate \/ Annotate
                \/ WriteSecret \/ PublishStatus \/ StartBucketDelete \/ GetBucket
                \/ DeleteObjects \/ RemoveBucket \/ VerifyDeleted \/ DropSecret
EntryWorker(e) == \/ StartEntryDelete(e) \/ GetBucketMetadata(e)
                  \/ DeleteEntryObjects(e) \/ FinishEntry(e)
Gdc == GdcReady \/ GdcVanishes \/ Expire
Gardener(e) == \/ CreateEntry(e) \/ StopEtcd(e) \/ DeleteEntry(e)
               \/ EnsureETCDBackup(e) \/ Upload(e) \/ Collect(e)

Next == \/ BucketWorker \/ Gdc \/ NewBucket \/ DeleteBucket \/ LoseCreds
        \/ GdcUnready \/ CallFails \/ Restart
        \/ \E e \in Entries : EntryWorker(e) \/ Gardener(e)

Spec == Init /\ [][Next]_vars
BackupFairness == /\ WF_vars(BucketWorker) /\ WF_vars(GdcReady)
                  /\ WF_vars(GdcVanishes) /\ WF_vars(Expire)
                  /\ \A e \in Entries : WF_vars(EntryWorker(e))
---------------------------------------------------------------------------
(* Once the bucket is published in status.generatedSecretRef, what Gardener *)
(* and the etcd webhook go by is complete, for as long as the BackupBucket *)
(* lives: the annotation, a secret with the endpoint, a bucket that has     *)
(* reported both (Reconcile's order of validation, annotation and status). *)
PublishedIsUsable ==
  bucket.ref /\ bucket.phase = "live" => bucket.fqn /\ secret = "full" /\ gdc.status

(* The generated secret, with which the bucket is reached, is never deleted *)
(* while the bucket may still exist (Delete verifies that Get says NotFound). *)
SecretOutlivesBucket == bucket.ref /\ gdc.st # "absent" => secret # "none"

(* What is gone has left nothing: of a BackupEntry no version and no delete   *)
(* marker is in the bucket, of a BackupBucket that was deleted with           *)
(* credentials neither the GDC bucket nor the generated secret is there,     *)
(* whatever was locked, failed or retried before.                           *)
GoneIsGone ==
  /\ \A e \in Entries : entry[e] = "gone" => Of(e) = {}
  /\ bucket.phase = "gone" /\ creds => gdc.st = "absent" /\ secret = "none"

(* No deletion of a BackupEntry touches the objects of another shoot, be its *)
(* name an extension of the deleted one: until its own entry is being       *)
(* deleted a shoot's backups stay.                                          *)
OthersBackupsStay ==
  [][\A e \in Entries : entry[e] = "live" => Of(e) \subseteq {o \in objects' : o.key = Folder(e)}]_vars

(* What is asked for is done: a deletion of an entry or of the bucket ends    *)
(* and a live bucket is published, whatever was locked, not ready or failing *)
(* on the way.                                                              *)
RequestsEnd == /\ \A e \in Entries : entry[e] = "deleting" ~> entry[e] = "gone"
               /\ bucket.phase = "deleting" ~> bucket.phase = "gone"
               /\ bucket.phase = "live" ~> bucket.ref \/ bucket.phase # "live"
=============================================================================
