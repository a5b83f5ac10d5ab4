---------------------------- MODULE BackupProofs ----------------------------
(***************************************************************************)
(* The safety properties of Backup.tla, for any entries, page size, number *)
(* of versions and of faults.                                              *)
(***************************************************************************)
EXTENDS Backup, TLAPS
LOCAL INSTANCE SequencesExt

ReconcilePC == {"create", "validate", "annotate", "secret", "publish"}
DeletePC == {"get", "objects", "delete", "verify", "dropSecret"}
Object == [key : {Folder(e) : e \in Entries}, kind : {"version", "marker"}, n : 1..MaxVersions]

TypeOK ==
  /\ bucket \in [phase : {"none", "live", "deleting", "gone"}, fqn : BOOLEAN, ref : BOOLEAN]
  /\ creds \in BOOLEAN /\ secret \in {"none", "blank", "full"}
  /\ gdc \in [st : {"absent", "present", "deleting"}, ready : BOOLEAN, status : BOOLEAN]
  /\ objects \subseteq Object /\ locked \subseteq objects
  /\ entry \in [Entries -> {"none", "live", "deleting", "gone"}]
  /\ etcd \subseteq Entries
  /\ bjob \in {"idle"} \cup ReconcilePC \cup DeletePC
  /\ ejob \in [Entries -> {"idle", "bucket", "objects", "done"}]

(* The worker of the BackupBucket: only a deletion removes the GDC bucket,  *)
(* so that what a reconcile has read is still so when it is written.        *)
BucketInv ==
  /\ bucket.phase = "none" => bjob = "idle" /\ ~bucket.ref
  /\ bjob \in ReconcilePC \/ bucket.phase \in {"none", "live"} => gdc.st # "deleting"
  /\ bjob \in DeletePC => bucket.phase = "deleting"
  /\ bucket.phase = "gone" => bjob = "idle"
  /\ bjob \in {"annotate", "secret", "publish"} => gdc.st = "present" /\ gdc.status
  /\ bjob \in {"secret", "publish"} => bucket.fqn
  /\ bjob = "publish" => secret = "full"
  /\ bjob = "dropSecret" => gdc.st = "absent"
  /\ bucket.ref /\ bucket.phase = "live"
       => bucket.fqn /\ secret = "full" /\ gdc.st = "present" /\ gdc.status
  /\ bucket.ref /\ secret = "none" => bucket.phase = "gone" /\ gdc.st = "absent"
  /\ bucket.phase = "gone" /\ creds => gdc.st = "absent" /\ secret = "none"

(* The workers of the BackupEntries, and what of an entry is left.          *)
EntryInv ==
  /\ gdc.st = "absent" => objects = {}
  /\ bucket.phase # "live" => \A e \in Entries : entry[e] \in {"none", "gone"}
  /\ \A e \in etcd : entry[e] = "live"
  /\ \A e \in Entries : ejob[e] # "idle" => entry[e] = "deleting"
  /\ \A e \in Entries : ejob[e] = "done" \/ entry[e] = "gone" => Of(e) = {}

IInv == TypeOK /\ BucketInv /\ EntryInv
---------------------------------------------------------------------------
(* An entry's folder is a sequence of its name's elements and a slash.      *)
LEMMA FolderTyped == ASSUME NEW e \in Entries PROVE Folder(e) \in Seq(STRING \cup {"/"})
<1>. DEFINE S == STRING \cup {"/"}
<1>1. e \in Seq(STRING) /\ e # <<>>
  BY EntriesAssumption
<1>2. Tail(e) \in Seq(STRING)
  BY <1>1
<1>3. e \in Seq(S) /\ Tail(e) \in Seq(S) /\ <<"/">> \in Seq(S)
  BY <1>1, <1>2
<1>. HIDE DEF S
<1>4. e \o <<"/">> \in Seq(S) /\ Tail(e) \o <<"/">> \in Seq(S)
  BY <1>3
<1>. QED  BY <1>4 DEF Folder, S

(* The folders of two entries are the same only for one entry, and neither  *)
(* begins the other: the slash that ends it is in no name.                  *)
LEMMA FolderPrefix ==
  ASSUME NEW e \in Entries, NEW f \in Entries, IsPrefix(Folder(e), Folder(f))
  PROVE  e = f
<1>. DEFINE s == Trim(e)
            t == Trim(f)
<1>1. e \in Seq(STRING) /\ e # <<>> /\ f \in Seq(STRING) /\ f # <<>>
  BY EntriesAssumption
<1>2. s \in Seq(STRING) /\ t \in Seq(STRING)
  <2>1. Tail(e) \in Seq(STRING) /\ Tail(f) \in Seq(STRING)
    BY <1>1
  <2>. QED  BY <1>1, <2>1 DEF Trim
<1>3. \A i \in 1..Len(t) : t[i] # "/"
  <2>1. Len(Tail(f)) = Len(f) - 1 /\ \A i \in 1..Len(Tail(f)) : Tail(f)[i] = f[i + 1]
    BY <1>1
  <2>2. \A i \in 1..Len(Tail(f)) : Tail(f)[i] # "/"
    BY <1>1, <2>1, NamesAssumption
  <2>. QED  BY <2>2, NamesAssumption DEF Trim
<1>4. Folder(e) = s \o <<"/">> /\ Folder(f) = t \o <<"/">>
  BY DEF Folder, Trim
<1>. HIDE DEF s, t
<1>5. Len(s) <= Len(t) /\ \A i \in 1..(Len(s) + 1) : (s \o <<"/">>)[i] = (t \o <<"/">>)[i]
  BY <1>2, <1>4 DEF IsPrefix
<1>6. Len(s) = Len(t)
  BY <1>2, <1>3, <1>5
<1>7. s = t
  BY <1>2, <1>5, <1>6
<1>. QED  BY <1>7, ShootsAssumption DEF s, t

(* No two entries share a folder.                                           *)
LEMMA SameFolder ==
  ASSUME NEW e \in Entries, NEW f \in Entries, Folder(e) = Folder(f)
  PROVE  e = f
<1>1. IsPrefix(Folder(e), Folder(e))
  BY FolderTyped DEF IsPrefix
<1>. QED  BY <1>1, FolderPrefix

(* What a page of a deletion lists holds an entry's objects if and only if  *)
(* the entry is the one that is deleted.                                    *)
LEMMA ListedIsOwn ==
  ASSUME NEW e \in Entries, NEW f \in Entries, TypeOK
  PROVE  /\ Of(e) \subseteq Listed(Prefix(e))
         /\ e # f => Of(e) \cap Listed(Prefix(f)) = {}
<1>1. Prefix(e) = Folder(e) /\ Prefix(f) = Folder(f)
  BY DEF Prefix, Folder, Trim
<1>2. IsPrefix(Folder(e), Folder(e))
  BY FolderTyped DEF IsPrefix
<1>3. Of(e) \subseteq Listed(Prefix(e))
  BY <1>1, <1>2 DEF Of, Listed, IsPrefix
<1>4. ASSUME e # f, NEW o \in Of(e), o \in Listed(Prefix(f)) PROVE FALSE
  BY <1>1, <1>4, FolderPrefix DEF Of, Listed, IsPrefix
<1>. QED  BY <1>3, <1>4

(* A page that a deletion removes leaves a part of the objects and all that *)
(* is locked, and when the deletion ends, nothing that it lists.            *)
LEMMA PageStep ==
  ASSUME TypeOK, NEW prefix, NEW pc, NEW next, NEW again, NEW failed,
         DeletePage(prefix, pc, next, again, failed)
  PROVE  /\ objects' \subseteq objects /\ locked \subseteq objects'
         /\ objects \ Listed(prefix) \subseteq objects'
         /\ pc \in {next, again, failed}
         /\ pc = next /\ next \notin {again, failed} => objects' = objects \ Listed(prefix)
<1>1. PICK page \in Pages(prefix) :
        /\ objects' = objects \ (page \ locked)
        /\ pc = IF page \cap locked # {} THEN failed
                ELSE IF page = Listed(prefix) THEN next ELSE again
  BY DEF DeletePage
<1>2. page \subseteq Listed(prefix)
  BY DEF Pages
<1>. QED  BY <1>1, <1>2 DEF TypeOK

(* Every step keeps the types.                                              *)
LEMMA TypeStep ==
  ASSUME TypeOK, [Next]_vars
  PROVE  TypeOK'
<1>. USE DEF TypeOK, ReconcilePC, DeletePC
<1>1. CASE NewBucket \/ DeleteBucket \/ LoseCreds \/ StartBucketDelete \/ DropSecret
  BY <1>1 DEF NewBucket, DeleteBucket, LoseCreds, StartBucketDelete, DropSecret, cloud, bstep
<1>2. CASE Reconcile \/ CreateBucket \/ GetAndValidate
  BY <1>2 DEF Reconcile, CreateBucket, GetAndValidate, Missing, cloud, bstep
<1>3. CASE Annotate \/ WriteSecret \/ PublishStatus
  BY <1>3 DEF Annotate, WriteSecret, PublishStatus, cloud, bstep
<1>4. CASE GetBucket \/ RemoveBucket \/ VerifyDeleted
  BY <1>4 DEF GetBucket, RemoveBucket, VerifyDeleted, cloud, bstep
<1>5. CASE DeleteObjects
  <2>1. objects' \subseteq objects /\ locked \subseteq objects' /\ bjob' \in {"delete", "objects", "idle"}
    BY <1>5, PageStep DEF DeleteObjects
  <2>. QED  BY <1>5, <2>1 DEF DeleteObjects, bstep
<1>6. CASE GdcReady \/ GdcUnready \/ GdcVanishes
  <2>1. CASE GdcReady
    BY <2>1 DEF GdcReady, crs
  <2>2. CASE GdcUnready
    BY <2>2 DEF GdcUnready, crs
  <2>3. CASE GdcVanishes
    BY <2>3 DEF GdcVanishes, Missing, crs
  <2>. QED  BY <1>6, <2>1, <2>2, <2>3
<1>7. CASE Expire
  BY <1>7 DEF Expire, crs
<1>8. CASE CallFails \/ Restart
  BY <1>8 DEF CallFails, Restart, crs, cloud
<1>9. ASSUME NEW e \in Entries, EntryWorker(e) PROVE TypeOK'
  <2>1. CASE StartEntryDelete(e) \/ GetBucketMetadata(e) \/ FinishEntry(e)
    BY <2>1 DEF StartEntryDelete, GetBucketMetadata, FinishEntry, estep
  <2>2. CASE DeleteEntryObjects(e)
    <3>1. objects' \subseteq objects /\ locked \subseteq objects'
      BY <2>2, PageStep DEF DeleteEntryObjects
    <3>. QED  BY <2>2, <3>1 DEF DeleteEntryObjects, estep
  <2>. QED  BY <1>9, <2>1, <2>2 DEF EntryWorker
<1>10. ASSUME NEW e \in Entries, Gardener(e) PROVE TypeOK'
  <2>1. CASE CreateEntry(e) \/ DeleteEntry(e) \/ StopEtcd(e) \/ EnsureETCDBackup(e)
    BY <2>1 DEF CreateEntry, DeleteEntry, StopEtcd, EnsureETCDBackup, cloud
  <2>2. CASE Upload(e) \/ Collect(e)
    <3>1. objects' \subseteq Object /\ objects \subseteq objects' /\ locked' \subseteq objects'
      <4>1. ASSUME NEW n \in 1..MaxVersions, NEW k \in {"version", "marker"}
            PROVE  [key |-> Folder(e), kind |-> k, n |-> n] \in Object
        BY DEF Object
      <4>2. CASE Upload(e)
        <5>1. PICK n \in 1..MaxVersions, keep \in BOOLEAN :
                LET o == [key |-> Folder(e), kind |-> "version", n |-> n] IN
                /\ objects' = objects \cup {o}
                /\ locked' = IF keep THEN locked \cup {o} ELSE locked
          BY <4>2 DEF Upload
        <5>2. [key |-> Folder(e), kind |-> "version", n |-> n] \in Object
          BY <4>1
        <5>. QED  BY <5>1, <5>2
      <4>3. CASE Collect(e)
        BY <2>2, <4>1, <4>3 DEF Collect
      <4>. QED  BY <2>2, <4>2, <4>3
    <3>. QED  BY <2>2, <3>1 DEF Upload, Collect, crs
  <2>. QED  BY <1>10, <2>1, <2>2 DEF Gardener
<1>11. CASE UNCHANGED vars
  BY <1>11 DEF vars
<1>. QED  BY <1>1, <1>2, <1>3, <1>4, <1>5, <1>6, <1>7, <1>8, <1>9, <1>10, <1>11
          DEF Next, BucketWorker, Gdc

(* A deletion removes no object of another entry; while the bucket is not   *)
(* being deleted this is all that is removed.                               *)
LEMMA OthersStay ==
  ASSUME IInv, [Next]_vars, NEW e \in Entries, entry[e] = "live"
  PROVE  Of(e) \subseteq {o \in objects' : o.key = Folder(e)}
<1>. SUFFICES Of(e) \subseteq objects'
  BY DEF Of
<1>1. CASE objects \subseteq objects'
  BY <1>1 DEF Of
<1>2. CASE DeleteObjects
  BY <1>2 DEF DeleteObjects, IInv, TypeOK, BucketInv, EntryInv, DeletePC
<1>3. ASSUME NEW f \in Entries, DeleteEntryObjects(f) PROVE Of(e) \subseteq objects'
  <2>1. e # f
    BY <1>3 DEF DeleteEntryObjects, IInv, EntryInv
  <2>2. objects \ Listed(Prefix(f)) \subseteq objects'
    BY <1>3, PageStep DEF DeleteEntryObjects, IInv
  <2>. QED  BY <2>1, <2>2, ListedIsOwn DEF IInv, Of
<1>4. ASSUME ~DeleteObjects, \A f \in Entries : ~DeleteEntryObjects(f)
      PROVE  objects \subseteq objects'
  <2>1. CASE UNCHANGED vars \/ BucketWorker
    BY <1>4, <2>1 DEF vars, BucketWorker, Reconcile, CreateBucket, GetAndValidate, Annotate,
       WriteSecret, PublishStatus, StartBucketDelete, GetBucket, RemoveBucket, VerifyDeleted, DropSecret, cloud
  <2>2. CASE Gdc \/ NewBucket \/ DeleteBucket \/ LoseCreds \/ GdcUnready \/ CallFails \/ Restart
    BY <2>2 DEF Gdc, GdcReady, GdcVanishes, Expire, NewBucket, DeleteBucket, LoseCreds, GdcUnready,
       CallFails, Restart, cloud
  <2>3. CASE \E f \in Entries : EntryWorker(f)
    BY <1>4, <2>3 DEF EntryWorker, StartEntryDelete, GetBucketMetadata, FinishEntry
  <2>4. CASE \E f \in Entries : Gardener(f)
    BY <2>4 DEF Gardener, CreateEntry, StopEtcd, DeleteEntry, EnsureETCDBackup, Upload, Collect, cloud
  <2>. QED  BY <2>1, <2>2, <2>3, <2>4 DEF Next
<1>. QED  BY <1>1, <1>2, <1>3, <1>4

(* Every step keeps what the worker of the BackupBucket relies on.          *)
LEMMA BucketStep ==
  ASSUME IInv, [Next]_vars
  PROVE  BucketInv'
<1>. USE DEF IInv, TypeOK, BucketInv, ReconcilePC, DeletePC
<1>1. CASE Reconcile \/ CreateBucket \/ GetAndValidate
  BY <1>1 DEF Reconcile, CreateBucket, GetAndValidate, Valid, Missing, cloud, bstep
<1>2. CASE Annotate \/ WriteSecret \/ PublishStatus
  BY <1>2 DEF Annotate, WriteSecret, PublishStatus, cloud, bstep
<1>3. CASE StartBucketDelete \/ GetBucket
  BY <1>3 DEF StartBucketDelete, GetBucket, cloud, bstep
<1>4. CASE DeleteObjects
  <2>1. bjob' \in {"delete", "objects", "idle"}
    BY <1>4, PageStep DEF DeleteObjects
  <2>. QED  BY <1>4, <2>1 DEF DeleteObjects, bstep
<1>5. CASE RemoveBucket \/ VerifyDeleted \/ DropSecret
  BY <1>5 DEF RemoveBucket, VerifyDeleted, DropSecret, cloud, bstep
<1>6. CASE NewBucket \/ DeleteBucket \/ LoseCreds
  BY <1>6 DEF NewBucket, DeleteBucket, LoseCreds, cloud
<1>7. CASE GdcReady \/ GdcUnready
  <2>1. CASE GdcReady
    BY <2>1 DEF GdcReady, crs
  <2>2. CASE GdcUnready
    BY <2>2 DEF GdcUnready, crs
  <2>. QED  BY <1>7, <2>1, <2>2
<1>8. CASE GdcVanishes \/ Expire
  BY <1>8 DEF GdcVanishes, Expire, Missing, crs
<1>9. CASE CallFails \/ Restart
  BY <1>9 DEF CallFails, Restart, crs, cloud
<1>10. CASE \E e \in Entries : EntryWorker(e)
  BY <1>10 DEF EntryWorker, StartEntryDelete, GetBucketMetadata, DeleteEntryObjects, FinishEntry, estep
<1>11. CASE \E e \in Entries : Gardener(e)
  BY <1>11 DEF Gardener, CreateEntry, StopEtcd, DeleteEntry, EnsureETCDBackup, Upload, Collect, crs, cloud
<1>12. CASE UNCHANGED vars
  BY <1>12 DEF vars
<1>. QED  BY <1>1, <1>2, <1>3, <1>4, <1>5, <1>6, <1>7, <1>8, <1>9, <1>10, <1>11, <1>12
          DEF Next, BucketWorker, Gdc

(* Every step keeps what the workers of the BackupEntries rely on.          *)
LEMMA EntryStep ==
  ASSUME IInv, [Next]_vars
  PROVE  EntryInv'
<1>. USE DEF EntryInv, TypeOK, Of
<1>1. ASSUME UNCHANGED <<objects, entry, etcd, ejob>>, gdc'.st = "absent" => gdc.st = "absent",
             bucket'.phase # "live" => bucket.phase # "live"
      PROVE  EntryInv'
  BY <1>1 DEF IInv
<1>2. CASE BucketWorker
  <2>1. CASE DeleteObjects
    <3>1. objects' \subseteq objects
      BY <2>1, PageStep DEF DeleteObjects, IInv
    <3>. QED  BY <2>1, <3>1 DEF DeleteObjects, bstep, IInv
  <2>2. CASE StartBucketDelete \/ DropSecret
    BY <2>2 DEF StartBucketDelete, DropSecret, IInv, BucketInv, DeletePC, bstep, cloud
  <2>3. CASE Reconcile \/ CreateBucket \/ GetAndValidate \/ Annotate \/ WriteSecret \/ PublishStatus
    BY <1>1, <2>3 DEF Reconcile, CreateBucket, GetAndValidate, Annotate, WriteSecret, PublishStatus,
       IInv, Missing, bstep, cloud
  <2>4. CASE GetBucket \/ RemoveBucket \/ VerifyDeleted
    BY <1>1, <2>4 DEF GetBucket, RemoveBucket, VerifyDeleted, IInv, bstep, cloud
  <2>. QED  BY <1>2, <2>1, <2>2, <2>3, <2>4 DEF BucketWorker
<1>3. CASE Gdc \/ GdcUnready
  <2>1. CASE GdcVanishes
    BY <2>1 DEF GdcVanishes, IInv, Missing, crs
  <2>2. CASE GdcReady \/ GdcUnready \/ Expire
    BY <1>1, <2>2 DEF GdcReady, GdcUnready, Expire, IInv, crs
  <2>. QED  BY <1>3, <2>1, <2>2 DEF Gdc
<1>4. CASE NewBucket \/ DeleteBucket \/ LoseCreds
  BY <1>4 DEF NewBucket, DeleteBucket, LoseCreds, IInv, cloud
<1>5. CASE CallFails \/ Restart
  BY <1>5 DEF CallFails, Restart, IInv, crs, cloud
<1>6. ASSUME NEW e \in Entries, EntryWorker(e) PROVE EntryInv'
  <2>1. CASE StartEntryDelete(e)
    BY <2>1 DEF StartEntryDelete, IInv, estep
  <2>2. CASE GetBucketMetadata(e)
    BY <2>2 DEF GetBucketMetadata, IInv, estep
  <2>3. CASE DeleteEntryObjects(e)
    <3>1. PICK pc \in {"done", "objects", "idle"} :
            /\ DeletePage(Prefix(e), pc, "done", "objects", "idle")
            /\ ejob' = [ejob EXCEPT ![e] = pc]
      BY <2>3 DEF DeleteEntryObjects
    <3>2. objects' \subseteq objects /\ (pc = "done" => objects' = objects \ Listed(Prefix(e)))
      BY <3>1, PageStep DEF IInv
    <3>3. pc = "done" => Of(e)' = {}
      BY <3>2, ListedIsOwn DEF IInv
    <3>. QED  BY <2>3, <3>1, <3>2, <3>3 DEF DeleteEntryObjects, IInv, estep
  <2>4. CASE FinishEntry(e)
    BY <2>4 DEF FinishEntry, IInv, estep
  <2>. QED  BY <1>6, <2>1, <2>2, <2>3, <2>4 DEF EntryWorker
<1>7. ASSUME NEW e \in Entries, Gardener(e) PROVE EntryInv'
  <2>1. CASE CreateEntry(e) \/ StopEtcd(e)
    BY <2>1 DEF CreateEntry, StopEtcd, IInv, cloud
  <2>2. CASE DeleteEntry(e) \/ EnsureETCDBackup(e)
    BY <2>2 DEF DeleteEntry, EnsureETCDBackup, IInv, cloud
  <2>3. CASE Upload(e) \/ Collect(e)
    <3>1. /\ gdc.st = "present" /\ e \in etcd /\ UNCHANGED <<gdc, bucket, entry, etcd, ejob>>
          /\ \A o \in objects' : o \in objects \/ o.key = Folder(e)
      <4>1. CASE Upload(e)
        BY <4>1 DEF Upload, crs
      <4>2. CASE Collect(e)
        BY <4>2 DEF Collect, crs
      <4>. QED  BY <2>3, <4>1, <4>2
    <3>2. \A f \in Entries \ {e} : Folder(f) # Folder(e)
      BY SameFolder
    <3>. QED  BY <3>1, <3>2 DEF IInv
  <2>. QED  BY <1>7, <2>1, <2>2, <2>3 DEF Gardener
<1>8. CASE UNCHANGED vars
  BY <1>8 DEF vars, IInv
<1>. QED  BY <1>2, <1>3, <1>4, <1>5, <1>6, <1>7, <1>8 DEF Next

(* The inductive invariant holds in every reachable state.                  *)
LEMMA Invariant == Spec => []IInv
<1>1. Init => IInv
  BY DEF Init, IInv, TypeOK, BucketInv, EntryInv, ReconcilePC, DeletePC, Missing, Of
<1>2. IInv /\ [Next]_vars => IInv'
  BY TypeStep, BucketStep, EntryStep DEF IInv
<1>. QED  BY <1>1, <1>2, PTL DEF Spec

(* Reconcile publishes only what is complete, and it stays so: the annotation *)
(* and the secret are written from a bucket that was valid, and no deletion *)
(* is under way while the BackupBucket lives.                               *)
THEOREM Published == Spec => []PublishedIsUsable
<1>1. IInv => PublishedIsUsable
  BY DEF IInv, BucketInv, PublishedIsUsable
<1>. QED  BY <1>1, Invariant, PTL

(* Delete drops the generated secret only after Get has said NotFound, and no *)
(* reconcile creates the bucket again once the BackupBucket is gone.        *)
THEOREM SecretOutlives == Spec => []SecretOutlivesBucket
<1>1. IInv => SecretOutlivesBucket
  BY DEF IInv, BucketInv, SecretOutlivesBucket
<1>. QED  BY <1>1, Invariant, PTL

(* A deletion that is reported done has left nothing, whatever the page size *)
(* and the retention: the last page was all that was listed and none locked. *)
THEOREM Gone == Spec => []GoneIsGone
<1>1. IInv => GoneIsGone
  BY DEF IInv, BucketInv, EntryInv, GoneIsGone
<1>. QED  BY <1>1, Invariant, PTL

(* The prefix of one entry's deletion reaches no other entry's objects, also  *)
(* when one shoot's name begins the other's.                                *)
THEOREM OthersStayInSpec == Spec => OthersBackupsStay
<1>1. IInv /\ [Next]_vars
      => [\A e \in Entries : entry[e] = "live" => Of(e) \subseteq {o \in objects' : o.key = Folder(e)}]_vars
  BY OthersStay
<1>. QED  BY <1>1, Invariant, PTL DEF Spec, OthersBackupsStay
=============================================================================
