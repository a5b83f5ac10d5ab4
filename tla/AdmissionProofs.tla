--------------------------- MODULE AdmissionProofs ---------------------------
(***************************************************************************)
(* Proofs about the webhooks of shoots, seeds and cloud profiles, for any   *)
(* shoots, configurations, key secrets, bucket names and profiles.         *)
(***************************************************************************)
EXTENDS CloudProfiles, ShootAdmission, SeedBackup, FiniteSetTheorems, SequenceTheorems, TLAPS

---------------------------------------------------------------------------
(* Shoots *)

(* An update the webhook admits, the migration from parentSubnet to          *)
(* parentReference included, leaves alone all that the root subnet is made  *)
(* from.  Proved of the rules themselves, for any two configurations.       *)
LEMMA UpdateKeepsRootKey ==
  ASSUME NEW old \in Config, NEW new \in Config, UpdateOK(old, new)
  PROVE  RootKey(new) = RootKey(old)
<1>1. new.nodeCIDR = old.nodeCIDR
  BY DEF UpdateOK
<1>2. CASE old.ref # None
  BY <1>1, <1>2 DEF UpdateOK, ReferenceUpdateOK, RootKey
<1>3. CASE old.ref = None /\ new.ref = None
  BY <1>1, <1>3 DEF UpdateOK, IsMigration, LegacyFieldsOK, RootKey
<1>4. CASE old.ref = None /\ new.ref # None
  <2>1. IsMigration(old, new)
    BY <1>4 DEF UpdateOK, ReferenceUpdateOK
  <2>2. new.ref.name = old.parentSubnet /\ new.ref.ns = old.parentProject
    BY <2>1 DEF UpdateOK, MigrationOK
  <2>. QED  BY <1>1, <1>4, <2>2 DEF RootKey
<1>. QED  BY <1>2, <1>3, <1>4

(* Only submitted configurations are ever stored, cached or under way.      *)
LEMMA TypeStep == TypeOK /\ [Next]_vars => TypeOK'
<1>. SUFFICES ASSUME TypeOK, [Next]_vars PROVE TypeOK'
  OBVIOUS
<1>1. ASSUME NEW s \in Shoots, NEW c \in Configs, Validate(s, c) PROVE TypeOK'
  BY <1>1 DEF Validate, Missed, TypeOK
<1>2. ASSUME NEW s \in Shoots, Store(s) PROVE TypeOK'
  BY <1>2 DEF Store, TypeOK
<1>3. ASSUME NEW s \in Shoots, Purge(s) PROVE TypeOK'
  BY <1>3 DEF Purge, TypeOK
<1>4. ASSUME NEW s \in Shoots, Sync(s) PROVE TypeOK'
  BY <1>4 DEF Sync, TypeOK
<1>5. CASE UNCHANGED vars
  BY <1>5 DEF vars, TypeOK
<1>. QED  BY <1>1, <1>2, <1>3, <1>4, <1>5 DEF Next

(* What is admitted is checked against what it replaces.                    *)
LEMMA PendingStep == TypeOK /\ PendingInv /\ [Next]_vars => PendingInv'
<1>. SUFFICES ASSUME TypeOK, PendingInv, [Next]_vars, NEW t \in Shoots,
                     pending'[t] # None, stored'[t] # None
              PROVE  pending'[t] = stored'[t] \/ UpdateOK(stored'[t], pending'[t])
  BY DEF PendingInv
<1>1. ASSUME NEW s \in Shoots, NEW c \in Configs, Validate(s, c)
      PROVE  pending'[t] = stored'[t] \/ UpdateOK(stored'[t], pending'[t])
  BY <1>1 DEF Validate, TypeOK, PendingInv
<1>2. ASSUME NEW s \in Shoots, Store(s) \/ Purge(s) \/ Sync(s)
      PROVE  pending'[t] = stored'[t] \/ UpdateOK(stored'[t], pending'[t])
  BY <1>2 DEF Store, Purge, Sync, TypeOK, PendingInv
<1>3. CASE UNCHANGED vars
  BY <1>3 DEF vars, PendingInv
<1>. QED  BY <1>1, <1>2, <1>3 DEF Next

(* Only submitted configurations are ever stored, cached or under way, and   *)
(* what is under way was admitted against what is stored.                   *)
THEOREM AdmissionInvariant == Spec => []AdmissionInv
<1>1. Init => AdmissionInv
  BY DEF Init, TypeOK, PendingInv, AdmissionInv
<1>2. AdmissionInv /\ [Next]_vars => AdmissionInv'
  BY TypeStep, PendingStep DEF AdmissionInv
<1>. QED  BY <1>1, <1>2, PTL DEF Spec

(* No sequence of admitted updates ever changes the root subnet a shoot asks *)
(* for: the assumption StableRoot of the infrastructure controller.         *)
THEOREM RootKeyStays == Spec => RootKeyImmutable
<1>. DEFINE Kept == \A s \in Shoots : stored[s] # None /\ stored'[s] # None
                      => RootKey(stored'[s]) = RootKey(stored[s])
<1>1. TypeOK /\ PendingInv /\ [Next]_vars => Kept
  <2>. SUFFICES ASSUME TypeOK, PendingInv, [Next]_vars, NEW t \in Shoots,
                       stored[t] # None, stored'[t] # None
                PROVE  RootKey(stored'[t]) = RootKey(stored[t])
    OBVIOUS
  <2>1. CASE stored'[t] = stored[t]
    BY <2>1
  <2>2. CASE stored'[t] # stored[t]
    <3>1. Store(t)
      BY <2>2 DEF Next, Validate, Store, Purge, Sync, TypeOK, vars
    <3>2. stored'[t] = pending[t] /\ pending[t] # None
      BY <3>1 DEF Store, TypeOK
    <3>3. stored[t] \in Config /\ pending[t] \in Config
      BY <3>2, ConfigAssumption DEF TypeOK
    <3>4. UpdateOK(stored[t], pending[t])
      BY <2>2, <3>2 DEF PendingInv
    <3>. QED  BY <3>2, <3>3, <3>4, UpdateKeepsRootKey
  <2>. QED  BY <2>1, <2>2
<1>2. AdmissionInv /\ [Next]_vars => [Kept]_vars
  BY <1>1 DEF AdmissionInv
<1>3. RootKeyImmutable <=> [][Kept]_vars
  BY DEF RootKeyImmutable
<1>. QED  BY <1>2, <1>3, AdmissionInvariant, PTL DEF Spec

---------------------------------------------------------------------------
(* Node networks *)

(* What a shoot holds of the address space: its stored configuration, and    *)
(* the one that is about to replace it.                                     *)
Held(s) == {stored[s], pending[s]} \ {None}

(* The inductive form of OverlapOnlyUnseen: it speaks of admitted requests   *)
(* too, which take their addresses when the webhook lets them through.      *)
HeldInv == \A s, t \in Shoots : NameOf[s] # NameOf[t] =>
  \A c \in Held(s), d \in Held(t) :
    Overlap(c.nodeCIDR, d.nodeCIDR) => t \in unseen[s] \/ s \in unseen[t]

(* Overlap is symmetric, and so is what is claimed of it.                    *)
LEMMA OverlapSymmetric == \A c, d : Overlap(c, d) <=> Overlap(d, c)
BY DEF Overlap

(* A shoot the webhook has seen as it is, with nothing under way, has no      *)
(* address in common with what the webhook admits for another name; what is *)
(* admitted has the node network of what it replaces.                       *)
LEMMA AdmittedIsApart ==
  ASSUME AdmissionInv, NEW s \in Shoots, NEW c \in Configs, Validate(s, c),
         NEW t \in Shoots, NameOf[s] # NameOf[t], t \notin unseen'[s],
         NEW e \in Held(s)', NEW d \in Held(t)'
  PROVE  ~Overlap(e.nodeCIDR, d.nodeCIDR)
<1>1. s # t /\ cache[t] = stored[t] /\ pending[t] = None
  BY DEF AdmissionInv, TypeOK, Validate, Missed
<1>2. d = cache[t] /\ d # None
  BY <1>1 DEF AdmissionInv, TypeOK, Validate, Held
<1>3. ~Overlap(c.nodeCIDR, d.nodeCIDR)
  BY <1>2 DEF Validate, NodeCIDRNotOverlap
<1>4. e.nodeCIDR = c.nodeCIDR
  <2>1. e = c \/ (e = stored[s] /\ stored[s] # None)
    BY DEF AdmissionInv, TypeOK, Validate, Held
  <2>. QED  BY <2>1 DEF Validate, UpdateOK
<1>. QED  BY <1>3, <1>4

(* A write admitted, stored, removed or seen by the cache adds no overlap     *)
(* that its admission could have noticed.                                    *)
LEMMA HeldStep == AdmissionInv /\ HeldInv /\ [Next]_vars => HeldInv'
<1>. SUFFICES ASSUME AdmissionInv, HeldInv, [Next]_vars,
                     NEW s \in Shoots, NEW t \in Shoots, NameOf[s] # NameOf[t],
                     NEW e \in Held(s)', NEW d \in Held(t)', Overlap(e.nodeCIDR, d.nodeCIDR)
              PROVE  t \in unseen'[s] \/ s \in unseen'[t]
  BY DEF HeldInv
<1>1. ASSUME NEW q \in Shoots, NEW c \in Configs, Validate(q, c)
      PROVE  t \in unseen'[s] \/ s \in unseen'[t]
  <2>1. CASE q = s
    BY <1>1, <2>1, AdmittedIsApart
  <2>2. CASE q = t
    BY <1>1, <2>2, AdmittedIsApart, OverlapSymmetric
  <2>3. CASE q # s /\ q # t
    <3>1. /\ Held(s)' = Held(s) /\ Held(t)' = Held(t)
          /\ unseen'[s] = unseen[s] /\ unseen'[t] = unseen[t]
      BY <1>1, <2>3 DEF Validate, Held, AdmissionInv, TypeOK
    <3>. QED  BY <3>1 DEF HeldInv
  <2>. QED  BY <2>1, <2>2, <2>3
<1>2. ASSUME NEW q \in Shoots, Store(q) \/ Purge(q) \/ Sync(q)
      PROVE  t \in unseen'[s] \/ s \in unseen'[t]
  <2>1. Held(s)' \subseteq Held(s) /\ Held(t)' \subseteq Held(t) /\ unseen' = unseen
    BY <1>2 DEF Store, Purge, Sync, Held, AdmissionInv, TypeOK
  <2>. QED  BY <2>1 DEF HeldInv
<1>3. CASE UNCHANGED vars
  BY <1>3 DEF vars, Held, HeldInv
<1>. QED  BY <1>1, <1>2, <1>3 DEF Next

(* For any shoots, names and CIDRs, and however the cache lags and requests   *)
(* interleave: the overlap check lets two node networks overlap only for a   *)
(* shoot that one of the two admissions did not see as it is.               *)
THEOREM OverlapsOnlyUnseen == Spec => []OverlapOnlyUnseen
<1>1. Init => HeldInv
  BY DEF Init, HeldInv, Held
<1>2. HeldInv => OverlapOnlyUnseen
  BY DEF HeldInv, Held, OverlapOnlyUnseen
<1>. QED  BY <1>1, <1>2, HeldStep, AdmissionInvariant, PTL DEF Spec
---------------------------------------------------------------------------
(* Seeds *)
BackupBucket == [phase : {"none", "live", "deleting", "gone"}, spec : BackupConfigs \cup {Nil},
                 work : {"idle", "create", "publish"}, snap : BackupConfigs \cup {Nil}]
STypeOK ==
  /\ seed \in BackupConfigs \cup {NoBackup} /\ overridden \in BOOLEAN
  /\ bb \in BackupBucket /\ creds \in BOOLEAN
  /\ gdcBuckets \in [Kinds -> Int \cup {Nil}]
  /\ secrets \in [exist : SUBSET KeySecrets, readable : SUBSET KeySecrets]
  /\ DOMAIN container = Buckets

(* Without an override there is one config, from the seed to the bucket: the  *)
(* BackupBucket has it, the worker has taken it up, and of the GDC buckets    *)
(* only one of its kind can be there, while the BackupBucket is, or because  *)
(* its secret was gone before it.                                            *)
ConfigInv == ~overridden =>
  /\ bb.phase # "none" => seed # NoBackup /\ bb.spec = seed
  /\ bb.work # "idle" => bb.phase \in {"live", "deleting"} /\ bb.snap = seed
  /\ \A k \in Kinds : gdcBuckets[k] # Nil =>
       /\ bb.phase \in {"live", "deleting"} \/ (bb.phase = "gone" /\ ~creds)
       /\ k = KindOf(seed)
       /\ gdcBuckets[k] >= EffectiveRetentionDays(seed)

SIInv == STypeOK /\ ConfigInv /\ KeysAreOwn /\ EtcdKeepsBucket

(* The retention of a config, given or not, is a number of days.              *)
LEMMA RetentionDays ==
  ASSUME NEW c \in BackupConfigs \cup {Nil}
  PROVE  EffectiveRetentionDays(c) \in Int
BY BackupConfigsAssumption DEF BackupBucketConfig, EffectiveRetentionDays, DefaultObjectRetentionDays

(* A BackupBucket is updated field by field.                                  *)
LEMMA BackupBucketUpdate ==
  ASSUME NEW b \in BackupBucket, NEW p \in {"none", "live", "deleting", "gone"},
         NEW w \in {"idle", "create", "publish"}, NEW c \in BackupConfigs \cup {Nil}
  PROVE  /\ [b EXCEPT !.phase = p] \in BackupBucket /\ [b EXCEPT !.work = w] \in BackupBucket
         /\ [b EXCEPT !.phase = p, !.spec = c] \in BackupBucket
         /\ [b EXCEPT !.work = w, !.snap = c] \in BackupBucket
<1>1. [b EXCEPT !.phase = p] \in BackupBucket /\ [b EXCEPT !.work = w] \in BackupBucket
  BY DEF BackupBucket
<1>2. [b EXCEPT !.phase = p, !.spec = c] \in BackupBucket
  BY DEF BackupBucket
<1>3. [b EXCEPT !.work = w, !.snap = c] \in BackupBucket
  BY DEF BackupBucket
<1>. QED  BY <1>1, <1>2, <1>3

(* Every step respects the types.                                             *)
LEMMA STypeStep ==
  ASSUME SIInv, [SNext]_svars
  PROVE  STypeOK'
<1>. USE DEF SIInv, STypeOK
<1>1. ASSUME NEW c \in BackupConfigs, NEW o \in BOOLEAN, WriteSeed(c, o) PROVE STypeOK'
  BY <1>1 DEF WriteSeed
<1>2. ASSUME SwitchUrl PROVE STypeOK'
  BY <1>2 DEF SwitchUrl
<1>3. ASSUME CopyConfig \/ DeleteSeedBucket \/ TakeUpBucket \/ DropWork PROVE STypeOK'
  <2>1. bb' \in BackupBucket
    <3>1. CASE CopyConfig
      BY <3>1, BackupBucketUpdate DEF CopyConfig
    <3>2. CASE DeleteSeedBucket
      BY <3>2, BackupBucketUpdate DEF DeleteSeedBucket
    <3>3. CASE TakeUpBucket
      <4>1. bb.spec \in BackupConfigs \cup {Nil}
        BY DEF BackupBucket
      <4>. QED  BY <3>3, <4>1, BackupBucketUpdate DEF TakeUpBucket
    <3>4. CASE DropWork
      BY <3>4, BackupBucketUpdate DEF DropWork
    <3>. QED  BY <1>3, <3>1, <3>2, <3>3, <3>4
  <2>. QED  BY <1>3, <2>1 DEF CopyConfig, DeleteSeedBucket, TakeUpBucket, DropWork
<1>4. ASSUME CreateIfNotExists PROVE STypeOK'
  <2>1. bb.snap \in BackupConfigs \cup {Nil} /\ LockingPolicy(bb.snap) \in Int
    BY RetentionDays DEF BackupBucket, LockingPolicy
  <2>2. bb' \in BackupBucket
    BY <1>4, BackupBucketUpdate DEF CreateIfNotExists
  <2>. QED  BY <1>4, <2>1, <2>2 DEF CreateIfNotExists
<1>5. ASSUME PublishKeys PROVE STypeOK'
  <2>1. bb' \in BackupBucket
    BY <1>5, BackupBucketUpdate DEF PublishKeys
  <2>. QED  BY <1>5, <2>1 DEF PublishKeys
<1>6. ASSUME DeleteGdcBucket PROVE STypeOK'
  <2>1. bb' \in BackupBucket
    BY <1>6, BackupBucketUpdate DEF DeleteGdcBucket
  <2>. QED  BY <1>6, <2>1 DEF DeleteGdcBucket
<1>7. ASSUME NEW k \in Kinds, RaiseRetention(k) PROVE STypeOK'
  BY <1>7 DEF RaiseRetention
<1>8. ASSUME NEW s \in KeySecrets, Rotate(s) PROVE STypeOK'
  BY <1>8 DEF Rotate
<1>9. ASSUME NEW b \in Buckets, MutateEtcd(b) PROVE STypeOK'
  BY <1>9 DEF MutateEtcd
<1>10. ASSUME LoseSecret PROVE STypeOK'
  BY <1>10 DEF LoseSecret
<1>11. ASSUME UNCHANGED svars PROVE STypeOK'
  BY <1>11 DEF svars
<1>. QED  BY <1>1, <1>2, <1>3, <1>4, <1>5, <1>6, <1>7, <1>8, <1>9, <1>10, <1>11 DEF SNext

(* No step lets config, BackupBucket and GDC bucket drift apart, unless the   *)
(* validator was overridden.                                                 *)
LEMMA ConfigStep ==
  ASSUME SIInv, [SNext]_svars
  PROVE  ConfigInv'
<1>. USE DEF SIInv, STypeOK, ConfigInv, BackupBucket
<1>1. ASSUME NEW c \in BackupConfigs, NEW o \in BOOLEAN, WriteSeed(c, o) PROVE ConfigInv'
  <2>. SUFFICES ASSUME ~overridden' PROVE ConfigInv'
    OBVIOUS
  <2>1. ~overridden /\ SeedUpdateOK(seed, c, FALSE)
    BY <1>1 DEF WriteSeed, SeedUpdateOK
  <2>2. seed = NoBackup \/ c = seed
    BY <2>1 DEF SeedUpdateOK
  <2>3. seed = NoBackup => bb.phase = "none"
    BY <2>1
  <2>. QED  BY <1>1, <2>1, <2>2, <2>3 DEF WriteSeed
<1>2. ASSUME UNCHANGED <<seed, overridden, creds, bb, gdcBuckets>> PROVE ConfigInv'
  BY <1>2
<1>3. ASSUME CopyConfig PROVE ConfigInv'
  BY <1>3 DEF CopyConfig
<1>4. ASSUME DeleteSeedBucket PROVE ConfigInv'
  BY <1>4 DEF DeleteSeedBucket
<1>5. ASSUME TakeUpBucket PROVE ConfigInv'
  BY <1>5 DEF TakeUpBucket
<1>6. ASSUME CreateIfNotExists PROVE ConfigInv'
  <2>. SUFFICES ASSUME ~overridden PROVE ConfigInv'
    BY <1>6 DEF CreateIfNotExists
  <2>1. bb.snap = seed /\ bb.phase \in {"live", "deleting"} /\ seed \in BackupConfigs
    BY <1>6 DEF CreateIfNotExists
  <2>2. EffectiveRetentionDays(seed) \in Int
    BY <2>1, RetentionDays
  <2>3. /\ gdcBuckets' = [gdcBuckets EXCEPT ![KindOf(seed)] =
                            IF @ = Nil THEN EffectiveRetentionDays(seed) ELSE @]
        /\ bb'.phase = bb.phase /\ bb'.spec = bb.spec /\ bb'.snap = bb.snap
        /\ UNCHANGED <<seed, overridden, creds>>
    BY <1>6, <2>1 DEF CreateIfNotExists, LockingPolicy
  <2>4. \A k \in Kinds : gdcBuckets'[k] # Nil =>
          k = KindOf(seed) /\ gdcBuckets'[k] >= EffectiveRetentionDays(seed)
    BY <2>2, <2>3
  <2>. QED  BY <2>1, <2>3, <2>4
<1>7. ASSUME PublishKeys \/ DropWork PROVE ConfigInv'
  BY <1>7 DEF PublishKeys, DropWork
<1>8. ASSUME DeleteGdcBucket PROVE ConfigInv'
  BY <1>8 DEF DeleteGdcBucket
<1>9. ASSUME NEW k \in Kinds, RaiseRetention(k) PROVE ConfigInv'
  <2>. SUFFICES ASSUME ~overridden, gdcBuckets[k] # Nil PROVE ConfigInv'
    BY <1>9 DEF RaiseRetention
  <2>1. k = KindOf(seed) /\ gdcBuckets[k] >= EffectiveRetentionDays(seed)
    OBVIOUS
  <2>2. EffectiveRetentionDays(seed) \in Int /\ gdcBuckets[k] \in Int
    BY RetentionDays
  <2>3. gdcBuckets[k] + 1 >= EffectiveRetentionDays(seed)
    BY <2>1, <2>2
  <2>. QED  BY <1>9, <2>1, <2>3 DEF RaiseRetention
<1>10. ASSUME LoseSecret PROVE ConfigInv'
  BY <1>10 DEF LoseSecret
<1>. QED
  BY <1>1, <1>2, <1>3, <1>4, <1>5, <1>6, <1>7, <1>8, <1>9, <1>10
  DEF SNext, SwitchUrl, Rotate, MutateEtcd, svars

(* Only a match is published, and each match belongs to the account.          *)
LEMMA KeysStep ==
  ASSUME SIInv, [SNext]_svars
  PROVE  KeysAreOwn'
<1>. USE DEF SIInv, KeysAreOwn
<1>1. \A s \in AccessKeys : s.owner = Account
  BY KeySecretsAssumption
  DEF STypeOK, AccessKeys, Found, ProjectMatches, SharedMatches, Candidates, Subject
<1>2. ASSUME PublishKeys PROVE KeysAreOwn'
  BY <1>1, <1>2 DEF PublishKeys
<1>3. ASSUME published' \in {published, Nil} PROVE KeysAreOwn'
  BY <1>3
<1>. QED
  BY <1>2, <1>3
  DEF SNext, WriteSeed, SwitchUrl, Rotate, CopyConfig, DeleteSeedBucket, TakeUpBucket,
      CreateIfNotExists, DropWork, LoseSecret, DeleteGdcBucket, RaiseRetention, MutateEtcd, svars

(* What comes after the first element of a sequence is contained in it.       *)
LEMMA TailHasInfix ==
  ASSUME NEW S, NEW a \in S, NEW t \in Seq(S)
  PROVE  HasInfix(<<a>> \o t, t)
<1>. DEFINE f == <<a>> \o t
<1>1. f \in Seq(S) /\ Len(f) = Len(t) + 1 /\ \A i \in 1..Len(t) : f[i + 1] = t[i]
  OBVIOUS
<1>2. Len(t) \in Nat /\ t = [i \in 1..Len(t) |-> t[i]]
  OBVIOUS
<1>. HIDE DEF f
<1>3. SubSeq(f, 2, Len(t) + 1) = t
  <2>1. SubSeq(f, 2, Len(t) + 1) = [i \in 1..Len(t) |-> f[i + 1]]
    BY <1>1, <1>2
  <2>. QED  BY <1>1, <1>2, <2>1
<1>4. 1 \in 0..(Len(f) - Len(t)) /\ SubSeq(f, 1 + 1, 1 + Len(t)) = t
  BY <1>1, <1>2, <1>3
<1>. QED  BY <1>4 DEF HasInfix, f

(* The fully qualified name of a bucket contains its name.                    *)
LEMMA FqnHasInfix ==
  ASSUME NEW b \in Buckets
  PROVE  HasInfix(Fqn(b), b)
<1>. DEFINE S == STRING \cup {"org-"}
<1>1. "org-" \in S /\ b \in Seq(STRING)
  BY BucketNamesAssumption
<1>2. b \in Seq(S)
  BY <1>1
<1>. HIDE DEF S
<1>3. HasInfix(<<"org-">> \o b, b)
  BY <1>1, <1>2, TailHasInfix
<1>. QED  BY <1>3 DEF Fqn

(* A webhook's list has no other bucket that matches what it looks for.       *)
LEMMA EtcdStep ==
  ASSUME SIInv, [SNext]_svars
  PROVE  EtcdKeepsBucket'
<1>. USE DEF SIInv, EtcdKeepsBucket
<1>1. ASSUME NEW b \in Buckets, MutateEtcd(b) PROVE EtcdKeepsBucket'
  <2>1. PICK c \in {b, container[b]} \ {Nil}, m \in Buckets :
          Matches(m, c) /\ container' = [container EXCEPT ![b] = Fqn(m)]
    BY <1>1 DEF MutateEtcd
  <2>2. ASSUME \A o \in Buckets \ {b} : ~EitherContains(o, b) /\ ~EitherContains(o, Fqn(b))
        PROVE  m = b
    <3>1. c \in {b, Fqn(b)}
      BY <2>2
    <3>2. ~(m # b /\ EitherContains(m, c))
      BY <2>2, <3>1
    <3>3. ~(m # b /\ Fqn(m) = c)
      <4>1. HasInfix(Fqn(m), m)
        BY FqnHasInfix
      <4>2. Fqn(m) = c => EitherContains(m, c)
        BY <4>1 DEF EitherContains
      <4>. QED  BY <3>2, <4>2
    <3>. QED  BY <2>1, <3>2, <3>3 DEF Matches
  <2>. QED  BY <2>1, <2>2 DEF STypeOK
<1>2. ASSUME UNCHANGED container PROVE EtcdKeepsBucket'
  BY <1>2
<1>. QED
  BY <1>1, <1>2
  DEF SNext, WriteSeed, SwitchUrl, Rotate, CopyConfig, DeleteSeedBucket, TakeUpBucket,
      CreateIfNotExists, PublishKeys, DropWork, LoseSecret, DeleteGdcBucket, RaiseRetention, svars

(* The four hold in every state of a seed.                                    *)
LEMMA SInvariant == SSpec => []SIInv
<1>1. ASSUME SInit PROVE SIInv
  <2>1. /\ bb.phase = "none" /\ bb.work = "idle" /\ \A k \in Kinds : gdcBuckets[k] = Nil
        /\ published = Nil /\ \A b \in Buckets : container[b] = Nil
    BY <1>1 DEF SInit
  <2>2. STypeOK
    BY <1>1 DEF SInit, STypeOK, BackupBucket
  <2>. QED  BY <2>1, <2>2 DEF SIInv, ConfigInv, KeysAreOwn, EtcdKeepsBucket
<1>2. SIInv /\ [SNext]_svars => SIInv'
  BY STypeStep, ConfigStep, KeysStep, EtcdStep DEF SIInv
<1>. QED  BY <1>1, <1>2, PTL DEF SSpec

(* For any configs and any order of the seed's updates, the worker's steps and *)
(* Gardener's: without an override the bucket is what the seed asks for,      *)
(* because the validator admits no change once there is a config, and goes   *)
(* with the BackupBucket unless its secret was removed before.               *)
THEOREM SeedGetsItsBucket == SSpec => []BucketMatchesSeed
<1>1. SIInv => BucketMatchesSeed
  BY DEF SIInv, STypeOK, ConfigInv, BackupBucket, BucketMatchesSeed
<1>. QED  BY <1>1, SInvariant, PTL

(* For any key secrets, in any namespace and however they are rotated: none    *)
(* but the account's own is ever published.                                  *)
THEOREM PublishedKeysAreOwn == SSpec => []KeysAreOwn
<1>1. SIInv => KeysAreOwn
  BY DEF SIInv
<1>. QED  BY <1>1, SInvariant, PTL

(* For any names of buckets: however often the webhooks rewrite an Etcd, it   *)
(* keeps its own bucket when no other name is related to it.                 *)
THEOREM EtcdStaysInItsBucket == SSpec => []EtcdKeepsBucket
<1>1. SIInv => EtcdKeepsBucket
  BY DEF SIInv
<1>. QED  BY <1>1, SInvariant, PTL

---------------------------------------------------------------------------
(* Cloud profiles *)
Uses(u) == use[u] # Absent /\ use[u].kind = "NamespacedCloudProfile"

(* What is stored and what is under way are specs that were submitted.        *)
SubmittedInv ==
  /\ DOMAIN use = Users
  /\ profile # Absent => profile = [spec |-> profile.spec, deleting |-> profile.deleting]
  /\ profile # Absent => profile.spec \in NamespacedSpecs /\ profile.deleting \in BOOLEAN
  /\ request # Absent => request.spec \in NamespacedSpecs /\ request.deleting \in BOOLEAN

(* What is under way was admitted against the profile it replaces and against *)
(* every shoot the validator has not missed.                                 *)
KeepInv == request # Absent /\ profile # Absent =>
  \A u \in Users \ missed : Uses(u) =>
    /\ ~request.gone
    /\ use[u].k8s \in profile.spec.k8s => use[u].k8s \in request.spec.k8s
    /\ use[u].images \cap profile.spec.images \subseteq request.spec.images

PIInv == SubmittedInv /\ KeepInv

(* A request is admitted only if no shoot the validator sees loses a version. *)
LEMMA AdmitStep ==
  ASSUME PIInv, NEW req, Admit(req), req.spec \in NamespacedSpecs, req.deleting \in BOOLEAN,
         req.gone => profile # Absent /\ profile.deleting
  PROVE  PIInv'
<1>. USE DEF PIInv
<1>1. SubmittedInv'
  BY DEF Admit, SubmittedInv
<1>2. \A u \in Users \ missed' : useSeen[u] = use[u]
  BY DEF Admit
<1>3. KeepInv'
  <2>. SUFFICES ASSUME profile # Absent, NEW u \in Users \ missed', Uses(u)
                PROVE  /\ ~req.gone
                       /\ use[u].k8s \in profile.spec.k8s => use[u].k8s \in req.spec.k8s
                       /\ use[u].images \cap profile.spec.images \subseteq req.spec.images
    BY DEF Admit, KeepInv, Uses
  <2>1. References(u)
    BY <1>2 DEF References, Uses
  <2>2. ~profile.deleting /\ UpdateKeepsUsed(profile.spec, req.spec)
    BY <2>1 DEF Admit, DeletionOK
  <2>. QED  BY <1>2, <2>1, <2>2 DEF UpdateKeepsUsed, DeletedVersions
<1>. QED  BY <1>1, <1>3

(* No step leaves a request under way that would take a version from a shoot  *)
(* the validator has not missed.                                             *)
LEMMA KeepStep ==
  ASSUME PIInv, [PNext]_pvars
  PROVE  PIInv'
<1>. USE DEF PIInv, SubmittedInv, KeepInv, Uses
<1>1. ASSUME NEW s \in NamespacedSpecs, SubmitSpec(s) PROVE PIInv'
  <2>. DEFINE req == [spec |-> s, deleting |-> profile # Absent /\ profile.deleting, gone |-> FALSE]
  <2>1. Admit(req)
    BY <1>1 DEF SubmitSpec
  <2>2. req.spec = s /\ req.deleting = (profile # Absent /\ profile.deleting) /\ req.gone = FALSE
    OBVIOUS
  <2>3. req.deleting \in BOOLEAN
    BY <2>2
  <2>. HIDE DEF req
  <2>. QED  BY <2>1, <2>2, <2>3, AdmitStep
<1>2. ASSUME RemoveFinalizer PROVE PIInv'
  <2>. DEFINE req == [spec |-> profile.spec, deleting |-> TRUE, gone |-> TRUE]
  <2>1. Admit(req) /\ profile # Absent /\ profile.deleting
    BY <1>2 DEF RemoveFinalizer
  <2>2. req.spec = profile.spec /\ req.deleting = TRUE
    OBVIOUS
  <2>. HIDE DEF req
  <2>. QED  BY <2>1, <2>2, AdmitStep
<1>3. ASSUME StoreProfile PROVE PIInv'
  BY <1>3 DEF StoreProfile
<1>4. ASSUME MarkDeleted PROVE PIInv'
  BY <1>4 DEF MarkDeleted
<1>5. ASSUME NEW u \in Users, NEW x \in ShootUse, PlaceShoot(u, x) PROVE PIInv'
  BY <1>5 DEF PlaceShoot
<1>6. ASSUME NEW u \in Users, RemoveShoot(u) PROVE PIInv'
  BY <1>6 DEF RemoveShoot
<1>7. ASSUME UNCHANGED <<profile, request, use, missed>> PROVE PIInv'
  BY <1>7
<1>. QED
  BY <1>1, <1>2, <1>3, <1>4, <1>5, <1>6, <1>7
  DEF PNext, SubmitParent, MergeStatus, SeeParent, SeeShoot, pvars

(* Both hold in every state of a profile.                                     *)
LEMMA PInvariant == PSpec => []PIInv
<1>1. PInit => PIInv
  BY DEF PInit, PIInv, SubmittedInv, KeepInv
<1>2. PIInv /\ [PNext]_pvars => PIInv'
  BY KeepStep
<1>. QED  BY <1>1, <1>2, PTL DEF PSpec

(* For any profiles and shoots, and however the caches lag: the validator of   *)
(* namespaced cloud profiles lets no version and no profile go under a shoot   *)
(* that it has seen as it is, though the write it admits is stored later.     *)
THEOREM UsedVersionsStay == PSpec => UsedVersionStays
<1>. DEFINE Stays == \A u \in Users \ missed :
       use[u] # Absent /\ use[u].kind = "NamespacedCloudProfile" /\ profile # Absent =>
         /\ profile' # Absent
         /\ use[u].k8s \in profile.spec.k8s => use[u].k8s \in profile'.spec.k8s
         /\ use[u].images \cap profile.spec.images \subseteq profile'.spec.images
<1>1. PIInv /\ [PNext]_pvars => Stays
  <2>. SUFFICES ASSUME PIInv, [PNext]_pvars, profile # Absent PROVE Stays
    OBVIOUS
  <2>1. ASSUME UNCHANGED profile PROVE Stays
    BY <2>1
  <2>2. ASSUME StoreProfile PROVE Stays
    <3>1. request # Absent /\ request.spec \in NamespacedSpecs /\ request.deleting \in BOOLEAN
      BY <2>2 DEF StoreProfile, PIInv, SubmittedInv
    <3>2. ~request.gone => profile' = [spec |-> request.spec, deleting |-> request.deleting]
      BY <2>2 DEF StoreProfile
    <3>3. [spec |-> request.spec, deleting |-> request.deleting] # Absent
      BY <3>1, AbsentAssumption
    <3>4. ~request.gone => profile' # Absent /\ profile'.spec = request.spec
      BY <3>2, <3>3
    <3>. QED  BY <3>1, <3>4 DEF PIInv, KeepInv, Uses
  <2>3. ASSUME MarkDeleted PROVE Stays
    <3>1. profile' = [spec |-> profile.spec, deleting |-> TRUE] /\ profile.spec \in NamespacedSpecs
      BY <2>3 DEF MarkDeleted, PIInv, SubmittedInv
    <3>2. profile' # Absent /\ profile'.spec = profile.spec
      BY <3>1, AbsentAssumption
    <3>. QED  BY <3>2
  <2>. HIDE DEF Stays
  <2>. QED
    BY <2>1, <2>2, <2>3
    DEF PNext, SubmitParent, SubmitSpec, RemoveFinalizer, Admit, MergeStatus, PlaceShoot,
        RemoveShoot, SeeParent, SeeShoot, pvars
<1>2. PIInv /\ [PNext]_pvars => [Stays]_pvars
  BY <1>1
<1>. QED  BY <1>2, PInvariant, PTL DEF PSpec, UsedVersionStays

(* A set of naturals that is not empty has a least element, and a bounded     *)
(* one a greatest.                                                           *)
LEMMA Least ==
  ASSUME NEW S \in SUBSET Nat, S # {}
  PROVE  Min(S) \in S /\ \A y \in S : Min(S) <= y
<1>. DEFINE R == {p \in Nat \X Nat : p[1] < p[2]}
<1>1. IsWellFoundedOn(R, Nat)
  BY NatLessThanWellFounded, Zenon DEF OpToRel
<1>2. PICK x \in S : \A y \in S : ~(<<y, x>> \in R)
  BY <1>1, WFMin, Zenon
<1>3. ASSUME NEW y \in S PROVE x <= y
  <2>1. <<y, x>> \in R <=> y < x
    OBVIOUS
  <2>. QED  BY <1>2, <2>1
<1>. QED  BY <1>3 DEF Min

LEMMA Greatest ==
  ASSUME NEW n \in Nat, NEW S \in SUBSET (1..n), S # {}
  PROVE  Max(S) \in S
<1>. DEFINE T == {i \in Nat : i <= n /\ n - i \in S}
<1>1. PICK s \in S : TRUE
  OBVIOUS
<1>2. n - s \in T
  BY <1>1
<1>3. Min(T) \in T /\ \A y \in T : Min(T) <= y
  BY <1>2, Least
<1>4. \A s2 \in S : n - s2 \in T
  OBVIOUS
<1>5. n - Min(T) \in S /\ \A s2 \in S : n - Min(T) >= s2
  BY <1>3, <1>4
<1>. QED  BY <1>5 DEF Max

(* A finite set is listed by SetToSeq, every element once.                    *)
LEMMA Listed ==
  ASSUME NEW S, IsFiniteSet(S)
  PROVE  /\ Cardinality(S) \in Nat
         /\ SetToSeq(S) \in [1..Cardinality(S) -> S]
         /\ \A i, j \in 1..Cardinality(S) : SetToSeq(S)[i] = SetToSeq(S)[j] => i = j
         /\ \A x \in S : \E i \in 1..Cardinality(S) : SetToSeq(S)[i] = x
<1>. DEFINE n == Cardinality(S)
            D == 1..n
<1>1. n \in Nat /\ ExistsBijection(D, S)
  BY FS_CardinalityType
<1>2. PICK f \in [D -> S] : IsInjective(f)
  BY <1>1 DEF ExistsBijection, Bijection, Injection
<1>3. SetToSeq(S) \in [D -> S] /\ IsInjective(SetToSeq(S))
  BY <1>2 DEF SetToSeq
<1>4. SetToSeq(S) \in Injection(D, S)
  BY <1>3 DEF Injection
<1>5. IsFiniteSet(D) /\ Cardinality(D) = n
  BY <1>1, FS_Interval
<1>6. SetToSeq(S) \in Surjection(D, S)
  BY <1>4, <1>5, FS_Injection
<1>. QED  BY <1>1, <1>3, <1>6 DEF IsInjective, Surjection

(* The names of images are finitely many.                                     *)
LEMMA NamesFinite ==
  ASSUME NEW images \in Seq(MachineImages)
  PROVE  IsFiniteSet({i.name : i \in ToSet(images)})
<1>. DEFINE D == 1..Len(images)
            T == {i.name : i \in ToSet(images)}
            f == [k \in D |-> images[k].name]
<1>1. Len(images) \in Nat /\ DOMAIN images = D
  OBVIOUS
<1>2. IsFiniteSet(D)
  BY <1>1, FS_Interval
<1>3. f \in [D -> T] /\ \A t \in T : \E k \in D : f[k] = t
  BY <1>1 DEF ToSet
<1>4. f \in Surjection(D, T)
  BY <1>3 DEF Surjection
<1>. QED  BY <1>2, <1>4, FS_Surjection

(* The list has one entry of the name of e, whose mappings begin with e's.    *)
KeptFirst(m, e) ==
  /\ Len(m) \in Nat /\ DOMAIN m = 1..Len(m)
  /\ \A i \in 1..Len(m) : m[i].versions \in Seq(Mapping)
  /\ \E j \in 1..Len(m) :
       /\ m[j].name = e.name
       /\ \A i \in 1..Len(m) : m[i].name = e.name => i = j
       /\ \E vs \in Seq(Mapping) : m[j].versions = e.versions \o vs

(* The merged images: one entry for every name that either list has, and for  *)
(* an image of the status its versions come before any of the spec.          *)
LEMMA MergeKeeps ==
  ASSUME NEW spec \in Seq(MachineImages), NEW st \in Seq(MachineImages),
         NEW k \in DOMAIN st, \A i \in DOMAIN st : st[i].name = st[k].name => i = k,
         NEW m, m = Merge(spec, st)
  PROVE  KeptFirst(m, st[k])
<1>. DEFINE In(images) == {i.name : i \in ToSet(images)}
            entry(n) == IF n \notin In(spec) THEN st[LastOf(st, n)]
                        ELSE IF n \notin In(st) THEN spec[LastOf(spec, n)]
                        ELSE MergedEntry(spec[LastOf(spec, n)], st[LastOf(st, n)])
            S == In(spec) \cup In(st)
            names == SetToSeq(S)
            c == Cardinality(S)
            name == st[k].name
<1>1. IsFiniteSet(S)
  BY NamesFinite, FS_Union
<1>2. /\ c \in Nat /\ names \in [1..c -> S]
      /\ \A i, j \in 1..c : names[i] = names[j] => i = j
      /\ \A x \in S : \E i \in 1..c : names[i] = x
  BY <1>1, Listed
<1>3. DOMAIN names = 1..c
  BY <1>2
<1>4. m = [i \in DOMAIN names |-> entry(names[i])]
  BY DEF Merge
<1>5. m = [i \in 1..c |-> entry(names[i])]
  BY <1>3, <1>4
<1>6. Len(m) = c /\ DOMAIN m = 1..c
  BY <1>2, <1>5
<1>. HIDE DEF names, c, S, entry, In
<1>7. ASSUME NEW images \in Seq(MachineImages), NEW n \in In(images)
      PROVE  LastOf(images, n) \in DOMAIN images /\ images[LastOf(images, n)].name = n
  <2>. DEFINE I == {i \in 1..Len(images) : images[i].name = n}
  <2>1. LastOf(images, n) = IF I # {} THEN Max(I) ELSE 0
    BY DEF LastOf, SelectLastInSeq
  <2>2. I # {} /\ Len(images) \in Nat /\ DOMAIN images = 1..Len(images)
    BY <1>7 DEF In, ToSet
  <2>3. I \in SUBSET (1..Len(images))
    OBVIOUS
  <2>. HIDE DEF I
  <2>4. LastOf(images, n) \in I
    BY <2>1, <2>2, <2>3, Greatest
  <2>. QED  BY <2>2, <2>4 DEF I
<1>8. ASSUME NEW n \in S PROVE entry(n).name = n
  <2>1. CASE n \notin In(spec)
    BY <1>7, <1>8, <2>1 DEF entry, S
  <2>2. CASE n \notin In(st)
    BY <1>7, <1>8, <2>2 DEF entry, S
  <2>3. CASE n \in In(spec) /\ n \in In(st)
    BY <1>7, <2>3 DEF entry, MergedEntry
  <2>. QED  BY <2>1, <2>2, <2>3
<1>9. name \in In(st) /\ name \in S /\ LastOf(st, name) = k
  <2>1. name \in In(st)
    BY DEF In, ToSet
  <2>. QED  BY <1>7, <2>1 DEF S
<1>10. PICK j \in 1..c : names[j] = name
  BY <1>2, <1>9
<1>11. \A i \in 1..c : m[i].name = names[i]
  BY <1>2, <1>5, <1>8
<1>12. m[j] = entry(name)
  BY <1>5, <1>10
<1>13. \E vs \in Seq(Mapping) : entry(name).versions = st[k].versions \o vs
  <2>0. st[k] \in MachineImages /\ st[k].versions \in Seq(Mapping)
    <3>1. st[k] \in MachineImages
      BY ElementOfSeq
    <3>. QED  BY <3>1 DEF MachineImages
  <2>1. CASE name \notin In(spec)
    <3>1. entry(name).versions = st[k].versions
      BY <1>9, <2>1 DEF entry
    <3>2. <<>> \in Seq(Mapping) /\ st[k].versions \o <<>> = st[k].versions
      BY <2>0, ConcatEmptySeq, EmptySeq
    <3>. QED  BY <3>1, <3>2
  <2>2. CASE name \in In(spec)
    <3>. DEFINE s == spec[LastOf(spec, name)]
    <3>1. s \in MachineImages
      BY <1>7, <2>2, ElementOfSeq
    <3>2. s.versions \in Seq(Mapping)
      BY <3>1 DEF MachineImages
    <3>3. entry(name) = MergedEntry(s, st[k])
      BY <1>9, <2>2 DEF entry
    <3>. HIDE DEF s
    <3>4. entry(name).versions = st[k].versions \o s.versions
      <4>. DEFINE vs == st[k].versions \o s.versions
      <4>1. MergedEntry(s, st[k]) = [name |-> s.name, project |-> Absent, versions |-> vs]
        BY DEF MergedEntry
      <4>. HIDE DEF vs
      <4>2. entry(name).versions = vs
        BY <3>3, <4>1
      <4>. QED  BY <4>2 DEF vs
    <3>. QED  BY <3>2, <3>4
  <2>. QED  BY <2>1, <2>2
<1>14. m[j].name = name /\ \A i \in 1..c : m[i].name = name => i = j
  BY <1>2, <1>10, <1>11
<1>15. \E vs \in Seq(Mapping) : m[j].versions = st[k].versions \o vs
  BY <1>12, <1>13
<1>16. ASSUME NEW n \in S PROVE entry(n).versions \in Seq(Mapping)
  <2>1. \A images \in Seq(MachineImages) : n \in In(images) => images[LastOf(images, n)].versions \in Seq(Mapping)
    <3>. SUFFICES ASSUME NEW images \in Seq(MachineImages), n \in In(images)
                  PROVE  images[LastOf(images, n)].versions \in Seq(Mapping)
      OBVIOUS
    <3>1. images[LastOf(images, n)] \in MachineImages
      BY <1>7, ElementOfSeq
    <3>. QED  BY <3>1 DEF MachineImages
  <2>2. CASE n \notin In(spec)
    BY <1>16, <2>1, <2>2 DEF entry, S
  <2>3. CASE n \notin In(st)
    BY <1>16, <2>1, <2>3 DEF entry, S
  <2>4. CASE n \in In(spec) /\ n \in In(st)
    <3>. DEFINE x == st[LastOf(st, n)].versions
                y == spec[LastOf(spec, n)].versions
    <3>1. x \in Seq(Mapping) /\ y \in Seq(Mapping)
      BY <2>1, <2>4
    <3>2. entry(n) = MergedEntry(spec[LastOf(spec, n)], st[LastOf(st, n)])
      BY <2>4 DEF entry
    <3>3. entry(n) = [name |-> spec[LastOf(spec, n)].name, project |-> Absent, versions |-> x \o y]
      BY <3>2 DEF MergedEntry
    <3>. HIDE DEF x, y
    <3>4. entry(n).versions = x \o y
      BY <3>3
    <3>. QED  BY <3>1, <3>4, ConcatProperties
  <2>. QED  BY <2>2, <2>3, <2>4
<1>17. \A i \in 1..c : m[i].versions \in Seq(Mapping)
  BY <1>2, <1>5, <1>16
<1>. QED  BY <1>2, <1>6, <1>14, <1>15, <1>17 DEF KeptFirst

(* The version of a mapping and its architecture.                             *)
MapsTo(e, v, a) == e.version = v /\ e.arch = a
Matching(versions, v, a) == {p \in 1..Len(versions) : MapsTo(versions[p], v, a)}
Entries(c, n, v, a) ==
  {k \in 1..Len(c.machineImages) : /\ c.machineImages[k].name = n
                                   /\ Matching(c.machineImages[k].versions, v, a) # {}}

(* FindImage takes the first mapping of the first entry that has any.          *)
LEMMA Finding ==
  ASSUME NEW c, NEW n, NEW v, NEW a,
         \A i \in 1..Len(c.machineImages) : c.machineImages[i].versions \in Seq(Mapping)
  PROVE  LET k == Min(Entries(c, n, v, a))
             p == Min(Matching(c.machineImages[k].versions, v, a))
         IN  FindImage(c, n, v, a) =
               IF Entries(c, n, v, a) = {} THEN Absent
               ELSE [image |-> c.machineImages[k].versions[p].image, project |-> c.machineImages[k].project]
<1>. DEFINE images == c.machineImages
            hit(i) == i.name = n /\ \E e \in ToSet(i.versions) : e.version = v /\ e.arch = a
            I == {i \in 1..Len(images) : hit(images[i])}
            k == SelectInSeq(images, hit)
            versions == images[k].versions
            J == {i \in 1..Len(versions) : versions[i].version = v /\ versions[i].arch = a}
            j == SelectInSeq(versions, LAMBDA e : e.version = v /\ e.arch = a)
<1>1. FindImage(c, n, v, a) = IF k = 0 THEN Absent
                              ELSE [image |-> versions[j].image, project |-> images[k].project]
  BY DEF FindImage
<1>2. k = IF I # {} THEN Min(I) ELSE 0
  BY DEF SelectInSeq
<1>3. j = IF J # {} THEN Min(J) ELSE 0
  BY DEF SelectInSeq
<1>4. J = Matching(versions, v, a)
  BY DEF Matching, MapsTo
<1>5. ASSUME NEW i \in 1..Len(images)
      PROVE  hit(images[i]) <=> images[i].name = n /\ Matching(images[i].versions, v, a) # {}
  <2>1. images[i].versions \in Seq(Mapping)
    OBVIOUS
  <2>2. DOMAIN images[i].versions = 1..Len(images[i].versions)
    BY <2>1
  <2>. QED  BY <2>2 DEF Matching, MapsTo, ToSet
<1>6. I = Entries(c, n, v, a)
  BY <1>5 DEF Entries
<1>. HIDE DEF I, J, j, k, versions
<1>7. CASE I = {}
  BY <1>1, <1>2, <1>6, <1>7
<1>8. CASE I # {}
  <2>1. I \in SUBSET Nat /\ I \subseteq 1..Len(images)
    BY DEF I
  <2>2. k = Min(I) /\ k \in I
    BY <1>2, <1>8, <2>1, Least
  <2>3. k \in 1..Len(images) /\ hit(images[k])
    BY <2>2 DEF I
  <2>4. Matching(images[k].versions, v, a) # {}
    BY <1>5, <2>3
  <2>5. k # 0 /\ J # {}
    BY <1>4, <2>3, <2>4 DEF versions
  <2>. QED  BY <1>1, <1>3, <1>4, <1>6, <1>8, <2>2, <2>5 DEF versions
<1>. QED  BY <1>7, <1>8

(* An entry of a name its profile has once is found through the merged images, *)
(* and of its mappings the one that was first before.                         *)
LEMMA MergeFindsSame ==
  ASSUME NEW c \in CloudProfileConfig, OneEntryPerName(c), NEW spec \in Seq(MachineImages),
         NEW n, NEW v, NEW a, FindImage(c, n, v, a) # Absent
  PROVE  FindImage([c EXCEPT !.machineImages = Merge(spec, @)], n, v, a).image = FindImage(c, n, v, a).image
<1>. DEFINE st == c.machineImages
            m == Merge(spec, st)
            d == [c EXCEPT !.machineImages = m]
<1>1. st \in Seq(MachineImages) /\ DOMAIN st = 1..Len(st) /\ Len(st) \in Nat /\ d.machineImages = m
  BY DEF CloudProfileConfig
<1>2. \A i \in 1..Len(st) : st[i].versions \in Seq(Mapping)
  <2>. SUFFICES ASSUME NEW i \in 1..Len(st) PROVE st[i].versions \in Seq(Mapping)
    OBVIOUS
  <2>1. st[i] \in MachineImages
    BY <1>1, ElementOfSeq
  <2>. QED  BY <2>1 DEF MachineImages
<1>3. Entries(c, n, v, a) # {}
  BY <1>2, Finding
<1>4. PICK k \in 1..Len(st) : st[k].name = n /\ Matching(st[k].versions, v, a) # {}
  BY <1>3 DEF Entries
<1>5. \A i \in DOMAIN st : st[i].name = st[k].name => i = k
  BY <1>1, <1>4 DEF OneEntryPerName
<1>6. Entries(c, n, v, a) = {k}
  BY <1>1, <1>4, <1>5 DEF Entries
<1>. HIDE DEF st, d
<1>7. KeptFirst(m, st[k])
  <2>1. k \in DOMAIN st /\ st \in Seq(MachineImages) /\ m = Merge(spec, st)
    BY <1>1
  <2>. HIDE DEF m
  <2>. QED  BY <1>5, <2>1, MergeKeeps, Zenon
<1>9. PICK j \in 1..Len(m) :
        /\ m[j].name = n
        /\ \A i \in 1..Len(m) : m[i].name = n => i = j
        /\ \E vs \in Seq(Mapping) : m[j].versions = st[k].versions \o vs
  BY <1>4, <1>7 DEF KeptFirst
<1>10. PICK vs \in Seq(Mapping) : m[j].versions = st[k].versions \o vs
  BY <1>9
<1>. HIDE DEF m
<1>8. /\ Len(m) \in Nat /\ DOMAIN m = 1..Len(m)
       /\ \A i \in 1..Len(m) : m[i].versions \in Seq(Mapping)
  BY <1>7 DEF KeptFirst
<1>. DEFINE old == st[k].versions
            new == m[j].versions
            p == Min(Matching(old, v, a))
<1>11. old \in Seq(Mapping) /\ new \in Seq(Mapping) /\ Len(old) \in Nat /\ Len(vs) \in Nat
  BY <1>2, <1>8, <1>10
<1>12. /\ Len(new) = Len(old) + Len(vs)
       /\ \A i \in 1..Len(old) + Len(vs) : new[i] = IF i <= Len(old) THEN old[i] ELSE vs[i - Len(old)]
  BY <1>10, <1>11, ConcatProperties
<1>. HIDE DEF old, new
<1>13. /\ Matching(old, v, a) # {} /\ Matching(old, v, a) \in SUBSET Nat
       /\ Matching(new, v, a) \in SUBSET Nat
  BY <1>4 DEF Matching, old
<1>14. p \in Matching(old, v, a) /\ \A i \in Matching(old, v, a) : p <= i
  BY <1>13, Least
<1>15. p \in Matching(new, v, a) /\ \A i \in Matching(new, v, a) : p <= i
  <2>1. Len(new) \in Nat /\ p \in 1..Len(old) /\ new[p] = old[p] /\ MapsTo(old[p], v, a)
    BY <1>11, <1>12, <1>14 DEF Matching
  <2>2. p \in Matching(new, v, a)
    BY <1>11, <1>12, <2>1 DEF Matching
  <2>3. ASSUME NEW i \in Matching(new, v, a) PROVE p <= i
    <3>1. CASE i <= Len(old)
      <4>1. i \in 1..Len(old) /\ new[i] = old[i] /\ MapsTo(new[i], v, a)
        BY <1>11, <1>12, <2>3, <3>1 DEF Matching
      <4>. QED  BY <1>14, <4>1 DEF Matching
    <3>2. CASE ~(i <= Len(old))
      BY <1>11, <2>1, <2>3, <3>2 DEF Matching
    <3>. QED  BY <3>1, <3>2
  <2>. QED  BY <2>2, <2>3
<1>16. Min(Matching(new, v, a)) = p
  <2>. DEFINE q == Min(Matching(new, v, a))
  <2>1. q \in Matching(new, v, a) /\ \A i \in Matching(new, v, a) : q <= i
    BY <1>13, <1>15, Least
  <2>2. q \in Nat /\ p \in Nat
    BY <1>13, <1>14, <2>1
  <2>3. q <= p /\ p <= q
    BY <1>15, <2>1
  <2>. HIDE DEF q, p
  <2>. QED  BY <2>2, <2>3 DEF q
<1>17. Entries(d, n, v, a) = {j}
  <2>1. j \in Entries(d, n, v, a)
    BY <1>1, <1>8, <1>9, <1>15 DEF Entries, new
  <2>. QED  BY <1>1, <1>8, <1>9, <2>1 DEF Entries
<1>18. \A i \in Nat : Min({i}) = i
  BY DEF Min
<1>19. Min(Entries(d, n, v, a)) = j /\ Min(Entries(c, n, v, a)) = k
  BY <1>1, <1>6, <1>17, <1>18
<1>20. FindImage(c, n, v, a) = [image |-> old[p].image, project |-> st[k].project]
  BY <1>2, <1>3, <1>19, Finding DEF st, old
<1>21. FindImage(d, n, v, a) = [image |-> new[p].image, project |-> m[j].project]
  <2>1. Entries(d, n, v, a) # {}
    BY <1>17
  <2>. QED  BY <1>1, <1>8, <1>16, <1>19, <2>1, Finding DEF new
<1>22. new[p] = old[p]
  BY <1>11, <1>12, <1>14 DEF Matching
<1>23. FindImage(d, n, v, a).image = FindImage(c, n, v, a).image
  BY <1>20, <1>21, <1>22
<1>. QED  BY <1>23 DEF d, m, st

(* What the mutating webhook makes of a profile's base: no mapping of the     *)
(* base leads elsewhere afterwards.                                          *)
LEMMA MutateFindsSame ==
  ASSUME NEW c \in CloudProfileConfig, OneEntryPerName(c),
         NEW s \in NamespacedSpecs, NEW del \in BOOLEAN,
         NEW n, NEW v, NEW a, FindImage(c, n, v, a) # Absent
  PROVE  FindImage(Mutate([spec |-> s, deleting |-> del], c), n, v, a).image = FindImage(c, n, v, a).image
<1>. DEFINE p == [spec |-> s, deleting |-> del]
            own == s.config.machineImages
<1>1. p.spec = s /\ p.deleting = del
  OBVIOUS
<1>2. CASE del \/ s.config = Absent \/ c = Absent
  <2>1. Mutate(p, c) = c
    BY <1>1, <1>2 DEF Mutate
  <2>. QED  BY <2>1
<1>3. CASE ~(del \/ s.config = Absent \/ c = Absent)
  <2>1. own \in Seq(MachineImages)
    BY <1>3, ProfilesAssumption DEF NamespacedSpec, CloudProfileConfig
  <2>2. Mutate(p, c) = [c EXCEPT !.machineImages = Merge(own, @)]
    BY <1>1, <1>3 DEF Mutate
  <2>. HIDE DEF own, p
  <2>3. FindImage([c EXCEPT !.machineImages = Merge(own, @)], n, v, a).image = FindImage(c, n, v, a).image
    BY <2>1, MergeFindsSame
  <2>. QED  BY <2>2, <2>3 DEF p
<1>. QED  BY <1>2, <1>3

(* Parents are admitted ones, and the status is what the webhook made of an   *)
(* admitted parent's configuration for some profile that was submitted.      *)
ParentsInv == \A p \in {parent, parentSeen} \ {Absent} : p.config \in CloudProfileConfig
StatusInv == status # Absent =>
  /\ status.base \in CloudProfileConfig
  /\ \E s \in NamespacedSpecs, del \in BOOLEAN :
       status.config = Mutate([spec |-> s, deleting |-> del], status.base)

LEMMA StatusStep ==
  ASSUME PIInv, ParentsInv, StatusInv, [PNext]_pvars
  PROVE  ParentsInv' /\ StatusInv'
<1>1. ASSUME NEW p \in ParentProfiles, SubmitParent(p) PROVE ParentsInv' /\ StatusInv'
  <2>1. p.config \in CloudProfileConfig
    BY <1>1, ProfilesAssumption DEF SubmitParent, CloudProfileOK, CloudProfile
  <2>. QED  BY <1>1, <2>1 DEF SubmitParent, ParentsInv, StatusInv
<1>2. ASSUME NEW s \in NamespacedSpecs, SubmitSpec(s) PROVE ParentsInv' /\ StatusInv'
  BY <1>2 DEF SubmitSpec, Admit, ParentsInv, StatusInv
<1>3. CASE RemoveFinalizer
  BY <1>3 DEF RemoveFinalizer, Admit, ParentsInv, StatusInv
<1>4. CASE StoreProfile
  BY <1>4 DEF StoreProfile, ParentsInv, StatusInv
<1>5. CASE MarkDeleted
  BY <1>5 DEF MarkDeleted, ParentsInv, StatusInv
<1>6. CASE MergeStatus
  <2>1. PICK p \in {parent, parentSeen} \ {Absent} :
          status' = [base |-> p.config, config |-> Mutate(profile, p.config),
                     images |-> p.images \cup profile.spec.images, k8s |-> profile.spec.k8s]
    BY <1>6 DEF MergeStatus
  <2>2. profile # Absent /\ UNCHANGED <<parent, parentSeen>>
    BY <1>6 DEF MergeStatus
  <2>3. profile = [spec |-> profile.spec, deleting |-> profile.deleting]
        /\ profile.spec \in NamespacedSpecs /\ profile.deleting \in BOOLEAN
    BY <2>2 DEF PIInv, SubmittedInv
  <2>4. status'.base = p.config /\ status'.config = Mutate(profile, p.config)
    BY <2>1
  <2>5. p.config \in CloudProfileConfig
    BY <2>1 DEF ParentsInv
  <2>. QED  BY <2>2, <2>3, <2>4, <2>5 DEF ParentsInv, StatusInv
<1>7. CASE SeeParent
  BY <1>7 DEF SeeParent, ParentsInv, StatusInv
<1>8. ASSUME NEW u \in Users, NEW x \in ShootUse, PlaceShoot(u, x) PROVE ParentsInv' /\ StatusInv'
  BY <1>8 DEF PlaceShoot, ParentsInv, StatusInv
<1>9. ASSUME NEW u \in Users, RemoveShoot(u) \/ SeeShoot(u) PROVE ParentsInv' /\ StatusInv'
  BY <1>9 DEF RemoveShoot, SeeShoot, ParentsInv, StatusInv
<1>10. CASE UNCHANGED pvars
  BY <1>10 DEF pvars, ParentsInv, StatusInv
<1>. QED  BY <1>1, <1>2, <1>3, <1>4, <1>5, <1>6, <1>7, <1>8, <1>9, <1>10 DEF PNext

(* A version the parent maps leads to the parent's image from the namespaced *)
(* profile too, whatever its owner maps and in whatever order parent,        *)
(* profile and status are written.                                          *)
THEOREM ParentImagesWin == PSpec => []ParentImageWins
<1>1. PInit => ParentsInv /\ StatusInv
  BY DEF PInit, ParentsInv, StatusInv
<1>2. PIInv /\ ParentsInv /\ StatusInv /\ [PNext]_pvars => ParentsInv' /\ StatusInv'
  BY StatusStep
<1>3. StatusInv => ParentImageWins
  <2>. SUFFICES ASSUME StatusInv, status # Absent, OneEntryPerName(status.base),
                       NEW d \in ImageNames \X ImageVersions, NEW a \in Archs,
                       Resolved(status.base, d, a) # Absent
                PROVE  Resolved(status.config, d, a).image = Resolved(status.base, d, a).image
    BY DEF ParentImageWins
  <2>1. PICK s \in NamespacedSpecs, del \in BOOLEAN :
          status.config = Mutate([spec |-> s, deleting |-> del], status.base)
    BY DEF StatusInv
  <2>2. status.base \in CloudProfileConfig
    BY DEF StatusInv
  <2>3. FindImage(status.base, d[1], d[2], a) # Absent
    BY DEF Resolved
  <2>4. FindImage(Mutate([spec |-> s, deleting |-> del], status.base), d[1], d[2], a).image
          = FindImage(status.base, d[1], d[2], a).image
    BY <2>2, <2>3, MutateFindsSame
  <2>. QED  BY <2>1, <2>4 DEF Resolved
<1>. QED  BY <1>1, <1>2, <1>3, PInvariant, PTL DEF PSpec
=============================================================================
