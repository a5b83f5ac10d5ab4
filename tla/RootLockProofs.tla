--------------------------- MODULE RootLockProofs ---------------------------
(***************************************************************************)
(* The lock of RootLock.tla excludes, for any shoots and names.             *)
(***************************************************************************)
EXTENDS RootLock, TLAPS

TypeOK == /\ state \in [Names -> {"free", "held", "returning"}]
          /\ label \in [Names -> Infra \cup {None}]
          /\ using \subseteq Infra /\ broken \in BOOLEAN
(* What is kept until the lock is broken. *)
LockInv == ~broken => TypeOK /\ Exclusive

(* A step that does not break the lock keeps it typed and exclusive.        *)
LEMMA LockStep ==
  ASSUME NameOf \in [Infra -> Names], Legacy \subseteq Infra, None \notin Infra,
         LockInv, [Next]_lvars
  PROVE  LockInv'
<1>. SUFFICES ASSUME ~broken' PROVE TypeOK' /\ Exclusive'
  BY DEF LockInv
<1>1. ~broken /\ TypeOK /\ Exclusive
  BY DEF LockInv, Next, Acquire, PutLabel, BeginUse, EndUse, GiveBack, Returned, Destroy, Broken, lvars
<1>2. ASSUME NEW i \in Infra, Acquire(i) PROVE TypeOK' /\ Exclusive'
  <2>1. TypeOK'
    BY <1>1, <1>2 DEF TypeOK, Acquire
  <2>2. \A j \in using : NameOf[j] # NameOf[i]
    BY <1>1, <1>2 DEF Exclusive, Holds, Acquire
  <2>3. \A j \in using : Holds(j)'
    BY <1>1, <1>2, <2>2 DEF TypeOK, Exclusive, Holds, Acquire
  <2>. QED  BY <1>1, <1>2, <2>1, <2>3 DEF Exclusive, Acquire
<1>3. ASSUME NEW i \in Infra, PutLabel(i) PROVE TypeOK' /\ Exclusive'
  <2>1. TypeOK'
    BY <1>1, <1>3 DEF TypeOK, PutLabel
  <2>2. ASSUME NEW j \in using PROVE Holds(j)'
    <3>1. CASE NameOf[j] = NameOf[i]
      BY <1>1, <1>3, <3>1 DEF TypeOK, Exclusive, Holds, PutLabel
    <3>2. CASE NameOf[j] # NameOf[i]
      BY <1>1, <1>3, <3>2 DEF TypeOK, Exclusive, Holds, PutLabel
    <3>. QED  BY <3>1, <3>2
  <2>. QED  BY <1>1, <1>3, <2>1, <2>2 DEF Exclusive, PutLabel
<1>4. ASSUME NEW i \in Infra, BeginUse(i) PROVE TypeOK' /\ Exclusive'
  <2>1. TypeOK'
    BY <1>1, <1>4 DEF TypeOK, BeginUse
  <2>2. \A j \in using : NameOf[j] = NameOf[i] => j = i
    BY <1>1, <1>4 DEF TypeOK, Exclusive, Holds, BeginUse
  <2>3. \A j \in using' : Holds(j)'
    BY <1>1, <1>4 DEF Exclusive, Holds, BeginUse
  <2>. QED  BY <1>1, <1>4, <2>1, <2>2, <2>3 DEF Exclusive, BeginUse
<1>5. ASSUME NEW i \in Infra, EndUse(i) PROVE TypeOK' /\ Exclusive'
  BY <1>1, <1>5 DEF TypeOK, Exclusive, Holds, EndUse
<1>6. ASSUME NEW n \in Names, GiveBack(n) \/ Returned(n) \/ Destroy(n) PROVE TypeOK' /\ Exclusive'
  <2>1. TypeOK'
    BY <1>1, <1>6 DEF TypeOK, GiveBack, Returned, Destroy
  <2>2. \A j \in using : NameOf[j] # n
    BY <1>1, <1>6 DEF Exclusive, Holds, GiveBack, Returned, Destroy
  <2>3. \A j \in using : Holds(j)'
    BY <1>1, <1>6, <2>2 DEF TypeOK, Exclusive, Holds, GiveBack, Returned, Destroy
  <2>. QED  BY <1>1, <1>6, <2>1, <2>3 DEF Exclusive, GiveBack, Returned, Destroy
<1>7. CASE UNCHANGED lvars
  BY <1>1, <1>7 DEF lvars, TypeOK, Exclusive, Holds
<1>. QED  BY <1>2, <1>3, <1>4, <1>5, <1>6, <1>7 DEF Next, Broken

(* No two shoots ever use the network of one name, and who uses it holds its *)
(* lock, until the lock is broken.                                          *)
THEOREM LockExcludes ==
  ASSUME NameOf \in [Infra -> Names], Legacy \subseteq Infra, None \notin Infra
  PROVE  Spec => []Exclusive
<1>1. Init => LockInv
  BY DEF Init, LockInv, TypeOK, Exclusive
<1>2. LockInv /\ [Next]_lvars => LockInv'
  BY LockStep
<1>3. LockInv => Exclusive
  BY DEF LockInv, Exclusive
<1>. QED  BY <1>1, <1>2, <1>3, PTL DEF Spec
=============================================================================
