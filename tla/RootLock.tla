------------------------------ MODULE RootLock ------------------------------
(***************************************************************************)
(* What root subnets promise to shoots that share a name: one lock per      *)
(* name.  A shoot takes the lock when it is free, uses the network only      *)
(* while it holds it, and it is given back only while nobody uses it.  A     *)
(* lock without a label is that of a shoot older than the labels, which may  *)
(* put its label on it.  Infrastructure.tla implements this until the lock    *)
(* is broken, and then nothing is promised any more.                        *)
(***************************************************************************)
CONSTANTS Infra, Names, NameOf, Legacy, None

VARIABLES
  state,   \* of each name's lock: "free", "held" or "returning"
  label,   \* of each name's lock: a shoot or None
  using,   \* the shoots that use the network
  broken
lvars == <<state, label, using, broken>>

Holds(i) == /\ state[NameOf[i]] = "held"
            /\ label[NameOf[i]] = i \/ (label[NameOf[i]] = None /\ i \in Legacy)

Init ==
  /\ state \in [Names -> {"free", "held"}] /\ label = [n \in Names |-> None]
  /\ using \in SUBSET Legacy /\ \A i \in using : Holds(i)
  /\ \A i, j \in using : NameOf[i] = NameOf[j] => i = j
  /\ broken \in BOOLEAN

Acquire(i) ==
  /\ state[NameOf[i]] = "free"
  /\ state' = [state EXCEPT ![NameOf[i]] = "held"]
  /\ label' = [label EXCEPT ![NameOf[i]] = i] /\ UNCHANGED <<using, broken>>
PutLabel(i) ==
  /\ i \in Legacy /\ Holds(i) /\ \A j \in using : NameOf[j] = NameOf[i] => j = i
  /\ label' = [label EXCEPT ![NameOf[i]] = i] /\ UNCHANGED <<state, using, broken>>
BeginUse(i) ==
  /\ state[NameOf[i]] = "held" /\ label[NameOf[i]] = i
  /\ using' = using \cup {i} /\ UNCHANGED <<state, label, broken>>
EndUse(i) == using' = using \ {i} /\ UNCHANGED <<state, label, broken>>
GiveBack(n) ==
  /\ state[n] = "held" /\ \A i \in using : NameOf[i] # n
  /\ state' = [state EXCEPT ![n] = "returning"] /\ UNCHANGED <<label, using, broken>>
Returned(n) ==
  /\ state[n] = "returning"
  /\ state' = [state EXCEPT ![n] = "free"]
  /\ label' = [label EXCEPT ![n] = None] /\ UNCHANGED <<using, broken>>
Destroy(n) ==
  /\ state[n] = "held" /\ \A i \in using : NameOf[i] # n
  /\ state' = [state EXCEPT ![n] = "free"]
  /\ label' = [label EXCEPT ![n] = None] /\ UNCHANGED <<using, broken>>
Broken == broken' = TRUE

Next ==
  \/ \E i \in Infra : Acquire(i) \/ PutLabel(i) \/ BeginUse(i) \/ EndUse(i)
  \/ \E n \in Names : GiveBack(n) \/ Returned(n) \/ Destroy(n)
  \/ Broken

Spec == Init /\ [][Next]_lvars

---------------------------------------------------------------------------
(* Until it is broken the lock excludes: every shoot that uses the network of *)
(* a name holds its lock, and there is only one (actuator.go:461-495).       *)
Exclusive == ~broken =>
  /\ \A i \in using : Holds(i)
  /\ \A i, j \in using : NameOf[i] = NameOf[j] => i = j
=============================================================================
