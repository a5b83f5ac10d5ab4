------------------------- MODULE ShootControlProofs -------------------------
(***************************************************************************)
(* The safety properties of TokenCache.tla, TaskRunner.tla and Worker.tla,  *)
(* for any requests, lifetimes, tasks, pools, zones and bounds.            *)
(***************************************************************************)
EXTENDS TokenCache, TaskRunner, Worker, FiniteSetTheorems, TLAPS

---------------------------------------------------------------------------
(* The token cache *)
Token == [expiry : Nat, real : Nat, took : Nat]
Call == [pc : {"idle", "look", "lock", "sign", "ask"}, at : Nat, asked : Nat,
         issued : Nat \cup {None}, lifetime : Nat]
TTypeOK ==
  /\ clock \in Nat /\ cached \in Token \cup {None}
  /\ call \in [Requests -> Call]
  /\ handed \in [Requests -> [token : Token \cup {None}, at : Nat, failed : BOOLEAN] \cup {None}]

(* The expiry the cache goes by is later than the server's by no more than  *)
(* the exchange took.                                                      *)
ExpiryInv == cached # None => cached.expiry <= cached.real + cached.took

(* A request that has found no good token and waits for the lock finds none *)
(* later, or one that is good by the clock as it is: nobody waits when the  *)
(* lock is free, and until it is taken no time passes.                      *)
WaitInv == \A r \in Requests : LET c == call[r] IN
  /\ c.at <= clock
  /\ c.pc = "look" => c.at = clock
  /\ c.pc = "lock" => \/ ~Fresh(cached, c.at)
                      \/ holder = None /\ cached # None /\ cached.expiry > clock + Leeway

(* An exchange asks, and is then issued a token that outlasts the leeway.    *)
ExchangeInv == \A r \in Requests : LET c == call[r] IN
  c.pc = "ask" /\ c.issued # None =>
    c.asked <= c.issued /\ c.issued <= clock /\ c.lifetime > Leeway
AskedInv == \A r \in Requests :
  IF call[r].pc = "ask" THEN call[r].asked <= clock ELSE call[r].issued = None

TIInv == TTypeOK /\ ExpiryInv /\ WaitInv /\ ExchangeInv /\ AskedInv /\ SentIsValid

(* What is handed out leaves the calls and the hands typed.                 *)
LEMMA HandOutType ==
  ASSUME TTypeOK, NEW r \in Requests, NEW t \in Token \cup {None}, NEW f \in BOOLEAN, HandOut(r, t, f)
  PROVE  /\ call' \in [Requests -> Call]
         /\ handed' \in [Requests -> [token : Token \cup {None}, at : Nat, failed : BOOLEAN] \cup {None}]
<1>1. NoCall \in Call
  BY DEF NoCall, Call
<1>2. [token |-> t, at |-> clock, failed |-> f] \in [token : Token \cup {None}, at : Nat, failed : BOOLEAN]
  BY DEF TTypeOK
<1>. QED  BY <1>1, <1>2 DEF TTypeOK, HandOut

(* A request that is under way is updated field by field.                   *)
LEMMA CallUpdate ==
  ASSUME NEW c \in Call, NEW p \in {"idle", "look", "lock", "sign", "ask"}, NEW n \in Nat, NEW l \in Nat
  PROVE  /\ [c EXCEPT !.pc = p] \in Call
         /\ [c EXCEPT !.pc = p, !.asked = n] \in Call
         /\ [c EXCEPT !.issued = n, !.lifetime = l] \in Call
<1>1. [c EXCEPT !.pc = p] \in Call
  BY DEF Call
<1>2. [c EXCEPT !.pc = p, !.asked = n] \in Call
  BY DEF Call
<1>3. [c EXCEPT !.issued = n, !.lifetime = l] \in Call
  BY DEF Call
<1>. QED  BY <1>1, <1>2, <1>3

(* Every step keeps the types.                                              *)
LEMMA TTypeStep ==
  ASSUME TTypeOK, ExchangeInv, AskedInv, [TNext]_tvars
  PROVE  TTypeOK'
<1>. USE TokensAssumption DEF TTypeOK
<1>1. ASSUME NEW r \in Requests, SendRequest(r) PROVE TTypeOK'
  BY <1>1 DEF SendRequest, NoCall, Call
<1>2. ASSUME NEW r \in Requests, Look(r) \/ Lock(r) PROVE TTypeOK'
  <2>1. [call[r] EXCEPT !.pc = "lock"] \in Call /\ [call[r] EXCEPT !.pc = "sign"] \in Call
    BY CallUpdate
  <2>. QED  BY <1>2, <2>1, HandOutType DEF Look, Lock, Step
<1>3. ASSUME NEW r \in Requests, Sign(r) PROVE TTypeOK'
  <2>1. CASE ExchangeFails(r)
    BY <1>3, <2>1, HandOutType DEF Sign, ExchangeFails
  <2>2. CASE call' = [call EXCEPT ![r].pc = "ask", ![r].asked = clock] /\ UNCHANGED <<cached, handed>>
    <3>1. [call[r] EXCEPT !.pc = "ask", !.asked = clock] \in Call
      BY CallUpdate
    <3>2. call' = [call EXCEPT ![r] = [call[r] EXCEPT !.pc = "ask", !.asked = clock]]
      BY <2>2
    <3>. QED  BY <1>3, <2>2, <3>1, <3>2 DEF Sign
  <2>. QED  BY <1>3, <2>1, <2>2 DEF Sign
<1>4. ASSUME NEW r \in Requests, Issue(r) PROVE TTypeOK'
  <2>1. PICK l \in Lifetimes : call' = [call EXCEPT ![r].issued = clock, ![r].lifetime = l]
    BY <1>4 DEF Issue
  <2>2. [call[r] EXCEPT !.issued = clock, !.lifetime = l] \in Call
    BY CallUpdate
  <2>3. call' = [call EXCEPT ![r] = [call[r] EXCEPT !.issued = clock, !.lifetime = l]]
    BY <2>1
  <2>. QED  BY <1>4, <2>2, <2>3 DEF Issue
<1>5. ASSUME NEW r \in Requests, Answer(r) PROVE TTypeOK'
  <2>. DEFINE c == call[r]
              token == [expiry |-> Expiry(clock, c.lifetime), real |-> c.issued + c.lifetime,
                        took |-> clock - c.asked]
  <2>1. token \in Token
    BY <1>5 DEF Answer, Expiry, Token, ExchangeInv, AskedInv, Call
  <2>2. cached' = token /\ HandOut(r, token, FALSE) /\ UNCHANGED clock
    BY <1>5 DEF Answer
  <2>. HIDE DEF token
  <2>. QED  BY <2>1, <2>2, HandOutType
<1>6. ASSUME NEW r \in Requests, Refused(r) PROVE TTypeOK'
  BY <1>6, HandOutType DEF Refused, ExchangeFails
<1>7. CASE Tick
  BY <1>7 DEF Tick
<1>8. CASE UNCHANGED tvars
  BY <1>8 DEF tvars
<1>. QED  BY <1>1, <1>2, <1>3, <1>4, <1>5, <1>6, <1>7, <1>8 DEF TNext

(* An exchange that fails leaves the token and frees the lock.              *)
LEMMA FailStep ==
  ASSUME TIInv, NEW r \in Requests, ExchangeFails(r), UNCHANGED clock
  PROVE  ExpiryInv' /\ WaitInv' /\ ExchangeInv' /\ AskedInv' /\ SentIsValid'
<1>1. /\ handed' = [handed EXCEPT ![r] = [token |-> cached, at |-> clock, failed |-> TRUE]]
      /\ call' = [call EXCEPT ![r] = NoCall]
      /\ holder' = None /\ UNCHANGED <<cached, clock>>
  BY DEF ExchangeFails, HandOut, Unlock
<1>2. SentIsValid'
  BY <1>1 DEF TIInv, TTypeOK, SentIsValid
<1>3. ExpiryInv' /\ ExchangeInv' /\ AskedInv'
  BY <1>1 DEF TIInv, TTypeOK, Call, ExpiryInv, ExchangeInv, AskedInv, NoCall
<1>4. WaitInv'
  BY <1>1 DEF TIInv, TTypeOK, Call, WaitInv, NoCall, Fresh
<1>. QED  BY <1>2, <1>3, <1>4

(* A request that takes the cached token takes one good beyond the leeway.  *)
LEMMA HandOutStep ==
  ASSUME TIInv, NEW r \in Requests, call[r].pc \in {"look", "lock"}, Fresh(cached, call[r].at),
         HandOut(r, cached, FALSE), UNCHANGED <<clock, cached, holder>>
  PROVE  ExpiryInv' /\ WaitInv' /\ ExchangeInv' /\ AskedInv' /\ SentIsValid'
<1>1. /\ handed' = [handed EXCEPT ![r] = [token |-> cached, at |-> clock, failed |-> FALSE]]
      /\ call' = [call EXCEPT ![r] = NoCall]
  BY DEF HandOut
<1>2. cached \in Token /\ cached.expiry > clock + Leeway
  BY DEF TIInv, TTypeOK, WaitInv, Fresh
<1>3. clock + Leeway < cached.real + cached.took
  BY <1>2, TokensAssumption DEF TIInv, TTypeOK, ExpiryInv, Token, Fresh
<1>4. SentIsValid'
  BY <1>1, <1>3 DEF TIInv, TTypeOK, SentIsValid
<1>5. ExpiryInv' /\ ExchangeInv' /\ AskedInv'
  BY <1>1 DEF TIInv, TTypeOK, Call, ExpiryInv, ExchangeInv, AskedInv, NoCall
<1>6. WaitInv'
  BY <1>1 DEF TIInv, TTypeOK, Call, WaitInv, NoCall, Fresh
<1>. QED  BY <1>4, <1>5, <1>6

(* Every step of a request, of the token service or of the clock keeps the    *)
(* four parts and the property itself.                                        *)
LEMMA TStep ==
  ASSUME TIInv, [TNext]_tvars
  PROVE  ExpiryInv' /\ WaitInv' /\ ExchangeInv' /\ AskedInv' /\ SentIsValid'
<1>. USE TokensAssumption DEF TIInv, TTypeOK, Call
<1>1. ASSUME NEW r \in Requests, SendRequest(r)
      PROVE  ExpiryInv' /\ WaitInv' /\ ExchangeInv' /\ AskedInv' /\ SentIsValid'
  BY <1>1 DEF SendRequest, NoCall, ExpiryInv, WaitInv, ExchangeInv, AskedInv, SentIsValid, Fresh
<1>2. ASSUME NEW r \in Requests, Look(r)
      PROVE  ExpiryInv' /\ WaitInv' /\ ExchangeInv' /\ AskedInv' /\ SentIsValid'
  <2>1. CASE Fresh(cached, call[r].at)
    BY <1>2, <2>1, HandOutStep DEF Look
  <2>2. CASE ~Fresh(cached, call[r].at)
    <3>1. ExpiryInv' /\ ExchangeInv' /\ AskedInv' /\ SentIsValid'
      BY <1>2, <2>2 DEF Look, Step, ExpiryInv, ExchangeInv, AskedInv, SentIsValid
    <3>2. WaitInv'
      BY <1>2, <2>2 DEF Look, Step, WaitInv, Fresh
    <3>. QED  BY <3>1, <3>2
  <2>. QED  BY <2>1, <2>2
<1>3. ASSUME NEW r \in Requests, Lock(r)
      PROVE  ExpiryInv' /\ WaitInv' /\ ExchangeInv' /\ AskedInv' /\ SentIsValid'
  <2>1. CASE Fresh(cached, call[r].at)
    BY <1>3, <2>1, HandOutStep DEF Lock
  <2>2. CASE ~Fresh(cached, call[r].at)
    <3>1. ~(cached # None /\ cached.expiry > clock + Leeway)
      BY <1>3, <2>2 DEF Lock, WaitInv, Fresh, Token
    <3>2. WaitInv'
      BY <1>3, <2>2, <3>1 DEF Lock, Step, WaitInv, Fresh
    <3>. QED  BY <1>3, <2>2, <3>2 DEF Lock, Step, ExpiryInv, ExchangeInv, AskedInv, SentIsValid
  <2>. QED  BY <2>1, <2>2
<1>4. ASSUME NEW r \in Requests, Sign(r)
      PROVE  ExpiryInv' /\ WaitInv' /\ ExchangeInv' /\ AskedInv' /\ SentIsValid'
  <2>1. CASE ExchangeFails(r)
    BY <1>4, <2>1, FailStep DEF Sign
  <2>2. CASE call' = [call EXCEPT ![r].pc = "ask", ![r].asked = clock] /\ UNCHANGED <<cached, holder, handed>>
    <3>1. UNCHANGED clock
      BY <1>4 DEF Sign
    <3>2. call[r].pc = "sign"
      BY <1>4 DEF Sign
    <3>3. /\ call'[r].pc = "ask" /\ call'[r].asked = clock /\ call'[r].at = call[r].at
          /\ call'[r].issued = call[r].issued /\ call'[r].lifetime = call[r].lifetime
          /\ \A q \in Requests : q # r => call'[q] = call[q]
      BY <2>2
    <3>4. ExpiryInv' /\ WaitInv' /\ AskedInv' /\ SentIsValid'
      BY <2>2, <3>1, <3>3 DEF ExpiryInv, WaitInv, AskedInv, SentIsValid, Fresh
    <3>5. ExchangeInv'
      BY <2>2, <3>1, <3>2, <3>3 DEF ExchangeInv, AskedInv
    <3>. QED  BY <3>4, <3>5
  <2>. QED  BY <1>4, <2>1, <2>2 DEF Sign
<1>5. ASSUME NEW r \in Requests, Issue(r)
      PROVE  ExpiryInv' /\ WaitInv' /\ ExchangeInv' /\ AskedInv' /\ SentIsValid'
  BY <1>5 DEF Issue, ExpiryInv, WaitInv, ExchangeInv, AskedInv, SentIsValid, Fresh
<1>6. ASSUME NEW r \in Requests, Answer(r)
      PROVE  ExpiryInv' /\ WaitInv' /\ ExchangeInv' /\ AskedInv' /\ SentIsValid'
  <2>1. PICK token \in Token :
          /\ token.expiry > clock + Leeway /\ token.expiry <= token.real + token.took
          /\ cached' = token /\ holder' = None /\ HandOut(r, token, FALSE) /\ UNCHANGED clock
    <3>1. /\ call[r].asked <= call[r].issued /\ call[r].issued <= clock
          /\ call[r].lifetime > Leeway /\ call[r].issued \in Nat
      BY <1>6 DEF Answer, ExchangeInv
    <3>. DEFINE token == [expiry |-> Expiry(clock, call[r].lifetime),
                          real |-> call[r].issued + call[r].lifetime, took |-> clock - call[r].asked]
    <3>2. /\ token \in Token
          /\ token.expiry > clock + Leeway /\ token.expiry <= token.real + token.took
      BY <1>6, <3>1 DEF Expiry, Token
    <3>3. cached' = token /\ holder' = None /\ HandOut(r, token, FALSE) /\ UNCHANGED clock
      BY <1>6 DEF Answer, Unlock
    <3>. HIDE DEF token
    <3>. QED  BY <3>2, <3>3
  <2>2. /\ handed' = [handed EXCEPT ![r] = [token |-> token, at |-> clock, failed |-> FALSE]]
        /\ call' = [call EXCEPT ![r] = NoCall]
    BY <2>1 DEF HandOut
  <2>3. SentIsValid'
    <3>1. clock + Leeway < token.real + token.took
      BY <2>1 DEF Token
    <3>. QED  BY <2>1, <2>2, <3>1 DEF SentIsValid
  <2>4. ExpiryInv' /\ ExchangeInv' /\ AskedInv'
    BY <2>1, <2>2 DEF ExpiryInv, ExchangeInv, AskedInv, NoCall
  <2>5. WaitInv'
    BY <2>1, <2>2 DEF WaitInv, NoCall, Fresh
  <2>. QED  BY <2>3, <2>4, <2>5
<1>7. ASSUME NEW r \in Requests, Refused(r)
      PROVE  ExpiryInv' /\ WaitInv' /\ ExchangeInv' /\ AskedInv' /\ SentIsValid'
  BY <1>7, FailStep DEF Refused
<1>8. CASE Tick
  <2>1. \A r \in Requests : Waiting(r) /\ clock' = clock + 1 /\ UNCHANGED <<cached, holder, call, handed>>
    BY <1>8 DEF Tick
  <2>2. WaitInv'
    BY <1>8 DEF Tick, WaitInv, Waiting, Fresh
  <2>. QED  BY <1>8, <2>2 DEF Tick, ExpiryInv, ExchangeInv, AskedInv, SentIsValid
<1>9. CASE UNCHANGED tvars
  BY <1>9 DEF tvars, ExpiryInv, WaitInv, ExchangeInv, AskedInv, SentIsValid, Fresh
<1>. QED  BY <1>1, <1>2, <1>3, <1>4, <1>5, <1>6, <1>7, <1>8, <1>9 DEF TNext

(* The invariant of the token cache holds in every reachable state.           *)
LEMMA TInvariant == TSpec => []TIInv
<1>1. TInit => TIInv
  BY DEF TInit, TIInv, TTypeOK, Call, NoCall, ExpiryInv, WaitInv, ExchangeInv, AskedInv, SentIsValid
<1>2. TIInv /\ [TNext]_tvars => TIInv'
  BY TTypeStep, TStep DEF TIInv
<1>. QED  BY <1>1, <1>2, PTL DEF TSpec

(* A request leaves with a token that was still good when the request looked, *)
(* give or take the time its exchange took, for any number of requests that   *)
(* share the cache and its lock, any lifetimes and any leeway.                *)
THEOREM TokenIsValid == TSpec => []SentIsValid
<1>1. TIInv => SentIsValid
  BY DEF TIInv
<1>. QED  BY <1>1, TInvariant, PTL

---------------------------------------------------------------------------
(* The task runner *)
In(t, seq) == \E k \in 1..Len(seq) : seq[k] = t
NoDuplicate(seq) == \A j, k \in 1..Len(seq) : seq[j] = seq[k] => j = k
Remaining == {t \in Tasks : pc[t] # "gone"}

RTypeOK ==
  /\ pc \in [Tasks -> {"unborn", "running", "sending", "leaving", "gone"}]
  /\ outcome \in [Tasks -> Outcomes] /\ wg \in Int
  /\ ch \in Seq(Tasks) /\ errors \in Seq(Tasks) /\ success \subseteq Tasks
  /\ main \in {"idle", "spawn", "wait", "drain", "returned"}
  /\ spawned \in 0..NumTasks

(* The counter counts the goroutines that are not gone, those to come too,  *)
(* so that it comes to zero only when no one can send any more.             *)
CountInv ==
  /\ \A t \in Tasks : pc[t] = "unborn" <=> t > spawned
  /\ main = "idle" => spawned = 0
  /\ main \in {"wait", "drain", "returned"} => spawned = NumTasks
  /\ main # "idle" => wg = Cardinality(Remaining)
  /\ main \in {"drain", "returned"} => Remaining = {}
  /\ main = "returned" => ch = <<>>

(* The result of a task is nowhere before it is sent, and then in one place. *)
PlaceInv ==
  /\ \A t \in Tasks :
       IF pc[t] \in {"leaving", "gone"}
       THEN \/ In(t, ch) /\ ~In(t, errors) /\ t \notin success
            \/ ~In(t, ch) /\ In(t, errors) /\ t \notin success /\ outcome[t] = "err"
            \/ ~In(t, ch) /\ ~In(t, errors) /\ t \in success /\ outcome[t] = "ok"
       ELSE ~In(t, ch) /\ ~In(t, errors) /\ t \notin success
  /\ NoDuplicate(ch) /\ NoDuplicate(errors)

RIInv == RTypeOK /\ CountInv /\ PlaceInv

(* What is appended is in the sequence, once if it was not.                  *)
LEMMA Appended ==
  ASSUME NEW S, NEW seq \in Seq(S), NEW x \in S
  PROVE  /\ Append(seq, x) \in Seq(S)
         /\ \A t : In(t, Append(seq, x)) <=> In(t, seq) \/ t = x
         /\ NoDuplicate(seq) /\ ~In(x, seq) => NoDuplicate(Append(seq, x))
<1>. DEFINE new == Append(seq, x)
<1>1. /\ new \in Seq(S) /\ Len(new) = Len(seq) + 1 /\ new[Len(seq) + 1] = x
      /\ \A k \in 1..Len(seq) : new[k] = seq[k]
  OBVIOUS
<1>2. Len(seq) \in Nat
  OBVIOUS
<1>. HIDE DEF new
<1>3. \A t : In(t, new) <=> In(t, seq) \/ t = x
  BY <1>1, <1>2 DEF In
<1>4. NoDuplicate(seq) /\ ~In(x, seq) => NoDuplicate(new)
  BY <1>1, <1>2 DEF In, NoDuplicate
<1>. QED  BY <1>1, <1>3, <1>4 DEF new

(* What is taken from the head of a sequence is not in the rest of it.        *)
LEMMA Taken ==
  ASSUME NEW S, NEW seq \in Seq(S), seq # <<>>, NoDuplicate(seq)
  PROVE  /\ Head(seq) \in S /\ Tail(seq) \in Seq(S)
         /\ \A t : In(t, seq) <=> In(t, Tail(seq)) \/ t = Head(seq)
         /\ ~In(Head(seq), Tail(seq)) /\ NoDuplicate(Tail(seq))
<1>. DEFINE rest == Tail(seq)
<1>1. /\ rest \in Seq(S) /\ Len(seq) = Len(rest) + 1 /\ Head(seq) = seq[1] /\ seq[1] \in S
      /\ \A k \in 1..Len(rest) : rest[k] = seq[k + 1]
  OBVIOUS
<1>2. Len(rest) \in Nat
  OBVIOUS
<1>. HIDE DEF rest
<1>3. ASSUME NEW t PROVE In(t, seq) <=> In(t, rest) \/ t = seq[1]
  <2>1. \A k \in 1..Len(seq) : k = 1 \/ (k - 1 \in 1..Len(rest) /\ seq[k] = rest[k - 1])
    BY <1>1, <1>2
  <2>2. \A k \in 1..Len(rest) : k + 1 \in 1..Len(seq) /\ rest[k] = seq[k + 1]
    BY <1>1, <1>2
  <2>3. 1 \in 1..Len(seq)
    BY <1>1, <1>2
  <2>. QED  BY <2>1, <2>2, <2>3 DEF In
<1>4. \A j, k \in 1..Len(rest) : /\ j + 1 \in 1..Len(seq) /\ k + 1 \in 1..Len(seq) /\ 1 \in 1..Len(seq)
                                 /\ rest[j] = seq[j + 1] /\ rest[k] = seq[k + 1] /\ j + 1 # 1
  BY <1>1, <1>2
<1>5. ~In(seq[1], rest)
  BY <1>4 DEF In, NoDuplicate
<1>6. NoDuplicate(rest)
  BY <1>4 DEF NoDuplicate
<1>. QED  BY <1>1, <1>3, <1>5, <1>6 DEF rest

(* Every step of Run and of the goroutines respects the types.                *)
LEMMA RTypeStep ==
  ASSUME RIInv, [RNext]_rvars
  PROVE  RTypeOK'
<1>. USE DEF RTypeOK
<1>. RTypeOK /\ NumTasks \in Nat
  BY NumTasksAssumption DEF RIInv
<1>1. ASSUME Run PROVE RTypeOK'
  BY <1>1 DEF Run
<1>2. ASSUME AllSpawned \/ Wait \/ Return PROVE RTypeOK'
  BY <1>2 DEF AllSpawned, Wait, Return
<1>3. ASSUME Spawn PROVE RTypeOK'
  <2>1. spawned + 1 \in 0..NumTasks /\ spawned' = spawned + 1
    BY <1>3 DEF Spawn
  <2>. QED  BY <1>3, <2>1 DEF Spawn
<1>4. ASSUME NEW t \in Tasks, Compute(t) PROVE RTypeOK'
  BY <1>4 DEF Compute
<1>5. ASSUME NEW t \in Tasks, Done(t) PROVE RTypeOK'
  BY <1>5 DEF Done
<1>6. ASSUME NEW t \in Tasks, Send(t) PROVE RTypeOK'
  BY <1>6 DEF Send
<1>7. ASSUME Drain PROVE RTypeOK'
  <2>1. Head(ch) \in Tasks /\ Tail(ch) \in Seq(Tasks)
    BY <1>7, Taken DEF Drain, RIInv, PlaceInv
  <2>2. errors' \in Seq(Tasks) /\ success' \subseteq Tasks
    <3>1. Append(errors, Head(ch)) \in Seq(Tasks)
      BY <2>1
    <3>. QED  BY <1>7, <2>1, <3>1 DEF Drain
  <2>3. ch' \in Seq(Tasks) /\ UNCHANGED <<pc, outcome, wg, closed, main, spawned>>
    BY <1>7, <2>1 DEF Drain
  <2>. QED  BY <2>2, <2>3
<1>8. ASSUME UNCHANGED rvars PROVE RTypeOK'
  BY <1>8 DEF rvars
<1>. QED  BY <1>1, <1>2, <1>3, <1>4, <1>5, <1>6, <1>7, <1>8 DEF RNext, Main, Goroutine

(* The WaitGroup's counter goes on counting the goroutines that are not gone. *)
LEMMA CountStep ==
  ASSUME RIInv, [RNext]_rvars
  PROVE  CountInv'
<1>. USE NumTasksAssumption DEF RIInv, RTypeOK, CountInv
<1>1. IsFiniteSet(Tasks) /\ Cardinality(Tasks) = NumTasks
  BY FS_Interval DEF Tasks
<1>2. IsFiniteSet(Remaining)
  BY <1>1, FS_Subset DEF Remaining
<1>3. CASE Run
  <2>1. Remaining' = Tasks
    BY <1>3 DEF Run, Remaining, Tasks
  <2>. QED  BY <1>1, <1>3, <2>1 DEF Run
<1>4. CASE Spawn
  <2>1. Remaining' = Remaining
    BY <1>4 DEF Spawn, Remaining, Tasks
  <2>. QED  BY <1>4, <2>1 DEF Spawn, Tasks
<1>5. CASE AllSpawned
  BY <1>5 DEF AllSpawned, Remaining
<1>6. ASSUME NEW t \in Tasks, Compute(t) \/ Send(t) PROVE CountInv'
  <2>1. Remaining' = Remaining
    BY <1>6 DEF Compute, Send, Remaining
  <2>. QED  BY <1>6, <2>1 DEF Compute, Send, Remaining
<1>7. ASSUME NEW t \in Tasks, Done(t) PROVE CountInv'
  <2>1. t \in Remaining /\ Remaining' = Remaining \ {t}
    BY <1>7 DEF Done, Remaining
  <2>2. Cardinality(Remaining') = Cardinality(Remaining) - 1
    BY <1>2, <2>1, FS_RemoveElement
  <2>. QED  BY <1>7, <2>1, <2>2 DEF Done
<1>8. CASE Wait
  <2>1. Remaining = {}
    BY <1>2, <1>8, FS_EmptySet DEF Wait
  <2>. QED  BY <1>8, <2>1 DEF Wait, Remaining
<1>9. CASE Drain \/ Return
  BY <1>9 DEF Drain, Return, Remaining
<1>10. CASE UNCHANGED rvars
  BY <1>10 DEF rvars, Remaining
<1>. QED  BY <1>3, <1>4, <1>5, <1>6, <1>7, <1>8, <1>9, <1>10 DEF RNext, Main, Goroutine

(* Every step leaves a result in at most one place.                           *)
LEMMA PlaceStep ==
  ASSUME RIInv, [RNext]_rvars
  PROVE  PlaceInv'
<1>. USE DEF RIInv, RTypeOK
<1>1. CASE Run \/ AllSpawned \/ Wait \/ Return
  BY <1>1 DEF Run, AllSpawned, Wait, Return, PlaceInv
<1>2. CASE Spawn
  <2>1. spawned + 1 \in Tasks /\ pc[spawned + 1] = "unborn"
    BY <1>2, NumTasksAssumption DEF Spawn, CountInv, Tasks
  <2>. QED  BY <1>2, <2>1 DEF Spawn, PlaceInv
<1>3. ASSUME NEW t \in Tasks, Compute(t) \/ Done(t) PROVE PlaceInv'
  BY <1>3 DEF Compute, Done, PlaceInv
<1>4. ASSUME NEW t \in Tasks, Send(t) PROVE PlaceInv'
  <2>1. /\ \A u : In(u, ch') <=> In(u, ch) \/ u = t
        /\ NoDuplicate(ch')
    BY <1>4, Appended DEF Send, PlaceInv
  <2>. QED  BY <1>4, <2>1 DEF Send, PlaceInv
<1>5. CASE Drain
  <2>. DEFINE h == Head(ch)
  <2>1. /\ h \in Tasks
        /\ \A u : In(u, ch) <=> In(u, ch') \/ u = h
        /\ ~In(h, ch') /\ NoDuplicate(ch')
    BY <1>5, Taken DEF Drain, PlaceInv
  <2>2. In(h, ch)
    BY <2>1
  <2>. HIDE DEF h
  <2>3. pc[h] \in {"leaving", "gone"} /\ ~In(h, errors) /\ h \notin success
    BY <2>1, <2>2 DEF PlaceInv
  <2>4. CASE outcome[h] = "err"
    <3>1. errors' = Append(errors, h) /\ UNCHANGED <<success, pc, outcome>>
      BY <1>5, <2>4 DEF Drain, h
    <3>2. /\ \A u : In(u, errors') <=> In(u, errors) \/ u = h
          /\ NoDuplicate(errors')
      BY <2>1, <2>3, <3>1, Appended DEF PlaceInv
    <3>. QED  BY <2>1, <2>3, <2>4, <3>1, <3>2 DEF PlaceInv
  <2>5. CASE outcome[h] # "err"
    <3>1. success' = success \cup {h} /\ UNCHANGED <<errors, pc, outcome>>
      BY <1>5, <2>5 DEF Drain, h
    <3>2. outcome[h] = "ok"
      BY <2>1, <2>5 DEF Outcomes
    <3>. QED  BY <2>1, <2>3, <3>1, <3>2 DEF PlaceInv
  <2>. QED  BY <2>4, <2>5
<1>6. CASE UNCHANGED rvars
  BY <1>6 DEF rvars, PlaceInv
<1>. QED  BY <1>1, <1>2, <1>3, <1>4, <1>5, <1>6 DEF RNext, Main, Goroutine

(* The invariant of the task runner holds in every reachable state.           *)
LEMMA RInvariant == RSpec => []RIInv
<1>1. RInit => RIInv
  BY NumTasksAssumption DEF RInit, RIInv, RTypeOK, CountInv, PlaceInv, Tasks, In, NoDuplicate
<1>2. RIInv /\ [RNext]_rvars => RIInv'
  BY RTypeStep, CountStep, PlaceStep DEF RIInv
<1>. QED  BY <1>1, <1>2, PTL DEF RSpec

(* For any number of tasks and whatever they return, in any interleaving of   *)
(* the goroutines: when Run returns, the channel has been drained of exactly  *)
(* one result per task.                                                       *)
THEOREM RunAccountsForAll == RSpec => []EveryResultOnce
<1>1. RIInv => EveryResultOnce
  <2>. SUFFICES ASSUME RIInv, main = "returned" PROVE EveryResultOnce
    BY DEF EveryResultOnce
  <2>1. \A t \in Tasks : pc[t] = "gone" /\ ~In(t, ch)
    BY DEF RIInv, CountInv, Remaining, In
  <2>. QED  BY <2>1 DEF RIInv, RTypeOK, PlaceInv, EveryResultOnce, In, NoDuplicate, Outcomes
<1>. QED  BY <1>1, RInvariant, PTL

---------------------------------------------------------------------------
(* The worker delegate *)
Twin(n) == [pool |-> n.pool, index |-> n.index, legacy |-> ~n.legacy]
There(n) == deployments[n].st # "none"

(* A place has deployments of one naming scheme only, those in deletion too.  *)
SchemeInv ==
  /\ DOMAIN job = {"pc", "spec", "egress", "profile", "wanted"}
  /\ deployments = [n \in Names |-> deployments[n]]
  /\ \A n \in Names : ~(There(n) /\ There(Twin(n)))

(* Until they are deployed, the names a reconcile has chosen are of one scheme *)
(* per place, and nothing has appeared under the other one.                   *)
WantedInv == job.pc \in {"classes", "images", "deploy"} =>
  \A w \in job.wanted : /\ w.name \in Names /\ ~There(Twin(w.name))
                        /\ \A v \in job.wanted : v.name # Twin(w.name)

(* A class's name tells where its machines go.                                *)
ClassInv == \A c \in classes :
  c.zone = c.name.hash.zone /\ c.egress = c.name.hash.egress

WIInv == SchemeInv /\ WantedInv /\ ClassInv

(* A name has one twin: the same place under the other scheme.                *)
LEMMA TwinName ==
  ASSUME NEW n \in Names
  PROVE  /\ Twin(n) \in Names /\ Twin(Twin(n)) = n
         /\ Twin(n) = [pool |-> n.pool, index |-> n.index, legacy |-> ~n.legacy]
         /\ n.legacy \in BOOLEAN /\ Twin(n).legacy = ~n.legacy
<1>1. PICK p \in Pools, i \in 1..Longest, l \in BOOLEAN : n = [pool |-> p, index |-> i, legacy |-> l]
  BY DEF Names
<1>2. Twin(n) = [pool |-> p, index |-> i, legacy |-> ~l]
  BY <1>1 DEF Twin
<1>3. Twin(n) \in Names
  BY <1>2 DEF Names
<1>4. Twin(Twin(n)) = [pool |-> p, index |-> i, legacy |-> ~~l]
  BY <1>2 DEF Twin
<1>5. Twin(Twin(n)) = n
  <2>1. CASE l = TRUE
    BY <1>1, <1>4, <2>1
  <2>2. CASE l = FALSE
    BY <1>1, <1>4, <2>2
  <2>. QED  BY <2>1, <2>2
<1>. QED  BY <1>1, <1>2, <1>3, <1>5

(* The name chosen for a place is the old one iff something has it.           *)
LEMMA ChosenName ==
  ASSUME NEW f \in Naming, NEW pi \in Places(job.spec)
  PROVE  /\ f[pi] \in Names /\ f[pi].pool = pi[1] /\ f[pi].index = pi[2]
         /\ f[pi].legacy = There([pool |-> pi[1], index |-> pi[2], legacy |-> TRUE])
<1>1. f[pi] \in DeploymentName(pi[1], pi[2]) /\ f[pi] \in Names
  BY DEF Naming
<1>2. f[pi] = [pool |-> pi[1], index |-> pi[2],
               legacy |-> There([pool |-> pi[1], index |-> pi[2], legacy |-> TRUE])]
  BY <1>1 DEF DeploymentName, There
<1>. QED  BY <1>1, <1>2

(* A reconcile stays a record of the same fields.                             *)
LEMMA JobStep ==
  ASSUME WIInv, [Next]_vars
  PROVE  DOMAIN job' = {"pc", "spec", "egress", "profile", "wanted"}
BY DEF WIInv, SchemeInv, Next, Reconcile, Start, GenerateMachineDeployments, DeployMachineClasses,
       UpdateMachineImagesStatus, DeployMachineDeployments, WaitAvailable, CleanupDeployments,
       CleanupClasses, Interrupted, ChangePool, ChangeEgress, DropVersion, Vanishes, vars, world, Idle

(* No step gives a place deployments of both schemes.                         *)
LEMMA SchemeStep ==
  ASSUME WIInv, [Next]_vars
  PROVE  SchemeInv'
<1>. USE DEF WIInv, SchemeInv, There
<1>. DOMAIN job' = {"pc", "spec", "egress", "profile", "wanted"}
  BY JobStep
<1>1. ASSUME NEW n \in Names, Vanishes(n) PROVE SchemeInv'
  <2>1. \A m \in Names : deployments'[m].st # "none" => deployments[m].st # "none"
    BY <1>1 DEF Vanishes, Nowhere
  <2>2. deployments' = [m \in Names |-> deployments'[m]]
    BY <1>1 DEF Vanishes
  <2>. QED  BY <2>1, <2>2, TwinName
<1>2. ASSUME CleanupDeployments PROVE SchemeInv'
  <2>1. \A m \in Names : deployments'[m].st # "none" => deployments[m].st # "none"
    BY <1>2 DEF CleanupDeployments
  <2>2. deployments' = [m \in Names |-> deployments'[m]]
    BY <1>2 DEF CleanupDeployments
  <2>. QED  BY <2>1, <2>2, TwinName
<1>3. ASSUME DeployMachineDeployments PROVE SchemeInv'
  <2>1. \A m \in Names : deployments'[m].st # "none" =>
          deployments[m].st # "none" \/ \E w \in job.wanted : w.name = m
    BY <1>3 DEF DeployMachineDeployments
  <2>2. deployments' = [m \in Names |-> deployments'[m]]
    BY <1>3 DEF DeployMachineDeployments
  <2>3. \A w \in job.wanted : /\ w.name \in Names /\ deployments[Twin(w.name)].st = "none"
                              /\ \A v \in job.wanted : v.name # Twin(w.name)
    BY <1>3 DEF DeployMachineDeployments, WantedInv
  <2>4. ASSUME NEW n \in Names, deployments'[n].st # "none", deployments'[Twin(n)].st # "none"
        PROVE  FALSE
    <3>1. Twin(n) \in Names /\ Twin(Twin(n)) = n
      BY TwinName
    <3>2. CASE \E w \in job.wanted : w.name = n
      BY <2>1, <2>3, <2>4, <3>1, <3>2
    <3>3. CASE \E w \in job.wanted : w.name = Twin(n)
      BY <2>1, <2>3, <2>4, <3>1, <3>3
    <3>4. CASE \A w \in job.wanted : w.name # n /\ w.name # Twin(n)
      BY <2>1, <2>4, <3>1, <3>4
    <3>. QED  BY <3>2, <3>3, <3>4
  <2>. QED  BY <2>2, <2>4
<1>4. ASSUME UNCHANGED deployments PROVE SchemeInv'
  BY <1>4
<1>. QED
  BY <1>1, <1>2, <1>3, <1>4
  DEF Next, Reconcile, Start, GenerateMachineDeployments, DeployMachineClasses,
      UpdateMachineImagesStatus, WaitAvailable, CleanupClasses, Interrupted, ChangePool,
      ChangeEgress, DropVersion, vars

(* What a reconcile wants stays deployable under the names it has chosen.     *)
LEMMA WantedStep ==
  ASSUME WIInv, [Next]_vars
  PROVE  WantedInv'
<1>. USE DEF WIInv, There
<1>1. ASSUME GenerateMachineDeployments PROVE WantedInv'
  <2>1. PICK f \in Naming :
          job' = [job EXCEPT !.pc = "classes",
                    !.wanted = {[name |-> f[pi], class |-> ClassOf(f, pi)] : pi \in Places(job.spec)}]
    BY <1>1 DEF GenerateMachineDeployments
  <2>2. UNCHANGED deployments
    BY <1>1 DEF GenerateMachineDeployments
  <2>3. \A w \in job'.wanted : \E pi \in Places(job.spec) : w.name = f[pi]
    BY <2>1 DEF SchemeInv
  <2>4. ASSUME NEW pi \in Places(job.spec)
        PROVE  f[pi] \in Names /\ deployments[Twin(f[pi])].st = "none"
    <3>. DEFINE old == [pool |-> pi[1], index |-> pi[2], legacy |-> TRUE]
    <3>1. /\ f[pi] \in Names /\ f[pi].pool = pi[1] /\ f[pi].index = pi[2]
          /\ f[pi].legacy = (deployments[old].st # "none")
      BY ChosenName
    <3>2. Twin(f[pi]) = [pool |-> pi[1], index |-> pi[2], legacy |-> ~f[pi].legacy]
      BY <3>1, TwinName
    <3>3. CASE deployments[old].st # "none"
      <4>1. f[pi] = old
        BY <3>1, <3>3 DEF Names
      <4>. QED  BY <3>1, <3>3, <4>1 DEF SchemeInv
    <3>4. CASE deployments[old].st = "none"
      <4>1. Twin(f[pi]) = old
        BY <3>1, <3>2, <3>4
      <4>. QED  BY <3>1, <3>4, <4>1
    <3>. QED  BY <3>3, <3>4
  <2>5. ASSUME NEW pi \in Places(job.spec), NEW pj \in Places(job.spec)
        PROVE  f[pj] # Twin(f[pi])
    <3>1. /\ f[pi] \in Names /\ f[pi].pool = pi[1] /\ f[pi].index = pi[2]
          /\ f[pi].legacy = (deployments[[pool |-> pi[1], index |-> pi[2], legacy |-> TRUE]].st # "none")
      BY ChosenName
    <3>2. /\ f[pj] \in Names /\ f[pj].pool = pj[1] /\ f[pj].index = pj[2]
          /\ f[pj].legacy = (deployments[[pool |-> pj[1], index |-> pj[2], legacy |-> TRUE]].st # "none")
      BY ChosenName
    <3>3. /\ Twin(f[pi]).pool = pi[1] /\ Twin(f[pi]).index = pi[2]
          /\ Twin(f[pi]).legacy # f[pi].legacy
      BY <3>1, TwinName DEF Names
    <3>. QED  BY <3>1, <3>2, <3>3
  <2>. QED  BY <2>2, <2>3, <2>4, <2>5 DEF WantedInv
<1>2. ASSUME NEW n \in Names, Vanishes(n) PROVE WantedInv'
  <2>1. UNCHANGED job /\ \A m \in Names : deployments[m].st = "none" => deployments'[m].st = "none"
    BY <1>2 DEF Vanishes, Nowhere, SchemeInv
  <2>. QED  BY <2>1, TwinName DEF WantedInv
<1>3. ASSUME UNCHANGED deployments, UNCHANGED job.wanted,
             job'.pc \in {"classes", "images", "deploy"} => job.pc \in {"classes", "images", "deploy"}
      PROVE  WantedInv'
  BY <1>3 DEF WantedInv
<1>4. ASSUME job'.pc \notin {"classes", "images", "deploy"} PROVE WantedInv'
  BY <1>4 DEF WantedInv
<1>5. ASSUME DeployMachineClasses \/ UpdateMachineImagesStatus PROVE WantedInv'
  <2>1. UNCHANGED deployments
    BY <1>5 DEF DeployMachineClasses, UpdateMachineImagesStatus
  <2>2. \/ job'.pc = "idle"
        \/ UNCHANGED job.wanted /\ job.pc \in {"classes", "images"}
    BY <1>5 DEF DeployMachineClasses, UpdateMachineImagesStatus, SchemeInv, Idle
  <2>. QED  BY <1>3, <1>4, <2>1, <2>2
<1>6. ASSUME Start \/ DeployMachineDeployments \/ WaitAvailable \/ CleanupDeployments
             \/ CleanupClasses \/ Interrupted
      PROVE  WantedInv'
  <2>1. Idle.pc = "idle" /\ [Idle EXCEPT !.pc = "generate", !.spec = spec, !.egress = egress,
                                         !.profile = profile].pc = "generate"
    BY DEF Idle
  <2>2. \A x : [job EXCEPT !.pc = x].pc = x
    BY DEF SchemeInv
  <2>3. job' = Idle \/ (\E x \in {"wait", "cleanup", "waitDeleted"} : job' = [job EXCEPT !.pc = x])
        \/ job' = [Idle EXCEPT !.pc = "generate", !.spec = spec, !.egress = egress, !.profile = profile]
    <3>1. CASE WaitAvailable
      BY <3>1 DEF WaitAvailable
    <3>. QED
      BY <1>6, <3>1 DEF Start, DeployMachineDeployments, CleanupDeployments, CleanupClasses, Interrupted
  <2>. QED  BY <1>4, <2>1, <2>2, <2>3
<1>7. ASSUME UNCHANGED <<deployments, job>> PROVE WantedInv'
  BY <1>3, <1>7
<1>. QED
  BY <1>1, <1>2, <1>5, <1>6, <1>7
  DEF Next, Reconcile, ChangePool, ChangeEgress, DropVersion, vars

(* Classes are made with the place their name tells, and never edited.        *)
LEMMA ClassStep ==
  ASSUME WIInv, [Next]_vars
  PROVE  ClassInv'
<1>. USE DEF WIInv, ClassInv
<1>1. ASSUME DeployMachineClasses PROVE ClassInv'
  <2>1. CASE UNCHANGED classes
    BY <2>1
  <2>2. CASE CanGenerate
    <3>1. PICK f \in Naming :
            LET made == {[name |-> [deployment |-> f[pi],
                                    hash |-> HashInClass(job.spec[pi[1]], pi[2], job.egress)],
                          zone |-> job.spec[pi[1]].zones[pi[2]],
                          egress |-> job.egress, image |-> Image(job.spec[pi[1]].version)] :
                           pi \in Places(job.spec)} IN
            classes' = made \cup {c \in classes : \A m \in made : m.name # c.name}
      BY <1>1, <2>2 DEF DeployMachineClasses
    <3>2. \A c \in classes' : c \in classes \/
            \E pi \in Places(job.spec) :
               c = [name |-> [deployment |-> f[pi],
                              hash |-> HashInClass(job.spec[pi[1]], pi[2], job.egress)],
                    zone |-> job.spec[pi[1]].zones[pi[2]],
                    egress |-> job.egress, image |-> Image(job.spec[pi[1]].version)]
      BY <3>1
    <3>. QED  BY <3>2 DEF HashInClass, Hash
  <2>. QED  BY <1>1, <2>1, <2>2 DEF DeployMachineClasses
<1>2. ASSUME classes' \subseteq classes PROVE ClassInv'
  BY <1>2
<1>. QED
  BY <1>1, <1>2
  DEF Next, Reconcile, Start, GenerateMachineDeployments, UpdateMachineImagesStatus,
      DeployMachineDeployments, WaitAvailable, CleanupDeployments, CleanupClasses,
      Interrupted, ChangePool, ChangeEgress, DropVersion, Vanishes, vars

(* The three hold in every state of a worker.                                  *)
LEMMA WInvariant == Spec => []WIInv
<1>1. Init => WIInv
  <2>. SUFFICES ASSUME Init PROVE WIInv
    OBVIOUS
  <2>1. PICK old \in BOOLEAN :
          LET was(n) == old /\ n.legacy /\ <<n.pool, n.index>> \in Places(spec)
              class(n) == ClassName(n, spec[n.pool], n.index, egress) IN
          /\ deployments = [n \in Names |-> IF was(n) THEN [st |-> "live", class |-> class(n)] ELSE Nowhere]
          /\ classes = {[name |-> class(n), zone |-> spec[n.pool].zones[n.index],
                         egress |-> egress, image |-> 1] : n \in {m \in Names : was(m)}}
    BY DEF Init
  <2>2. ClassInv
    <3>1. \A c \in classes : \E n \in Names :
            c = [name |-> ClassName(n, spec[n.pool], n.index, egress),
                 zone |-> spec[n.pool].zones[n.index], egress |-> egress, image |-> 1]
      BY <2>1
    <3>. QED  BY <3>1 DEF ClassInv, ClassName, Hash
  <2>3. /\ deployments = [n \in Names |-> deployments[n]]
        /\ \A n \in Names : There(n) => n.legacy = TRUE
    BY <2>1, TwinName DEF There, Nowhere
  <2>4. SchemeInv
    <3>1. \A n \in Names : ~(There(n) /\ There(Twin(n)))
      BY <2>3, TwinName
    <3>. QED  BY <2>3, <3>1 DEF SchemeInv, Init, Idle
  <2>5. WantedInv
    BY DEF Init, Idle, WantedInv
  <2>. QED  BY <2>2, <2>4, <2>5 DEF WIInv
<1>2. WIInv /\ [Next]_vars => WIInv'
  BY SchemeStep, WantedStep, ClassStep DEF WIInv
<1>. QED  BY <1>1, <1>2, PTL DEF Spec

(* However reconciles, changes of pools, finished deletions and restarts      *)
(* interleave, determineDeploymentName and the deployment of what it named    *)
(* never leave a place with machines under the old and the new name at once.  *)
THEOREM WorkersHaveNoTwin == Spec => []NoTwin
<1>1. WIInv => NoTwin
  <2>. SUFFICES ASSUME SchemeInv, NEW p \in Pools, NEW i \in 1..Longest
                PROVE  ~(/\ Live([pool |-> p, index |-> i, legacy |-> TRUE])
                         /\ Live([pool |-> p, index |-> i, legacy |-> FALSE]))
    BY DEF WIInv, NoTwin
  <2>. DEFINE long == [pool |-> p, index |-> i, legacy |-> TRUE]
  <2>1. long \in Names /\ Twin(long) = [pool |-> p, index |-> i, legacy |-> FALSE]
    BY TwinName DEF Names
  <2>. QED  BY <2>1 DEF SchemeInv, There, Live
<1>. QED  BY <1>1, WInvariant, PTL

(* No step puts another zone or egress setting behind the name of a class:    *)
(* both computations of the hash in machines.go take them in.                 *)
THEOREM ClassesKeepTheirPlace == Spec => ClassKeepsPlace
<1>1. WIInv /\ WIInv' => \A c \in classes, d \in classes' :
        c.name = d.name => c.zone = d.zone /\ c.egress = d.egress
  BY DEF WIInv, ClassInv
<1>. QED  BY <1>1, WInvariant, PTL DEF ClassKeepsPlace

(* UpdateMachineImagesStatus, the one writer of the images in the worker's     *)
(* status, keeps what the worker as it stands uses after the CloudProfile     *)
(* has dropped it.                                                            *)
THEOREM UsedImagesStay == Spec => UsedImageStays
<1>. DEFINE Stays == \A v \in Versions :
       images[v] # 0 /\ v \in UsedVersions(spec) /\ spec' = spec /\ job.spec = spec => images'[v] # 0
<1>1. [Next]_vars => Stays
  <2>1. ASSUME UpdateMachineImagesStatus PROVE Stays
    BY <2>1 DEF UpdateMachineImagesStatus, Image, FindImage
  <2>2. ASSUME UNCHANGED images PROVE Stays
    BY <2>2
  <2>. HIDE DEF Stays
  <2>. QED
    BY <2>1, <2>2
    DEF Next, Reconcile, Start, GenerateMachineDeployments, DeployMachineClasses,
        DeployMachineDeployments, WaitAvailable, CleanupDeployments, CleanupClasses,
        Interrupted, ChangePool, ChangeEgress, DropVersion, Vanishes, vars
<1>2. [Next]_vars => [Stays]_vars
  BY <1>1
<1>. QED  BY <1>2, PTL DEF Spec, UsedImageStays

=============================================================================
