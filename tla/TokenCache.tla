----------------------------- MODULE TokenCache -----------------------------
(***************************************************************************)
(* The bearer tokens of one client of a GDC cluster.  The service account's *)
(* key signs a JWT, the security token service exchanges it for an access    *)
(* token, and the client's requests share the token through a cache that     *)
(* goes by the expiry the exchange has worked out.  Time passes only while   *)
(* an exchange is out or nobody has anything to do.                          *)
(***************************************************************************)
EXTENDS Naturals

CONSTANTS
  Requests,   \* the client's concurrent requests
  Lifetimes,  \* values of expires_in
  Leeway,     \* how long before its expiry the cache gives a token up
  JWTLife,    \* how long a signed JWT is good: 24 hours
  Timeout,    \* of the HTTP client of the exchange: 30 seconds
  MaxTime,    \* bound of the clock
  MaxExchangeFaults,  \* bound: failed exchanges
  None

(* The service issues a token for longer than the cache's leeway; one issued *)
(* for less the cache would give up as soon as it has it.                   *)
ASSUME TokensAssumption ==
  /\ Leeway \in Nat /\ Timeout \in Nat
  /\ Lifetimes \subseteq {l \in Nat : l > Leeway}

VARIABLES
  clock,
  cached,   \* the cache's token: its expiry as computed here, that of the
            \* server, and how long its exchange has taken
  holder,   \* of the cache's lock
  call,     \* by request: its step, when it read the clock, when it asked the
            \* service, when that issued the token and for how long
  handed,   \* by request: the token it was handed, when, and whether because
            \* its own exchange had failed
  tfaults
tvars == <<clock, cached, holder, call, handed, tfaults>>

NoCall == [pc |-> "idle", at |-> 0, asked |-> 0, issued |-> None, lifetime |-> 0]
TInit ==
  /\ clock = 0 /\ cached = None /\ holder = None
  /\ call = [r \in Requests |-> NoCall] /\ handed = [r \in Requests |-> None] /\ tfaults = 0

Step(r, pc) == call' = [call EXCEPT ![r].pc = pc]
HandOut(r, token, failed) ==
  /\ handed' = [handed EXCEPT ![r] = [token |-> token, at |-> clock, failed |-> failed]]
  /\ call' = [call EXCEPT ![r] = NoCall]

(* The cache: the clock is read before the lock and once only.               *)
Fresh(token, at) == token # None /\ token.expiry > at + Leeway
SendRequest(r) ==
  /\ call[r].pc = "idle"
  /\ call' = [call EXCEPT ![r] = [NoCall EXCEPT !.pc = "look", !.at = clock]]
  /\ UNCHANGED <<clock, cached, holder, handed, tfaults>>
Look(r) ==
  /\ call[r].pc = "look"
  /\ IF Fresh(cached, call[r].at) THEN HandOut(r, cached, FALSE)
     ELSE Step(r, "lock") /\ UNCHANGED handed
  /\ UNCHANGED <<clock, cached, holder, tfaults>>
Lock(r) ==
  /\ call[r].pc = "lock" /\ holder = None
  /\ IF Fresh(cached, call[r].at) THEN HandOut(r, cached, FALSE) /\ UNCHANGED holder
     ELSE holder' = r /\ Step(r, "sign") /\ UNCHANGED handed
  /\ UNCHANGED <<clock, cached, tfaults>>

---------------------------------------------------------------------------
(* Token: signs anew, asks, and counts expires_in from the answer's arrival; *)
(* the service counts it from the issue, which comes earlier.                *)
Expiry_OfJWT(asked, lifetime) == asked + JWTLife
Expiry(arrived, lifetime) == arrived + lifetime

Unlock == holder' = None
(* The old token, expired or not, is better than none.                       *)
ExchangeFails(r) == Unlock /\ HandOut(r, cached, TRUE) /\ UNCHANGED cached

Sign(r) ==
  /\ call[r].pc = "sign"
  /\ \/ call' = [call EXCEPT ![r].pc = "ask", ![r].asked = clock]
        /\ UNCHANGED <<cached, holder, handed, tfaults>>
     \/ tfaults < MaxExchangeFaults /\ tfaults' = tfaults + 1 /\ ExchangeFails(r)
  /\ UNCHANGED clock
Issue(r) ==
  /\ call[r].pc = "ask" /\ call[r].issued = None
  /\ \E lifetime \in Lifetimes :
       call' = [call EXCEPT ![r].issued = clock, ![r].lifetime = lifetime]
  /\ UNCHANGED <<clock, cached, holder, handed, tfaults>>
Answer(r) ==
  LET c == call[r]
      token == [expiry |-> Expiry(clock, c.lifetime), real |-> c.issued + c.lifetime,
                took |-> clock - c.asked]
  IN /\ c.pc = "ask" /\ c.issued # None /\ clock < c.asked + Timeout
     /\ cached' = token /\ Unlock /\ HandOut(r, token, FALSE)
     /\ UNCHANGED <<clock, tfaults>>
(* No answer in time, or one that is no token.                               *)
Refused(r) ==
  /\ call[r].pc = "ask"
  /\ \/ clock = call[r].asked + Timeout /\ UNCHANGED tfaults
     \/ tfaults < MaxExchangeFaults /\ tfaults' = tfaults + 1
  /\ ExchangeFails(r) /\ UNCHANGED clock

Waiting(r) ==
  \/ call[r].pc = "idle"
  \/ call[r].pc = "lock" /\ holder # None
  \/ call[r].pc = "ask" /\ clock < call[r].asked + Timeout
Tick ==
  /\ clock < MaxTime /\ clock' = clock + 1
  /\ \A r \in Requests : Waiting(r)
  /\ UNCHANGED <<cached, holder, call, handed, tfaults>>

TNext ==
  \/ \E r \in Requests : SendRequest(r) \/ Look(r) \/ Lock(r) \/ Sign(r) \/ Issue(r) \/ Answer(r)
                           \/ Refused(r)
  \/ Tick
TSpec == TInit /\ [][TNext]_tvars

---------------------------------------------------------------------------
(* A request's token is still good at the server when it is handed out, or    *)
(* over for no longer than its exchange took beyond the cache's leeway, also  *)
(* for a request that has read the clock and then waited for the lock behind  *)
(* exchanges of others.  Only a request whose own exchange has failed may get *)
(* an older one.                                                             *)
SentIsValid ==
  \A r \in Requests : LET h == handed[r] IN
    h # None /\ ~h.failed => \/ h.at < h.token.real
                             \/ h.at + Leeway < h.token.real + h.token.took
=============================================================================
