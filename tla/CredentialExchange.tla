------------------------- MODULE CredentialExchange -------------------------
(***************************************************************************)
(* The two endpoints that turn a credential into tokens, handleAuthExchange  *)
(* and handleDeviceLogin, over the UserKeyStore and the AuthFailureLimiter.  *)
(*                                                                           *)
(* A request asks the limiter, looks its credential up, and records a        *)
(* failure or resets the limiter: three critical sections of two mutexes, so *)
(* requests of the same remote interleave between them.  What Consume of a   *)
(* login key answers is in AuthTokens, as are the tokens that are issued;    *)
(* here a login key is either refused or yields the subject it was issued to.*)
(* A request that is malformed changes nothing and is no step.               *)
(***************************************************************************)
EXTENDS UserKeyStore, AuthFailureLimiter

CONSTANT Handler  \* BOUND: requests in flight at once

ASSUME HandlerAssumption == IsFiniteSet(Handler)

VARIABLES
    request,  \* the request each handler goroutine is serving
    guesses   \* history: the lookups that failed for a remote, by real time,
              \* within the window and since the limiter was last reset for it

exchangeVars == <<storeVars, records, clock, request, guesses>>

Idle == [pc |-> "idle"]
Serving(label, r) == [pc |-> label, remote |-> r]
Rejected(r) == [pc |-> "record", remote |-> r, at |-> clock]

Init ==
    /\ StoreInit
    /\ LimiterInit
    /\ request = [h \in Handler |-> Idle]
    /\ guesses = [r \in Remote |-> {}]

-----------------------------------------------------------------------------
\* allowCredentialAuth
Admit(h, r, now) ==
    /\ request[h] = Idle
    /\ Allow(r, now)
    /\ request' = [request EXCEPT ![h] = Serving("lookup", r)]
    /\ UNCHANGED <<storeVars, clock, guesses>>

\* ... its 429.
TooManyAttempts(r, now) ==
    /\ Refuse(r, now)
    /\ UNCHANGED <<storeVars, clock, request, guesses>>

\* isEntitlementUsable of what a lookup returned.
IsUsable(e) == e # Absent /\ e.usable

LookedUp(h, good) ==
    LET r == request[h].remote IN
    /\ request[h].pc = "lookup"
    /\ request' = [request EXCEPT ![h] = IF good THEN Serving("reset", r) ELSE Rejected(r)]
    /\ guesses' = IF good THEN guesses ELSE [guesses EXCEPT ![r] = WithFailure(@, clock)]
    /\ UNCHANGED <<storeVars, records, clock>>

\* handleAuthExchange: the user key.
ExchangeUserKey(h, k) == LookedUp(h, IsUsable(Lookup(k)))

\* handleDeviceLogin: the login key of subject s, or one that Consume refuses.
ConsumeLoginKey(h, s) == LookedUp(h, IsUsable(LookupBySubject(s)))

ConsumeFails(h) == LookedUp(h, FALSE)

\* The 401 of both handlers; the time is read after the lookup.
Unauthorized(h, now) ==
    /\ request[h].pc = "record"
    /\ now >= request[h].at
    /\ RecordFailure(request[h].remote, now)
    /\ request' = [request EXCEPT ![h] = Idle]
    /\ UNCHANGED <<storeVars, clock, guesses>>

\* The way to the 200, and to the 500 where issueAuthTokens fails.
Authorized(h) ==
    LET r == request[h].remote IN
    /\ request[h].pc = "reset"
    /\ Reset(r)
    /\ request' = [request EXCEPT ![h] = Idle]
    /\ guesses' = [guesses EXCEPT ![r] = {}]
    /\ UNCHANGED <<storeVars, clock>>

\* The entitlements change: seeded by the server, later by embedders of the package.
StoreWrite == StoreNext /\ UNCHANGED <<records, clock, request, guesses>>

Tick ==
    /\ clock < MaxClock
    /\ clock' = clock + 1
    /\ guesses' = [r \in Remote |-> Within(guesses[r], clock')]
    /\ UNCHANGED <<storeVars, records, request>>

Step(h) ==
    \/ \E k \in Key : ExchangeUserKey(h, k)
    \/ \E s \in Subject : ConsumeLoginKey(h, s)
    \/ ConsumeFails(h)
    \/ \E now \in Stamps : Unauthorized(h, now)
    \/ Authorized(h)

Next ==
    \/ Tick
    \/ StoreWrite
    \/ \E r \in Remote, now \in Stamps :
        \/ TooManyAttempts(r, now)
        \/ \E h \in Handler : Admit(h, r, now)
    \/ \E h \in Handler : Step(h)

Spec == Init /\ [][Next]_exchangeVars

\* Time passes and handlers run; nobody has to send a request.
FairSpec ==
    /\ Spec
    /\ WF_exchangeVars(Tick)
    /\ \A h \in Handler : WF_exchangeVars(Step(h))

-----------------------------------------------------------------------------
\* The shape of the state of handlers and limiter.
ExchangeTypeOK ==
    /\ StoreTypeOK
    /\ LimiterTypeOK
    /\ request \in [Handler -> {Idle} \cup [pc : {"lookup", "reset"}, remote : Remote]
                                    \cup [pc : {"record"}, remote : Remote, at : Nat]]
    /\ guesses \in [Remote -> SUBSET Failure]

\* Between Allow and RecordFailure nothing counts a request, so those in flight
\* together exceed the limit; but never by more than there can be: since its last reset,
\* which a right credential brings, a remote tries within a window at most
\* Limit + Handler - 1 wrong ones.
GuessesBounded ==
    \A r \in Remote : Cardinality(Within(guesses[r], clock)) < Limit + Cardinality(Handler)

LockedOut(r) == Cardinality(Within(records[r], clock)) >= Limit

\* A lock-out ends: refused attempts do not prolong it, however often they come and
\* whatever is in flight, as far as the horizon lets its failures expire.
LockoutEnds ==
    \A r \in Remote :
        \A t \in {u \in 0..MaxClock : u + 2 * Window + LockDelay < MaxClock} :
            LockedOut(r) /\ clock = t ~> ~LockedOut(r)
=============================================================================
