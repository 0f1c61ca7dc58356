----------------------------- MODULE GrantReplay -----------------------------
(***************************************************************************)
(* One-time signaling tokens: grantauth.Validator's time window and         *)
(* grantauth.ReplayGuard over MemoryReplayStore, in the order               *)
(* signaling.HandleWebSocket calls them.                                    *)
(*                                                                          *)
(* A request goroutine first validates its token and only later, under      *)
(* s.mu, consumes the token's ID.  Time passes between the two, and other   *)
(* requests may hold the same token.  Unlike the agent registry the store   *)
(* reads the time after it took the lock, so its times never run backwards. *)
(*                                                                          *)
(* Signatures, audience and issuer are left out: every token here has       *)
(* already passed those checks.  IDs are UUIDs, so a token is its ID.       *)
(***************************************************************************)
EXTENDS Integers

CONSTANTS
    Token,       \* signaling tokens, by ID
    NotBefore,   \* the nbf claim of each token
    ExpiresAt,   \* the exp claim of each token
    ClockSkew,   \* Validator.clockSkew, 30 seconds in the code
    Request,     \* BOUND: the WebSocket requests, one goroutine each
    Absent,      \* "no record in the store", and a request not yet validated
    Answered,    \* a request the guard accepted or refused
    MaxClock     \* BOUND: the time horizon TLC explores

ASSUME TokensAssumption ==
    /\ NotBefore \in [Token -> Nat]
    /\ ExpiresAt \in [Token -> Nat]
    /\ ClockSkew \in Nat
    /\ MaxClock \in Nat
    /\ Absent \notin Nat

VARIABLES
    seen,     \* the store: token -> the time until which it is recorded
    clock,    \* real time
    request,  \* the validated token a request has still to consume
    uses,     \* history: how often each token was accepted
    early     \* history: how often it was accepted before its expiry

replayVars == <<seen, clock, request, uses, early>>

Init ==
    /\ seen = [t \in Token |-> Absent]
    /\ clock = 0
    /\ request = [r \in Request |-> Absent]
    /\ uses = [t \in Token |-> 0]
    /\ early = [t \in Token |-> 0]

-----------------------------------------------------------------------------
Tick ==
    /\ clock < MaxClock
    /\ clock' = clock + 1
    /\ UNCHANGED <<seen, request, uses, early>>

\* The time checks of Validator.Validate.
WithinWindow(t) ==
    /\ clock <= ExpiresAt[t] + ClockSkew
    /\ clock >= NotBefore[t] - ClockSkew

\* Validator.Validate accepts the token of r.
Validate(r, t) ==
    /\ request[r] = Absent
    /\ WithinWindow(t)
    /\ request' = [request EXCEPT ![r] = t]
    /\ UNCHANGED <<seen, clock, uses, early>>

\* What is left of the store after the sweep each Consume begins with.
Pruned == [t \in Token |-> IF seen[t] # Absent /\ seen[t] > clock THEN seen[t] ELSE Absent]

\* A token is recorded until its expiry, or until now if that is past.  The guard
\* makes the same choice with an earlier now, which the store's overrides.
RecordUntil(t) == IF ExpiresAt[t] < clock THEN clock ELSE ExpiresAt[t]

\* Mutant of Accept: the token is recorded without a look at the record.
AcceptUnchecked(r, t) ==
    /\ request[r] = t
    /\ seen' = [Pruned EXCEPT ![t] = RecordUntil(t)]
    /\ request' = [request EXCEPT ![r] = Answered]
    /\ uses' = [uses EXCEPT ![t] = @ + 1]
    /\ early' = [early EXCEPT ![t] = IF clock < ExpiresAt[t] THEN @ + 1 ELSE @]
    /\ UNCHANGED clock

\* ReplayGuard.Consume and MemoryReplayStore.Consume accept the token ...
Accept(r, t) ==
    /\ request[r] = t
    /\ Pruned[t] = Absent
    /\ seen' = [Pruned EXCEPT ![t] = RecordUntil(t)]
    /\ request' = [request EXCEPT ![r] = Answered]
    /\ uses' = [uses EXCEPT ![t] = @ + 1]
    /\ early' = [early EXCEPT ![t] = IF clock < ExpiresAt[t] THEN @ + 1 ELSE @]
    /\ UNCHANGED clock

\* ... or fail with ErrReplayDetected; the sweep is done all the same.
Refuse(r, t) ==
    /\ request[r] = t
    /\ Pruned[t] # Absent
    /\ seen' = Pruned
    /\ request' = [request EXCEPT ![r] = Answered]
    /\ UNCHANGED <<clock, uses, early>>

Next ==
    \/ Tick
    \/ \E r \in Request, t \in Token :
        \/ Validate(r, t)
        \/ Accept(r, t)
        \/ Refuse(r, t)

Spec == Init /\ [][Next]_replayVars

-----------------------------------------------------------------------------
\* The shape of the store and of the requests.
TypeOK ==
    /\ seen \in [Token -> Nat \cup {Absent}]
    /\ clock \in Nat
    /\ request \in [Request -> Token \cup {Absent, Answered}]
    /\ uses \in [Token -> Nat]
    /\ early \in [Token -> Nat]

\* Until a used token expires its record stands: no sweep, run for whichever
\* other token, forgets it early.  And the store records nothing but used tokens,
\* so the first use of a token is never refused as a replay.
RecordsMatchUses ==
    \A t \in Token :
        /\ uses[t] > 0 /\ clock < ExpiresAt[t] => seen[t] = ExpiresAt[t]
        /\ seen[t] # Absent => uses[t] > 0
        /\ early[t] <= uses[t]

\* Before its expiry a token opens one connection at most, however many requests
\* validated it at the same time.
OneUseBeforeExpiry == \A t \in Token : early[t] <= 1

ReplayInv == TypeOK /\ RecordsMatchUses /\ OneUseBeforeExpiry

SecondUseStep ==
    \A t \in Token : uses[t] > 0 /\ uses'[t] # uses[t] => clock >= ExpiresAt[t]

\* A second acceptance of a token, if there is one, falls after its expiry.
SecondUseIsLate == [][SecondUseStep]_replayVars

\* docs/architecture.md: "A signaling token ID must be accepted once globally".
\* The code keeps the record until the expiry, and the validator accepts the
\* token for ClockSkew longer.
AcceptedOnce == \A t \in Token : uses[t] <= 1
=============================================================================
