----------------------------- MODULE AuthTokens -----------------------------
(***************************************************************************)
(* The credential endpoints of cmd/shellin-control-plane/auth_handlers.go   *)
(* over the user key store, controlplane.RefreshTokenStore and              *)
(* controlplane.LoginKeyStore, and the sweep of the two token stores.       *)
(*                                                                          *)
(* Each store has a mutex of its own and every call is one critical section *)
(* of one store, so a request is several steps and other requests, sweeps   *)
(* and entitlement updates come between them.  Like the agent registry the  *)
(* token stores read the time before they lock.                             *)
(*                                                                          *)
(* Left out: access tokens (any subject may hold one), MaxSessions, and the *)
(* rate limiter in front of exchange and device login, which only refuses.  *)
(* A refusal that changes nothing is no step.                               *)
(***************************************************************************)
EXTENDS UserKeyStore, Integers, FiniteSets

CONSTANTS
    RefreshToken,  \* BOUND: the random refresh tokens; none is generated twice
    LoginKey,      \* login keys: words, so one may be generated again
    RefreshTTL,    \* cfg.RefreshTTL
    LoginTTL,      \* the ttl of a login key
    Request,       \* BOUND: requests in flight at once
    LockDelay,     \* BOUND: longest wait between reading the time and a mutex
    MaxClock,      \* BOUND: the time horizon TLC explores
    MaxIssues      \* BOUND: how often one login key is generated

ASSUME TokensAssumption ==
    /\ RefreshTTL \in Nat /\ LoginTTL \in Nat
    /\ LockDelay \in Nat /\ MaxClock \in Nat /\ MaxIssues \in Nat
    /\ Absent \notin RefreshToken
    /\ Absent \notin [subject : Subject, expiresAt : Nat]

VARIABLES
    tokens,     \* refresh token -> [subject, expiresAt], or Absent
    loginKeys,  \* login key -> [subject, expiresAt], or Absent
    request,    \* what each request goroutine is doing
    clock,      \* real time
    family,     \* history: token -> the first token of its login, or Absent if unissued
    ended,      \* history: families that expired or that a 500 cut off
    keyIssued,  \* history: how often each login key was issued
    keySpent    \* history: how often it logged in, was refused after its lookup,
                \* or expired

authVars == <<items, subjectToID, originalTxToID, tokens, loginKeys, request, clock,
              family, ended, keyIssued, keySpent>>

Idle == [pc |-> "idle"]

Init ==
    /\ StoreInit
    /\ tokens = [t \in RefreshToken |-> Absent]
    /\ loginKeys = [k \in LoginKey |-> Absent]
    /\ request = [r \in Request |-> Idle]
    /\ clock = 0
    /\ family = [t \in RefreshToken |-> Absent]
    /\ ended = {}
    /\ keyIssued = [k \in LoginKey |-> 0]
    /\ keySpent = [k \in LoginKey |-> 0]

-----------------------------------------------------------------------------
Stamps == {t \in 0..clock : clock <= t + LockDelay}

isEntitlementUsable(e) == e # Absent /\ e.usable

Expired(record, now) == now > record.expiresAt

Goto(r, state) == request' = [request EXCEPT ![r] = state]

\* The families of the tokens in T that are really past their expiry.
RunOut(T) == {family[t] : t \in {u \in T : Expired(tokens[u], clock)}}

\* handleAuthExchange up to issueAuthTokens.
Exchange(r, k) ==
    /\ request[r] = Idle
    /\ isEntitlementUsable(Lookup(k))
    /\ Goto(r, [pc |-> "issuing", subject |-> Lookup(k).subject, root |-> Absent])
    /\ UNCHANGED <<storeVars, tokens, loginKeys, clock, family, ended, keyIssued, keySpent>>

\* RefreshTokenStore.Peek, the first call of handleAuthRefresh.
Peek(r, t, now) ==
    /\ request[r] = Idle
    /\ tokens[t] # Absent
    /\ ~Expired(tokens[t], now)
    /\ Goto(r, [pc |-> "peeked", token |-> t, subject |-> tokens[t].subject])
    /\ UNCHANGED <<storeVars, tokens, loginKeys, clock, family, ended, keyIssued, keySpent>>

\* The entitlement of the token's subject; a 401 leaves the token alone.
RefreshLookup(r) ==
    /\ request[r].pc = "peeked"
    /\ Goto(r, IF isEntitlementUsable(LookupBySubject(request[r].subject))
               THEN [request[r] EXCEPT !.pc = "entitled"] ELSE Idle)
    /\ UNCHANGED <<storeVars, tokens, loginKeys, clock, family, ended, keyIssued, keySpent>>

\* Mutant of Consume: a second Peek, nothing is deleted.
ConsumeKeepsToken(r, now) ==
    LET t == request[r].token IN
    /\ request[r].pc = "entitled"
    /\ Goto(r, IF tokens[t] = Absent \/ Expired(tokens[t], now) THEN Idle
               ELSE [pc |-> "issuing", subject |-> request[r].subject, root |-> family[t]])
    /\ UNCHANGED <<storeVars, tokens, ended, loginKeys, clock, family, keyIssued, keySpent>>

\* RefreshTokenStore.Consume: found, deleted, and refused if expired by now.
Consume(r, now) ==
    LET t == request[r].token IN
    /\ request[r].pc = "entitled"
    /\ IF tokens[t] = Absent
       THEN Goto(r, Idle) /\ UNCHANGED <<tokens, ended>>
       ELSE /\ tokens' = [tokens EXCEPT ![t] = Absent]
            /\ IF Expired(tokens[t], now) \/ tokens[t].subject # request[r].subject
               THEN Goto(r, Idle) /\ ended' = ended \cup RunOut({t})
               ELSE /\ Goto(r, [pc |-> "issuing", subject |-> request[r].subject,
                                root |-> family[t]])
                    /\ UNCHANGED ended
    /\ UNCHANGED <<storeVars, loginKeys, clock, family, keyIssued, keySpent>>

\* issueAuthTokens with a fresh refresh token, and the 200.
IssueAuthTokens(r, t, now) ==
    /\ request[r].pc = "issuing"
    /\ family[t] = Absent
    /\ tokens' = [tokens EXCEPT ![t] = [subject |-> request[r].subject,
                                        expiresAt |-> now + RefreshTTL]]
    /\ family' = [family EXCEPT ![t] = IF request[r].root = Absent THEN t ELSE request[r].root]
    /\ Goto(r, Idle)
    /\ UNCHANGED <<storeVars, loginKeys, clock, ended, keyIssued, keySpent>>

\* issueAuthTokens fails: a 500, and whatever was consumed for it is gone.
IssueFails(r) ==
    /\ request[r].pc = "issuing"
    /\ ended' = ended \cup ({request[r].root} \ {Absent})
    /\ Goto(r, Idle)
    /\ UNCHANGED <<storeVars, tokens, loginKeys, clock, family, keyIssued, keySpent>>

\* handleLoginKeys: the entitlement of the subject of the access token ...
LoginKeysLookup(r, s) ==
    /\ request[r] = Idle
    /\ isEntitlementUsable(LookupBySubject(s))
    /\ Goto(r, [pc |-> "inviting", subject |-> LookupBySubject(s).subject])
    /\ UNCHANGED <<storeVars, tokens, loginKeys, clock, family, ended, keyIssued, keySpent>>

\* Mutant of IssueLoginKey: a generated key that is in the store is overwritten.
IssueLoginKeyOverwrites(r, k, now) ==
    /\ request[r].pc = "inviting"
    /\ keyIssued[k] < MaxIssues
    /\ loginKeys' = [loginKeys EXCEPT ![k] = [subject |-> request[r].subject,
                                              expiresAt |-> now + LoginTTL]]
    /\ keyIssued' = [keyIssued EXCEPT ![k] = @ + 1]
    /\ Goto(r, Idle)
    /\ UNCHANGED <<storeVars, tokens, clock, family, ended, keySpent>>

\* ... and LoginKeyStore.Issue: a generated key that is in the store is rejected
\* and another one tried.  After eight it gives up; that request makes no step.
IssueLoginKey(r, k, now) ==
    /\ request[r].pc = "inviting"
    /\ loginKeys[k] = Absent
    /\ keyIssued[k] < MaxIssues
    /\ loginKeys' = [loginKeys EXCEPT ![k] = [subject |-> request[r].subject,
                                              expiresAt |-> now + LoginTTL]]
    /\ keyIssued' = [keyIssued EXCEPT ![k] = @ + 1]
    /\ Goto(r, Idle)
    /\ UNCHANGED <<storeVars, tokens, clock, family, ended, keySpent>>

IssueLoginKeyFails(r) ==
    /\ request[r].pc = "inviting"
    /\ Goto(r, Idle)
    /\ UNCHANGED <<storeVars, tokens, loginKeys, clock, family, ended, keyIssued, keySpent>>

\* LoginKeyStore.Consume, the first call of handleDeviceLogin; the expiry is
\* looked at after the key was deleted.
ConsumeLoginKey(r, k, now) ==
    /\ request[r] = Idle
    /\ loginKeys[k] # Absent
    /\ loginKeys' = [loginKeys EXCEPT ![k] = Absent]
    /\ IF Expired(loginKeys[k], now)
       THEN UNCHANGED request /\ keySpent' = [keySpent EXCEPT ![k] = @ + 1]
       ELSE /\ Goto(r, [pc |-> "device", subject |-> loginKeys[k].subject, key |-> k])
            /\ UNCHANGED keySpent
    /\ UNCHANGED <<storeVars, tokens, clock, family, ended, keyIssued>>

\* The entitlement is looked at last: the key is spent even when it is refused.
DeviceLookup(r) ==
    LET e == LookupBySubject(request[r].subject) IN
    /\ request[r].pc = "device"
    /\ keySpent' = [keySpent EXCEPT ![request[r].key] = @ + 1]
    /\ Goto(r, IF isEntitlementUsable(e)
               THEN [pc |-> "issuing", subject |-> e.subject, root |-> Absent] ELSE Idle)
    /\ UNCHANGED <<storeVars, tokens, loginKeys, clock, family, ended, keyIssued>>

\* startCleanupLoop: one store at a time.
CleanupTokens(now) ==
    LET gone == {t \in RefreshToken : tokens[t] # Absent /\ Expired(tokens[t], now)} IN
    /\ tokens' = [t \in RefreshToken |-> IF t \in gone THEN Absent ELSE tokens[t]]
    /\ ended' = ended \cup RunOut(gone)
    /\ UNCHANGED <<storeVars, loginKeys, request, clock, family, keyIssued, keySpent>>

CleanupLoginKeys(now) ==
    LET gone == {k \in LoginKey : loginKeys[k] # Absent /\ Expired(loginKeys[k], now)} IN
    /\ loginKeys' = [k \in LoginKey |-> IF k \in gone THEN Absent ELSE loginKeys[k]]
    /\ keySpent' = [k \in LoginKey |->
                       IF k \in gone /\ Expired(loginKeys[k], clock) THEN keySpent[k] + 1
                       ELSE keySpent[k]]
    /\ UNCHANGED <<storeVars, tokens, request, clock, family, ended, keyIssued>>

Tick ==
    /\ clock < MaxClock
    /\ clock' = clock + 1
    /\ UNCHANGED <<storeVars, tokens, loginKeys, request, family, ended, keyIssued, keySpent>>

\* The embedder updates the entitlements while requests are in flight.
EntitlementChanges ==
    /\ StoreNext
    /\ UNCHANGED <<tokens, loginKeys, request, clock, family, ended, keyIssued, keySpent>>

Next ==
    \/ Tick
    \/ EntitlementChanges
    \/ \E r \in Request :
        \/ \E k \in Key : Exchange(r, k)
        \/ \E s \in Subject : LoginKeysLookup(r, s)
        \/ RefreshLookup(r)
        \/ IssueFails(r)
        \/ IssueLoginKeyFails(r)
        \/ DeviceLookup(r)
    \/ \E now \in Stamps :
        \/ CleanupTokens(now)
        \/ CleanupLoginKeys(now)
        \/ \E r \in Request :
            \/ Consume(r, now)
            \/ \E t \in RefreshToken : Peek(r, t, now) \/ IssueAuthTokens(r, t, now)
            \/ \E k \in LoginKey : IssueLoginKey(r, k, now) \/ ConsumeLoginKey(r, k, now)

Spec == Init /\ [][Next]_authVars

-----------------------------------------------------------------------------
Record == [subject : Subject, expiresAt : Nat]

RequestState ==
    {Idle}
    \cup [pc : {"peeked", "entitled"}, token : RefreshToken, subject : Subject]
    \cup [pc : {"issuing"}, subject : Subject, root : RefreshToken \cup {Absent}]
    \cup [pc : {"inviting"}, subject : Subject]
    \cup [pc : {"device"}, subject : Subject, key : LoginKey]

\* The shape of the stores and of the requests.
TypeOK ==
    /\ StoreTypeOK
    /\ tokens \in [RefreshToken -> Record \cup {Absent}]
    /\ loginKeys \in [LoginKey -> Record \cup {Absent}]
    /\ request \in [Request -> RequestState]
    /\ clock \in Nat
    /\ family \in [RefreshToken -> RefreshToken \cup {Absent}]
    /\ ended \subseteq RefreshToken
    /\ keyIssued \in [LoginKey -> Nat]
    /\ keySpent \in [LoginKey -> Nat]

Families == {family[t] : t \in RefreshToken} \ {Absent}

LiveTokens(f) == {t \in RefreshToken : tokens[t] # Absent /\ family[t] = f}

Rotations(f) == {r \in Request : request[r].pc = "issuing" /\ request[r].root = f}

\* A login is one chain of refresh tokens: it has one live token, or one rotation
\* that consumed its token and is about to issue the next, or it came to an end by
\* expiry or a failed issue.  However many requests present the same token, it has
\* one successor; and no refusal, sweep or entitlement update loses it.
LoginIsOneChain ==
    \A f \in Families :
        Cardinality(LiveTokens(f)) + Cardinality(Rotations(f))
            + (IF f \in ended THEN 1 ELSE 0) = 1

DeviceLogins(k) == {r \in Request : request[r].pc = "device" /\ request[r].key = k}

\* Every time a login key is issued it is good for one login attempt: it waits in
\* the store, is in the hands of one request, was used, or expired.
LoginKeyGoodForOneAttempt ==
    \A k \in LoginKey :
        keyIssued[k] = keySpent[k] + Cardinality(DeviceLogins(k))
                         + (IF loginKeys[k] # Absent THEN 1 ELSE 0)

=============================================================================
