---------------------------- MODULE AgentRegistry ----------------------------
(***************************************************************************)
(* controlplane.AgentRegistry: which agent sessions of which subject exist, *)
(* when each was last heard of, and which session ids were terminated.      *)
(*                                                                          *)
(* Every method is one critical section under r.mu, so it is one action.    *)
(* Every method that uses the time reads it BEFORE it takes the lock: the   *)
(* stamp it writes or compares with is a time `now` of at most LockDelay    *)
(* ticks ago, and stamps can reach the maps out of order.                   *)
(*                                                                          *)
(* Data abstraction: an item is its LastSeenAt.  CreatedAt, AgentLabel and  *)
(* Transport are only reported, no branch reads them.  The map of a subject *)
(* with no sessions and a missing map are the same state.                   *)
(***************************************************************************)
EXTENDS Integers, FiniteSets

CONSTANTS
    Subject,             \* account identifiers
    Session,             \* agent session ids
    MaxSessions,         \* the entitlement's session limit of each subject
    Absent,              \* "no entry in the map"
    StaleAfter,          \* AgentHeartbeatTimeout, 0 disables staleness
    TombstoneRetention,  \* terminatedAgentSessionRetention
    LockDelay,           \* BOUND: longest wait between reading the time and r.mu
    MaxClock             \* BOUND: the time horizon TLC explores

ASSUME ConstantsAssumption ==
    /\ StaleAfter \in Nat
    /\ TombstoneRetention \in Nat
    /\ LockDelay \in Nat
    /\ MaxClock \in Nat
    /\ MaxSessions \in [Subject -> Nat \ {0}]
    /\ Absent \notin Nat

VARIABLES
    items,       \* subject -> session -> LastSeenAt, or Absent
    terminated,  \* subject -> session -> time of the tombstone, or Absent
    clock,       \* real time
    wroteAt,     \* history: real time of the last write of the item, 0 if there is none
    killedAt     \* history: real time of the last termination, or Absent

registryVars == <<items, terminated, clock, wroteAt, killedAt>>

-----------------------------------------------------------------------------
Time == Nat

RegistryInit ==
    /\ items = [s \in Subject |-> [x \in Session |-> Absent]]
    /\ terminated = [s \in Subject |-> [x \in Session |-> Absent]]
    /\ clock = 0
    /\ wroteAt = [s \in Subject |-> [x \in Session |-> 0]]
    /\ killedAt = [s \in Subject |-> [x \in Session |-> Absent]]

\* The stamps a method that runs now may have read before it got the lock.
Stamps == {t \in 0..clock : clock <= t + LockDelay}

SubjectItems(s) == {x \in Session : items[s][x] # Absent}

IsTerminated(s, x) == terminated[s][x] # Absent

\* Mutant of IsStale: an entry is stale at the cutoff already.
IsStaleAtCutoff(seen, now) == StaleAfter > 0 /\ seen + StaleAfter <= now

\* LastSeenAt.Before(now - staleAfter), and only if staleness is in use.
IsStale(seen, now) == StaleAfter > 0 /\ seen + StaleAfter < now

\* Mutant of TombstoneExpired: the heartbeat timeout in place of the retention.
TombstoneExpiredTooSoon(at, now) == at + StaleAfter < now

TombstoneExpired(at, now) == at + TombstoneRetention < now

\* Write the item of x with the stamp `now`.
StoreItem(s, x, now) ==
    /\ items' = [items EXCEPT ![s][x] = now]
    /\ wroteAt' = [wroteAt EXCEPT ![s][x] = clock]

\* The history of the items that this step leaves.
ForgetWrites ==
    wroteAt' = [s \in Subject |-> [x \in Session |->
                    IF items'[s][x] = Absent THEN 0 ELSE wroteAt[s][x]]]

DeleteItem(s, x) ==
    /\ items' = [items EXCEPT ![s][x] = Absent]
    /\ ForgetWrites

-----------------------------------------------------------------------------
Tick ==
    /\ clock < MaxClock
    /\ clock' = clock + 1
    /\ UNCHANGED <<items, terminated, wroteAt, killedAt>>

\* The unlimited variant, for embedders of the package; no handler calls it.
Upsert(s, x, now) ==
    /\ ~IsTerminated(s, x)
    /\ StoreItem(s, x, now)
    /\ UNCHANGED <<terminated, clock, killedAt>>

\* Mutant of LimitReached: one session too many.
LimitReachedLate(s, x) ==
    /\ items[s][x] = Absent
    /\ Cardinality(SubjectItems(s)) > MaxSessions[s]

\* ErrAgentSessionLimitReached: stale entries that no sweep removed yet count.
LimitReached(s, x) ==
    /\ items[s][x] = Absent
    /\ Cardinality(SubjectItems(s)) >= MaxSessions[s]

UpsertLimited(s, x, now) ==
    /\ ~IsTerminated(s, x)
    /\ ~LimitReached(s, x)
    /\ StoreItem(s, x, now)
    /\ UNCHANGED <<terminated, clock, killedAt>>

Touch(s, x, now) ==
    /\ items[s][x] # Absent
    /\ StoreItem(s, x, now)
    /\ UNCHANGED <<terminated, clock, killedAt>>

\* Mutant of Terminate: an unlisted session gets no tombstone.
TerminateListed(s, x, now) ==
    /\ terminated' = [terminated EXCEPT ![s][x] = IF items[s][x] = Absent THEN @ ELSE now]
    /\ killedAt' = [killedAt EXCEPT ![s][x] = clock]
    /\ DeleteItem(s, x)
    /\ UNCHANGED clock

\* The tombstone is written whether or not the session is listed.
Terminate(s, x, now) ==
    /\ terminated' = [terminated EXCEPT ![s][x] = now]
    /\ killedAt' = [killedAt EXCEPT ![s][x] = clock]
    /\ DeleteItem(s, x)
    /\ UNCHANGED clock

Remove(s, x) ==
    /\ items[s][x] # Absent
    /\ DeleteItem(s, x)
    /\ UNCHANGED <<terminated, clock, killedAt>>

\* Mutant of TerminateAll: sessions are deleted but not tombstoned.
TerminateAllForgets(s, now) ==
    /\ items' = [items EXCEPT ![s] =
                    [x \in Session |->
                        IF items[s][x] # Absent /\ IsStale(items[s][x], now)
                        THEN items[s][x] ELSE Absent]]
    /\ ForgetWrites
    /\ UNCHANGED <<terminated, clock, killedAt>>

\* Stale entries are skipped: neither tombstoned nor deleted.
TerminateAll(s, now) ==
    LET hit == {x \in SubjectItems(s) : ~IsStale(items[s][x], now)} IN
    /\ items' = [items EXCEPT ![s] =
                    [x \in Session |-> IF x \in hit THEN Absent ELSE items[s][x]]]
    /\ terminated' = [terminated EXCEPT ![s] =
                    [x \in Session |-> IF x \in hit THEN now ELSE terminated[s][x]]]
    /\ killedAt' = [killedAt EXCEPT ![s] =
                    [x \in Session |-> IF x \in hit THEN clock ELSE killedAt[s][x]]]
    /\ ForgetWrites
    /\ UNCHANGED clock

\* Mutant of Cleanup: only tombstones are swept.
CleanupTombstones(now) ==
    /\ terminated' = [s \in Subject |-> [x \in Session |->
                    IF IsTerminated(s, x) /\ TombstoneExpired(terminated[s][x], now)
                    THEN Absent ELSE terminated[s][x]]]
    /\ UNCHANGED <<items, clock, wroteAt, killedAt>>

\* The minute ticker of the server: one sweep of every subject.
Cleanup(now) ==
    /\ items' = [s \in Subject |-> [x \in Session |->
                    IF items[s][x] # Absent /\ IsStale(items[s][x], now)
                    THEN Absent ELSE items[s][x]]]
    /\ terminated' = [s \in Subject |-> [x \in Session |->
                    IF IsTerminated(s, x) /\ TombstoneExpired(terminated[s][x], now)
                    THEN Absent ELSE terminated[s][x]]]
    /\ ForgetWrites
    /\ UNCHANGED <<clock, killedAt>>

RegistryNext ==
    \/ Tick
    \/ \E now \in Stamps :
        \/ Cleanup(now)
        \/ \E s \in Subject :
            \/ TerminateAll(s, now)
            \/ \E x \in Session :
                \/ Upsert(s, x, now)
                \/ UpsertLimited(s, x, now)
                \/ Touch(s, x, now)
                \/ Terminate(s, x, now)
                \/ Remove(s, x)

RegistrySpec == RegistryInit /\ [][RegistryNext]_registryVars

-----------------------------------------------------------------------------
\* The shape of the two maps and of the history variables.
RegistryTypeOK ==
    /\ items \in [Subject -> [Session -> Time \cup {Absent}]]
    /\ terminated \in [Subject -> [Session -> Time \cup {Absent}]]
    /\ clock \in Time
    /\ wroteAt \in [Subject -> [Session -> Time]]
    /\ killedAt \in [Subject -> [Session -> Time \cup {Absent}]]

\* A terminated session is not listed: no order of upserts, heartbeats,
\* terminations and sweeps leaves an id both tombstoned and registered.
TombstoneExcludesSession ==
    \A s \in Subject, x \in Session : IsTerminated(s, x) => items[s][x] = Absent

\* A stamp is never ahead of the write that brought it in, nor further behind it
\* than the wait for the lock; writes lie in the past.
StampsBounded ==
    \A s \in Subject, x \in Session : items[s][x] # Absent =>
        /\ items[s][x] <= wroteAt[s][x]
        /\ wroteAt[s][x] <= items[s][x] + LockDelay
        /\ wroteAt[s][x] <= clock

\* A tombstone stands for a termination, with a stamp as close to it, and stands
\* for as long as the retention (less the lock delay) after it.
TombstonesKept ==
    \A s \in Subject, x \in Session :
        /\ IsTerminated(s, x) =>
            /\ killedAt[s][x] # Absent
            /\ terminated[s][x] <= killedAt[s][x]
            /\ killedAt[s][x] <= terminated[s][x] + LockDelay
        /\ killedAt[s][x] # Absent =>
            /\ killedAt[s][x] <= clock
            /\ ~IsTerminated(s, x) => clock - killedAt[s][x] + LockDelay > TombstoneRetention

\* The inductive invariant of the proofs.
RegistryInv == RegistryTypeOK /\ TombstoneExcludesSession /\ StampsBounded /\ TombstonesKept

\* Written so recently that no stamp a concurrent method holds calls it stale.
RecentlySeen(s, x) ==
    /\ items[s][x] # Absent
    /\ clock - wroteAt[s][x] + LockDelay <= StaleAfter

SweepStep ==
    (\E now \in Stamps : Cleanup(now)) =>
        \A s \in Subject, x \in Session : RecentlySeen(s, x) => items'[s][x] # Absent

\* The sweep never drops a session whose agent was heard of within the
\* heartbeat timeout (less the lock delay), however its stamps were delayed.
SweepKeepsLiveSessions == [][SweepStep]_registryVars

TerminateAllStep ==
    \A s \in Subject : (\E now \in Stamps : TerminateAll(s, now)) =>
        \A x \in Session : RecentlySeen(s, x) =>
            items'[s][x] = Absent /\ terminated'[s][x] # Absent

\* After terminate-all every session heard of within the heartbeat timeout (less
\* the lock delay) is unlisted and tombstoned: only dead ones are skipped.
TerminateAllHitsLiveSessions == [][TerminateAllStep]_registryVars

ReturnStep ==
    \A s \in Subject, x \in Session :
        items[s][x] = Absent /\ items'[s][x] # Absent /\ killedAt[s][x] # Absent
            => clock - killedAt[s][x] + LockDelay > TombstoneRetention

\* A terminated id comes back only after the tombstone retention (less the lock
\* delay) has really passed since its last termination.
TerminatedStaysOut == [][ReturnStep]_registryVars

=============================================================================
