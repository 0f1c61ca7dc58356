------------------------- MODULE AuthFailureLimiter -------------------------
(***************************************************************************)
(* authFailureLimiter of cmd/shellin-control-plane: the times at which       *)
(* credentials from a remote address were found wrong.                       *)
(*                                                                           *)
(* Every method is one critical section under l.mu and prunes the records of *)
(* every remote first, by a time it read before it had the lock: a stamp of  *)
(* at most LockDelay ticks ago.  A missing entry of the map and an empty one *)
(* are the same state.  Nothing depends on the order of a slice of times: it *)
(* is the set of its failures, those of one time told apart by a number.     *)
(***************************************************************************)
EXTENDS Integers, FiniteSets

CONSTANTS
    Remote,     \* the addresses requests come from
    Limit,      \* AuthFailureLimit
    Window,     \* AuthFailureWindow
    LockDelay,  \* BOUND: longest wait between reading the time and l.mu
    MaxClock    \* BOUND: the time horizon TLC explores

ASSUME LimiterAssumption ==
    /\ Limit \in Nat \ {0}
    /\ Window \in Nat \ {0}
    /\ LockDelay \in Nat
    /\ MaxClock \in Nat

VARIABLES
    records,  \* remote -> its failures
    clock     \* real time

Failure == [at : Nat, nth : Nat]

Stamps == {t \in 0..clock : clock <= t + LockDelay}

LimiterInit ==
    /\ records = [r \in Remote |-> {}]
    /\ clock = 0

\* attempt.After(now - window)
Within(failures, now) == {f \in failures : f.at + Window > now}

\* append(failures, now)
WithFailure(failures, now) ==
    LET nth == CHOOSE n \in 0..Cardinality(failures) : [at |-> now, nth |-> n] \notin failures
    IN  failures \cup {[at |-> now, nth |-> nth]}

\* pruneLocked
Pruned(now) == [r \in Remote |-> Within(records[r], now)]

\* Mutant of Allow: one attempt too many.
AllowOneMore(r, now) ==
    /\ Cardinality(Pruned(now)[r]) <= Limit
    /\ records' = Pruned(now)

Allow(r, now) ==
    /\ Cardinality(Pruned(now)[r]) < Limit
    /\ records' = Pruned(now)

\* Mutant of Refuse: a refused attempt restarts the window.
RefuseAndRestart(r, now) ==
    /\ Cardinality(Pruned(now)[r]) >= Limit
    /\ records' = [Pruned(now) EXCEPT ![r] = [at : {now}, nth : 1..Limit]]

\* The other answer of Allow.
Refuse(r, now) ==
    /\ Cardinality(Pruned(now)[r]) >= Limit
    /\ records' = Pruned(now)

RecordFailure(r, now) == records' = [Pruned(now) EXCEPT ![r] = WithFailure(@, now)]

Reset(r) == records' = [records EXCEPT ![r] = {}]

LimiterTypeOK ==
    /\ records \in [Remote -> SUBSET Failure]
    /\ clock \in Nat
=============================================================================
