---------------------- MODULE CredentialExchangeProofs ----------------------
(***************************************************************************)
(* Proofs about AuthFailureLimiter and CredentialExchange, for any number    *)
(* of requests in flight, any limit, any window and any delay of the stamps. *)
(*                                                                           *)
(* GuessesBounded is not inductive: a guess is counted by the limiter only   *)
(* after its request has recorded it, under a stamp of its own.  ExchangeInv *)
(* says that at any age a guess is a record or still with its request        *)
(* (GuessesCovered), and counts the requests that may still become guesses   *)
(* (AttemptsBounded).                                                        *)
(***************************************************************************)
EXTENDS CredentialExchange, FiniteSetTheorems, TLAPS

Since(failures, t) == {f \in failures : f.at >= t}

\* The requests that are between Allow and the answer of the lookup ...
LookingUp(req, r) == {h \in Handler : req[h].pc = "lookup" /\ req[h].remote = r}

\* ... and those whose guess, made at t or later, is not recorded yet.
Recording(req, r, t) ==
    {h \in Handler : req[h].pc = "record" /\ req[h].remote = r /\ req[h].at >= t}

FailuresFinite == \A r \in Remote : IsFiniteSet(records[r]) /\ IsFiniteSet(guesses[r])

GuessesInWindow ==
    \A r \in Remote : \A g \in guesses[r] : g.at <= clock /\ clock < g.at + Window

\* Of what is within the window, from any time on, there are no more guesses than
\* records and requests that will record one: stamps are never older than the guess.
GuessesCovered ==
    \A r \in Remote : \A t \in (clock + 1 - Window)..clock :
        Cardinality(Since(guesses[r], t))
            <= Cardinality(Since(records[r], t)) + Cardinality(Recording(request, r, t))

\* What was guessed and what can still be, from the requests that Allow let in.
AttemptsBounded ==
    \A r \in Remote :
        Cardinality(guesses[r]) + Cardinality(LookingUp(request, r)) < Limit + Cardinality(Handler)

ExchangeInv ==
    ExchangeTypeOK /\ FailuresFinite /\ GuessesInWindow /\ GuessesCovered /\ AttemptsBounded

-----------------------------------------------------------------------------
(* Counting failures *)

\* There are more numbers than failures.
LEMMA NumberIsFree ==
  ASSUME NEW S, IsFiniteSet(S), NEW t
  PROVE  \E n \in 0..Cardinality(S) : [at |-> t, nth |-> n] \notin S
<1> DEFINE c == Cardinality(S)
           f == [n \in 0..c |-> [at |-> t, nth |-> n]]
<1>1. c \in Nat
  BY FS_CardinalityType
<1> HIDE DEF c
<1> SUFFICES ASSUME \A n \in 0..c : [at |-> t, nth |-> n] \in S
             PROVE  FALSE
  BY DEF c
<1>2. f \in [0..c -> S] /\ \A m, n \in 0..c : f[m] = f[n] => m = n
  OBVIOUS
<1> HIDE DEF f
<1>3. Cardinality(0..c) <= c
  <2>1. f \in Injection(0..c, S)
    BY <1>2 DEF Injection, IsInjective
  <2>2. QED
    BY <2>1, FS_Injection DEF c
<1>4. Cardinality(0..c) = c + 1
  BY <1>1, FS_Interval
<1>5. QED
  BY <1>1, <1>3, <1>4

\* append adds one failure, whatever is there already.
LEMMA FailureIsNew ==
  ASSUME NEW S, IsFiniteSet(S), NEW t \in Nat
  PROVE  \E x \in Failure : x \notin S /\ x.at = t /\ WithFailure(S, t) = S \cup {x}
<1>1. Cardinality(S) \in Nat
  BY FS_CardinalityType
<1>2. PICK n : n = CHOOSE m \in 0..Cardinality(S) : [at |-> t, nth |-> m] \notin S
  OBVIOUS
<1>3. n \in 0..Cardinality(S) /\ [at |-> t, nth |-> n] \notin S
  BY <1>2, NumberIsFree
<1>4. WithFailure(S, t) = S \cup {[at |-> t, nth |-> n]}
  BY <1>2 DEF WithFailure
<1>5. [at |-> t, nth |-> n] \in Failure
  BY <1>1, <1>3 DEF Failure
<1>6. QED
  BY <1>3, <1>4, <1>5

\* How many failures there are since t, after one more.
LEMMA SinceFailure ==
  ASSUME NEW S, IsFiniteSet(S), NEW x, x \notin S, NEW t
  PROVE  /\ IsFiniteSet(Since(S, t)) /\ Cardinality(Since(S, t)) \in Nat
         /\ Cardinality(Since(S \cup {x}, t)) =
                Cardinality(Since(S, t)) + (IF x.at >= t THEN 1 ELSE 0)
<1>1. Since(S, t) \in SUBSET S /\ x \notin Since(S, t)
  BY DEF Since
<1>2. IsFiniteSet(Since(S, t))
  BY <1>1, FS_Subset
<1>3. Cardinality(Since(S, t)) \in Nat
  BY <1>2, FS_CardinalityType
<1>4. CASE x.at >= t
  <2>1. Since(S \cup {x}, t) = Since(S, t) \cup {x}
    BY <1>4 DEF Since
  <2>2. QED
    BY <1>1, <1>2, <1>3, <1>4, <2>1, FS_AddElement
<1>5. CASE ~(x.at >= t)
  <2>1. Since(S \cup {x}, t) = Since(S, t)
    BY <1>5 DEF Since
  <2>2. QED
    BY <1>2, <1>3, <1>5, <2>1
<1>6. QED
  BY <1>4, <1>5

\* Pruning by a stamp keeps all that is within the window of the real time.
LEMMA PruneKeepsWindow ==
  ASSUME LimiterTypeOK, NEW now \in Stamps, NEW S \in SUBSET Failure,
         NEW t \in Int, t >= clock + 1 - Window
  PROVE  Since(Within(S, now), t) = Since(S, t) /\ Since(S, t) \subseteq Within(S, now)
  BY LimiterAssumption DEF LimiterTypeOK, Stamps, Failure, Since, Within

\* Two sets with nothing in common.
LEMMA DisjointUnion ==
  ASSUME NEW S, IsFiniteSet(S), NEW T, IsFiniteSet(T), S \cap T = {}
  PROVE  /\ IsFiniteSet(S \cup T)
         /\ Cardinality(S) \in Nat /\ Cardinality(T) \in Nat
         /\ Cardinality(S \cup T) = Cardinality(S) + Cardinality(T)
<1>1. Cardinality(S) \in Nat /\ Cardinality(T) \in Nat
  BY FS_CardinalityType
<1>2. Cardinality(S \cap T) = 0
  BY FS_EmptySet, Zenon
<1>3. /\ IsFiniteSet(S \cup T)
      /\ Cardinality(S \cup T) = Cardinality(S) + Cardinality(T) - Cardinality(S \cap T)
  BY FS_Union, Zenon
<1>4. QED
  BY <1>1, <1>2, <1>3

\* The requests of a remote that look up and those that record are different ones.
LEMMA RequestsCounted ==
  ASSUME NEW r, NEW t, NEW T \in SUBSET Handler,
         \A h \in T : h \notin LookingUp(request, r) /\ h \notin Recording(request, r, t)
  PROVE  /\ IsFiniteSet(LookingUp(request, r)) /\ Cardinality(LookingUp(request, r)) \in Nat
         /\ IsFiniteSet(Recording(request, r, t)) /\ Cardinality(Recording(request, r, t)) \in Nat
         /\ IsFiniteSet(T) /\ Cardinality(T) \in Nat
         /\ Cardinality(Handler) \in Nat
         /\ Cardinality(LookingUp(request, r)) + Cardinality(Recording(request, r, t)) + Cardinality(T)
                <= Cardinality(Handler)
<1> DEFINE L == LookingUp(request, r)
           R == Recording(request, r, t)
<1>1. L \in SUBSET Handler /\ R \in SUBSET Handler /\ L \cap R = {}
  BY DEF LookingUp, Recording
<1>2. (L \cup R) \cap T = {} /\ (L \cup R) \cup T \in SUBSET Handler
  BY <1>1
<1> HIDE DEF L, R
<1>3. /\ IsFiniteSet(L) /\ IsFiniteSet(R) /\ IsFiniteSet(T)
      /\ Cardinality((L \cup R) \cup T) <= Cardinality(Handler)
      /\ Cardinality(Handler) \in Nat
  BY <1>1, <1>2, HandlerAssumption, FS_Subset, FS_CardinalityType
<1>4. /\ IsFiniteSet(L \cup R) /\ Cardinality(L) \in Nat /\ Cardinality(R) \in Nat
      /\ Cardinality(L \cup R) = Cardinality(L) + Cardinality(R)
  BY <1>1, <1>3, DisjointUnion
<1>5. /\ Cardinality(T) \in Nat
      /\ Cardinality((L \cup R) \cup T) = Cardinality(L \cup R) + Cardinality(T)
  BY <1>2, <1>3, <1>4, DisjointUnion
<1>6. QED
  BY <1>3, <1>4, <1>5 DEF L, R

-----------------------------------------------------------------------------
(* The steps *)

\* Only StoreWrite writes the store.
LEMMA StoreStep == [Next]_exchangeVars => [StoreNext]_storeVars
<1>1. [Next]_exchangeVars => UNCHANGED storeVars \/ StoreNext
  BY DEF Next, Step, exchangeVars, StoreWrite, ExchangeUserKey, ConsumeLoginKey, ConsumeFails,
         LookedUp, Tick, TooManyAttempts, Admit, Unauthorized, Authorized
<1>2. QED
  BY <1>1

\* A request that has a place to go to has a remote, and one to record a time.
LEMMA RequestKinds ==
  ASSUME ExchangeTypeOK, NEW h \in Handler
  PROVE  /\ request[h].pc \in {"lookup", "reset", "record"} => request[h].remote \in Remote
         /\ request[h].pc = "record" => request[h].at \in Nat
         /\ request[h] = Idle => request[h].pc = "idle"
  BY DEF ExchangeTypeOK, Idle

\* Pruning leaves a part of each remote's records.
LEMMA PrunedRecords ==
  ASSUME LimiterTypeOK, FailuresFinite, NEW now
  PROVE  /\ Pruned(now) \in [Remote -> SUBSET Failure]
         /\ \A r \in Remote : /\ Pruned(now)[r] = Within(records[r], now)
                              /\ Pruned(now)[r] \in SUBSET records[r]
                              /\ IsFiniteSet(Pruned(now)[r])
<1>1. \A r \in Remote : /\ Pruned(now)[r] = Within(records[r], now)
                        /\ Pruned(now)[r] \in SUBSET records[r]
  BY DEF Pruned, Within
<1>2. Pruned(now) = [r \in Remote |-> Pruned(now)[r]]
  BY DEF Pruned
<1>3. \A r \in Remote : IsFiniteSet(Pruned(now)[r])
  BY <1>1, FS_Subset DEF FailuresFinite
<1>4. QED
  BY <1>1, <1>2, <1>3 DEF LimiterTypeOK

\* The steps of a request of remote r that are not plain in the code's words: the
\* lookup succeeds; it fails, which is the guess x; x is recorded, with the stamp now;
\* the limiter is reset.
Succeeds(h, r) ==
    /\ request[h].pc = "lookup" /\ request[h].remote = r
    /\ request' = [request EXCEPT ![h] = Serving("reset", r)]
    /\ UNCHANGED <<records, clock, guesses>>

Fails(h, r, x) ==
    /\ request[h].pc = "lookup" /\ request[h].remote = r
    /\ x \in Failure /\ x \notin guesses[r] /\ x.at = clock
    /\ guesses' = [guesses EXCEPT ![r] = guesses[r] \cup {x}]
    /\ request' = [request EXCEPT ![h] = Rejected(r)]
    /\ UNCHANGED <<records, clock>>

Records(h, r, x, now) ==
    /\ request[h].pc = "record" /\ request[h].remote = r /\ request[h].at <= now
    /\ x \in Failure /\ x \notin Pruned(now)[r] /\ x.at = now
    /\ records' = [Pruned(now) EXCEPT ![r] = Pruned(now)[r] \cup {x}]
    /\ request' = [request EXCEPT ![h] = Idle]
    /\ UNCHANGED <<clock, guesses>>

Resets(h, r) ==
    /\ request[h].pc = "reset"
    /\ records' = [records EXCEPT ![r] = {}]
    /\ guesses' = [guesses EXCEPT ![r] = {}]
    /\ request' = [request EXCEPT ![h] = Idle]
    /\ UNCHANGED clock

\* The answer of the lookup.
LEMMA AnswerStep ==
  ASSUME ExchangeTypeOK, FailuresFinite, NEW h \in Handler, NEW good, LookedUp(h, good)
  PROVE  \E r \in Remote : Succeeds(h, r) \/ \E x : Fails(h, r, x)
<1>1. PICK r \in Remote : request[h].remote = r /\ request[h].pc = "lookup"
  BY RequestKinds DEF LookedUp
<1>2. IsFiniteSet(guesses[r]) /\ clock \in Nat
  BY DEF FailuresFinite, ExchangeTypeOK, LimiterTypeOK
<1>3. PICK x \in Failure : /\ x \notin guesses[r] /\ x.at = clock
                           /\ WithFailure(guesses[r], clock) = guesses[r] \cup {x}
  BY <1>2, FailureIsNew
<1>4. CASE good
  BY <1>1, <1>4 DEF LookedUp, Succeeds
<1>5. CASE ~good
  BY <1>1, <1>3, <1>5 DEF LookedUp, Fails
<1>6. QED
  BY <1>4, <1>5

\* The 401.
LEMMA RecordStep ==
  ASSUME ExchangeTypeOK, FailuresFinite, NEW h \in Handler, NEW now \in Stamps,
         Unauthorized(h, now)
  PROVE  \E r \in Remote : \E x : Records(h, r, x, now)
<1>1. PICK r \in Remote : request[h].remote = r /\ request[h].pc = "record"
  BY RequestKinds DEF Unauthorized
<1>2. IsFiniteSet(Pruned(now)[r]) /\ now \in Nat /\ request[h].at \in Nat
  BY <1>1, PrunedRecords, RequestKinds DEF ExchangeTypeOK, Stamps, LimiterTypeOK
<1>3. PICK x \in Failure : /\ x \notin Pruned(now)[r] /\ x.at = now
                           /\ WithFailure(Pruned(now)[r], now) = Pruned(now)[r] \cup {x}
  BY <1>2, FailureIsNew
<1>4. records' = [Pruned(now) EXCEPT ![r] = Pruned(now)[r] \cup {x}]
  BY <1>1, <1>3 DEF Unauthorized, RecordFailure
<1>5. QED
  BY <1>1, <1>2, <1>3, <1>4 DEF Unauthorized, Records

\* What a step does to the limiter and to the requests.
LEMMA ExchangeStep ==
  ASSUME ExchangeTypeOK, FailuresFinite, [Next]_exchangeVars
  PROVE  \/ UNCHANGED <<records, clock, request, guesses>>
         \/ Tick
         \/ \E r \in Remote, now \in Stamps : TooManyAttempts(r, now)
         \/ \E r \in Remote, now \in Stamps, h \in Handler : Admit(h, r, now)
         \/ \E h \in Handler, r \in Remote : Succeeds(h, r)
         \/ \E h \in Handler, r \in Remote : \E x : Fails(h, r, x)
         \/ \E h \in Handler, r \in Remote, now \in Stamps : \E x : Records(h, r, x, now)
         \/ \E h \in Handler, r \in Remote : Resets(h, r)
<1>1. \/ UNCHANGED <<records, clock, request, guesses>>
      \/ Tick
      \/ \E r \in Remote, now \in Stamps : TooManyAttempts(r, now)
      \/ \E r \in Remote, now \in Stamps, h \in Handler : Admit(h, r, now)
      \/ \E h \in Handler : \E good : LookedUp(h, good)
      \/ \E h \in Handler, now \in Stamps : Unauthorized(h, now)
      \/ \E h \in Handler : Authorized(h)
  BY Zenon DEF Next, Step, exchangeVars, StoreWrite, ExchangeUserKey, ConsumeLoginKey, ConsumeFails
<1>2. ASSUME NEW h \in Handler, Authorized(h)
      PROVE  \E r \in Remote : Resets(h, r)
  <2>1. request[h].remote \in Remote
    BY <1>2, RequestKinds DEF Authorized
  <2>2. QED
    BY <1>2, <2>1 DEF Authorized, Reset, Resets
<1>3. ASSUME NEW h \in Handler, NEW good, LookedUp(h, good)
      PROVE  \E r \in Remote : Succeeds(h, r) \/ \E x : Fails(h, r, x)
  BY <1>3, AnswerStep
<1>4. ASSUME NEW h \in Handler, NEW now \in Stamps, Unauthorized(h, now)
      PROVE  \E r \in Remote : \E x : Records(h, r, x, now)
  BY <1>4, RecordStep
<1>5. QED
  BY <1>1, <1>2, <1>3, <1>4

-----------------------------------------------------------------------------
(* The invariant *)

\* The state of the handlers and of the limiter keeps its shape.
LEMMA LimiterTypeStep ==
  ASSUME ExchangeTypeOK, FailuresFinite, [Next]_exchangeVars
  PROVE  /\ LimiterTypeOK'
         /\ FailuresFinite'
         /\ request' \in [Handler -> {Idle} \cup [pc : {"lookup", "reset"}, remote : Remote]
                                   \cup [pc : {"record"}, remote : Remote, at : Nat]]
         /\ guesses' \in [Remote -> SUBSET Failure]
<1> USE DEF ExchangeTypeOK, FailuresFinite, LimiterTypeOK
<1> DEFINE Requests == {Idle} \cup [pc : {"lookup", "reset"}, remote : Remote]
                              \cup [pc : {"record"}, remote : Remote, at : Nat]
           Goal == /\ LimiterTypeOK' /\ FailuresFinite'
                   /\ request' \in [Handler -> Requests]
                   /\ guesses' \in [Remote -> SUBSET Failure]
<1>1. CASE UNCHANGED <<records, clock, request, guesses>>
  BY <1>1
<1>2. CASE Tick
  <2>1. /\ guesses' \in [Remote -> SUBSET Failure]
        /\ \A r \in Remote : guesses'[r] \in SUBSET guesses[r]
    BY <1>2 DEF Tick, Within
  <2>2. \A r \in Remote : IsFiniteSet(guesses'[r])
    BY <2>1, FS_Subset
  <2>3. QED
    BY <1>2, <2>1, <2>2 DEF Tick
<1>3. ASSUME NEW r \in Remote, NEW now \in Stamps, TooManyAttempts(r, now)
      PROVE  Goal
  BY <1>3, PrunedRecords DEF TooManyAttempts, Refuse
<1>4. ASSUME NEW r \in Remote, NEW now \in Stamps, NEW h \in Handler, Admit(h, r, now)
      PROVE  Goal
  BY <1>4, PrunedRecords DEF Admit, Allow, Serving
<1>5. ASSUME NEW h \in Handler, NEW r \in Remote, Succeeds(h, r)
      PROVE  Goal
  BY <1>5 DEF Succeeds, Serving
<1>6. ASSUME NEW h \in Handler, NEW r \in Remote, NEW x, Fails(h, r, x)
      PROVE  Goal
  <2>1. IsFiniteSet(guesses[r] \cup {x})
    BY FS_AddElement
  <2>2. QED
    BY <1>6, <2>1 DEF Fails, Rejected
<1>7. ASSUME NEW h \in Handler, NEW r \in Remote, NEW x, NEW now \in Stamps,
             Records(h, r, x, now)
      PROVE  Goal
  <2>1. IsFiniteSet(Pruned(now)[r] \cup {x})
    BY PrunedRecords, FS_AddElement
  <2>2. QED
    BY <1>7, <2>1, PrunedRecords DEF Records
<1>8. ASSUME NEW h \in Handler, NEW r \in Remote, Resets(h, r)
      PROVE  Goal
  <2>1. IsFiniteSet({})
    BY FS_EmptySet, Zenon
  <2>2. QED
    BY <1>8, <2>1 DEF Resets
<1>9. Goal
  BY <1>1, <1>2, <1>3, <1>4, <1>5, <1>6, <1>7, <1>8, ExchangeStep
<1>10. QED
  BY <1>9

Moves(h, v) == request' = [request EXCEPT ![h] = v]

\* A request that moves on to v leaves or joins the requests counted for a remote.
LEMMA RequestMoves ==
  ASSUME ExchangeTypeOK, NEW h \in Handler, NEW v, Moves(h, v),
         NEW q, NEW t
  PROVE  /\ v.pc = "lookup" /\ v.remote = q => LookingUp(request', q) = LookingUp(request, q) \cup {h}
         /\ v.pc # "lookup" \/ v.remote # q => LookingUp(request', q) = LookingUp(request, q) \ {h}
         /\ v.pc = "record" /\ v.remote = q /\ v.at >= t
                => Recording(request', q, t) = Recording(request, q, t) \cup {h}
         /\ v.pc # "record" \/ v.remote # q => Recording(request', q, t) = Recording(request, q, t) \ {h}
<1>1. \A i \in Handler : request'[i] = IF i = h THEN v ELSE request[i]
  BY DEF ExchangeTypeOK, Moves
<1>2. QED
  BY <1>1 DEF LookingUp, Recording

\* Tick prunes the guesses by the new time; a new one is of now.
LEMMA WindowStep ==
  ASSUME ExchangeTypeOK, FailuresFinite, GuessesInWindow, [Next]_exchangeVars
  PROVE  GuessesInWindow'
<1> USE LimiterAssumption DEF GuessesInWindow, ExchangeTypeOK, LimiterTypeOK, Failure
<1>1. CASE UNCHANGED <<records, clock, request, guesses>>
  BY <1>1
<1>2. CASE Tick
  BY <1>2 DEF Tick, Within
<1>3. ASSUME NEW r \in Remote, NEW now \in Stamps, TooManyAttempts(r, now)
      PROVE  GuessesInWindow'
  BY <1>3 DEF TooManyAttempts
<1>4. ASSUME NEW r \in Remote, NEW now \in Stamps, NEW h \in Handler, Admit(h, r, now)
      PROVE  GuessesInWindow'
  BY <1>4 DEF Admit
<1>5. ASSUME NEW h \in Handler, NEW r \in Remote, Succeeds(h, r)
      PROVE  GuessesInWindow'
  BY <1>5 DEF Succeeds
<1>6. ASSUME NEW h \in Handler, NEW r \in Remote, NEW x, Fails(h, r, x)
      PROVE  GuessesInWindow'
  BY <1>6 DEF Fails
<1>7. ASSUME NEW h \in Handler, NEW r \in Remote, NEW x, NEW now \in Stamps,
             Records(h, r, x, now)
      PROVE  GuessesInWindow'
  BY <1>7 DEF Records
<1>8. ASSUME NEW h \in Handler, NEW r \in Remote, Resets(h, r)
      PROVE  GuessesInWindow'
  BY <1>8 DEF Resets
<1>9. QED
  BY <1>1, <1>2, <1>3, <1>4, <1>5, <1>6, <1>7, <1>8, ExchangeStep

\* The counts of GuessesCovered are numbers.
LEMMA CountsAreNumbers ==
  ASSUME FailuresFinite, NEW r \in Remote, NEW t
  PROVE  /\ IsFiniteSet(Since(guesses[r], t)) /\ Cardinality(Since(guesses[r], t)) \in Nat
         /\ IsFiniteSet(Since(records[r], t)) /\ Cardinality(Since(records[r], t)) \in Nat
         /\ IsFiniteSet(Recording(request, r, t)) /\ Cardinality(Recording(request, r, t)) \in Nat
         /\ IsFiniteSet(LookingUp(request, r)) /\ Cardinality(LookingUp(request, r)) \in Nat
         /\ Cardinality(guesses[r]) \in Nat
         /\ Cardinality(Handler) \in Nat
<1>1. /\ Since(guesses[r], t) \in SUBSET guesses[r]
      /\ Since(records[r], t) \in SUBSET records[r]
      /\ Recording(request, r, t) \in SUBSET Handler
      /\ LookingUp(request, r) \in SUBSET Handler
  BY DEF Since, Recording, LookingUp
<1>2. /\ IsFiniteSet(Since(guesses[r], t)) /\ IsFiniteSet(Since(records[r], t))
      /\ IsFiniteSet(Recording(request, r, t)) /\ IsFiniteSet(LookingUp(request, r))
  BY <1>1, HandlerAssumption, FS_Subset DEF FailuresFinite
<1>3. QED
  BY <1>2, HandlerAssumption, FS_CardinalityType DEF FailuresFinite

\* What GuessesCovered says of one remote from one time on.
Covered(r, t) ==
    Cardinality(Since(guesses[r], t))
        <= Cardinality(Since(records[r], t)) + Cardinality(Recording(request, r, t))

\* A new guess is with its request.
LEMMA FailsCovers ==
  ASSUME ExchangeTypeOK, FailuresFinite, NEW h \in Handler, NEW r \in Remote, NEW x, Fails(h, r, x),
         NEW q \in Remote, NEW t \in Int, t <= clock, Covered(q, t)
  PROVE  Covered(q, t)'
<1>1. records' = records /\ x.at >= t /\ x \notin guesses[r]
  BY DEF Fails
<1>2. Rejected(r).pc = "record" /\ Rejected(r).remote = r /\ Rejected(r).at >= t
  BY DEF Rejected
<1>3. Moves(h, Rejected(r)) /\ h \notin Recording(request, r, t) /\ h \notin Recording(request, q, t)
  BY DEF Fails, Recording, Moves
<1>4. CASE q = r
  <2>1. Recording(request', q, t) = Recording(request, q, t) \cup {h}
    BY <1>2, <1>3, <1>4, RequestMoves
  <2>2. guesses'[q] = guesses[q] \cup {x} /\ IsFiniteSet(guesses[q])
    BY <1>4 DEF Fails, ExchangeTypeOK, FailuresFinite
  <2>3. Cardinality(Since(guesses'[q], t)) = Cardinality(Since(guesses[q], t)) + 1
    BY <1>1, <1>4, <2>2, SinceFailure
  <2>4. Cardinality(Recording(request', q, t)) = Cardinality(Recording(request, q, t)) + 1
    BY <1>3, <2>1, CountsAreNumbers, FS_AddElement
  <2>5. /\ Cardinality(Since(guesses[q], t)) \in Nat /\ Cardinality(Since(records[q], t)) \in Nat
        /\ Cardinality(Recording(request, q, t)) \in Nat
    BY CountsAreNumbers
  <2>6. QED
    BY <1>1, <2>3, <2>4, <2>5 DEF Covered
<1>5. CASE q # r
  <2>1. Recording(request', q, t) = Recording(request, q, t)
    BY <1>2, <1>3, <1>5, RequestMoves
  <2>2. guesses'[q] = guesses[q]
    BY <1>5 DEF Fails, ExchangeTypeOK
  <2>3. QED
    BY <1>1, <2>1, <2>2 DEF Covered
<1>6. QED
  BY <1>4, <1>5

\* A recorded guess leaves its request and joins the records, which are pruned of what
\* is older than the window only.
LEMMA RecordsCovers ==
  ASSUME ExchangeTypeOK, FailuresFinite, NEW h \in Handler, NEW r \in Remote, NEW x,
         NEW now \in Stamps, Records(h, r, x, now),
         NEW q \in Remote, NEW t \in Int, clock + 1 - Window <= t, Covered(q, t)
  PROVE  Covered(q, t)'
<1>1. guesses' = guesses /\ Moves(h, Idle) /\ Idle.pc = "idle"
  BY DEF Records, Idle, Moves
<1>2. Recording(request', q, t) = Recording(request, q, t) \ {h}
  BY <1>1, RequestMoves
<1>3. /\ Pruned(now)[q] \in SUBSET Failure /\ IsFiniteSet(Pruned(now)[q])
      /\ Since(Pruned(now)[q], t) = Since(records[q], t)
  <2>1. records[q] \in SUBSET Failure /\ LimiterTypeOK
    BY DEF ExchangeTypeOK, LimiterTypeOK
  <2>2. Since(Within(records[q], now), t) = Since(records[q], t)
    BY <2>1, PruneKeepsWindow
  <2>3. /\ Pruned(now) \in [Remote -> SUBSET Failure]
        /\ Pruned(now)[q] = Within(records[q], now) /\ IsFiniteSet(Pruned(now)[q])
    BY <2>1, PrunedRecords
  <2>4. QED
    BY <2>2, <2>3
<1>4. /\ Cardinality(Since(guesses[q], t)) \in Nat /\ Cardinality(Since(records[q], t)) \in Nat
      /\ Cardinality(Recording(request, q, t)) \in Nat /\ IsFiniteSet(Recording(request, q, t))
  BY CountsAreNumbers
<1>5. CASE q = r
  <2>1. records'[q] = Pruned(now)[q] \cup {x} /\ x \notin Pruned(now)[q] /\ x.at = now
    BY <1>5, PrunedRecords DEF Records, ExchangeTypeOK
  <2>2. Cardinality(Since(records'[q], t)) =
            Cardinality(Since(records[q], t)) + (IF now >= t THEN 1 ELSE 0)
    BY <1>3, <2>1, SinceFailure
  <2>3. h \in Recording(request, q, t) => now >= t
    BY <1>5, RequestKinds DEF Records, Recording, Stamps
  <2>4. Cardinality(Recording(request, q, t) \ {h}) =
            IF h \in Recording(request, q, t) THEN Cardinality(Recording(request, q, t)) - 1
            ELSE Cardinality(Recording(request, q, t))
    BY <1>4, FS_RemoveElement
  <2>5. QED
    BY <1>1, <1>2, <1>4, <2>2, <2>3, <2>4 DEF Covered
<1>6. CASE q # r
  <2>1. records'[q] = Pruned(now)[q] /\ h \notin Recording(request, q, t)
    BY <1>6, PrunedRecords DEF Records, ExchangeTypeOK, Recording
  <2>2. Recording(request', q, t) = Recording(request, q, t)
    BY <1>2, <2>1
  <2>3. QED
    BY <1>1, <1>3, <2>1, <2>2 DEF Covered
<1>7. QED
  BY <1>5, <1>6

\* Time goes on: there are no guesses of the future, and those that leave the window
\* are older than t.
LEMMA TickCovers ==
  ASSUME ExchangeTypeOK, FailuresFinite, GuessesInWindow, Tick,
         NEW q \in Remote, NEW t \in Int, clock + 2 - Window <= t,
         t <= clock => Covered(q, t)
  PROVE  Covered(q, t)'
<1> USE LimiterAssumption
<1>1. /\ clock' = clock + 1 /\ clock \in Nat
      /\ records' = records /\ request' = request
      /\ guesses'[q] = Within(guesses[q], clock + 1)
      /\ guesses[q] \in SUBSET Failure
  BY DEF Tick, ExchangeTypeOK, LimiterTypeOK
<1>2. Recording(request', q, t) = Recording(request, q, t)
  BY <1>1 DEF Recording
<1>3. CASE t <= clock
  <2>1. Since(guesses'[q], t) = Since(guesses[q], t)
    BY <1>1 DEF Since, Within, Failure
  <2>2. QED
    BY <1>1, <1>2, <1>3, <2>1 DEF Covered
<1>4. CASE t > clock
  <2>1. Since(guesses'[q], t) = {}
    BY <1>1, <1>4 DEF Since, Within, Failure, GuessesInWindow
  <2>2. Cardinality(Since(guesses'[q], t)) = 0
    BY <2>1, FS_EmptySet, Zenon
  <2>3. Cardinality(Since(records[q], t)) \in Nat /\ Cardinality(Recording(request, q, t)) \in Nat
    BY CountsAreNumbers
  <2>4. QED
    BY <1>1, <1>2, <2>2, <2>3 DEF Covered
<1>5. QED
  BY <1>1, <1>3, <1>4

\* Nothing else touches what is within the window, except that Reset clears both.
LEMMA OthersCover ==
  ASSUME ExchangeTypeOK, FailuresFinite, NEW q \in Remote, NEW t \in Int,
         clock + 1 - Window <= t, Covered(q, t)
  PROVE  /\ \A r \in Remote, now \in Stamps : TooManyAttempts(r, now) => Covered(q, t)'
         /\ \A r \in Remote, now \in Stamps, h \in Handler : Admit(h, r, now) => Covered(q, t)'
         /\ \A h \in Handler, r \in Remote : Succeeds(h, r) => Covered(q, t)'
         /\ \A h \in Handler, r \in Remote : Resets(h, r) => Covered(q, t)'
<1>1. ASSUME NEW now \in Stamps
      PROVE  Pruned(now)[q] \in SUBSET Failure /\ Since(Pruned(now)[q], t) = Since(records[q], t)
  <2>1. records[q] \in SUBSET Failure /\ LimiterTypeOK
    BY DEF ExchangeTypeOK, LimiterTypeOK
  <2>2. Since(Within(records[q], now), t) = Since(records[q], t)
    BY <2>1, PruneKeepsWindow
  <2>3. /\ Pruned(now) \in [Remote -> SUBSET Failure]
        /\ Pruned(now)[q] = Within(records[q], now)
    BY <2>1, PrunedRecords
  <2>4. QED
    BY <2>2, <2>3
<1>2. ASSUME NEW r \in Remote, NEW now \in Stamps, TooManyAttempts(r, now)
      PROVE  Covered(q, t)'
  <2>1. records' = Pruned(now) /\ guesses' = guesses /\ request' = request
    BY <1>2 DEF TooManyAttempts, Refuse
  <2>2. QED
    BY <1>1, <2>1 DEF Covered
<1>3. ASSUME NEW r \in Remote, NEW now \in Stamps, NEW h \in Handler, Admit(h, r, now)
      PROVE  Covered(q, t)'
  <2>1. records' = Pruned(now) /\ guesses' = guesses /\ Moves(h, Serving("lookup", r))
    BY <1>3 DEF Admit, Allow, Moves
  <2>2. h \notin Recording(request, q, t) /\ Serving("lookup", r).pc = "lookup"
    BY <1>3, RequestKinds DEF Admit, Recording, Serving
  <2>3. Recording(request', q, t) = Recording(request, q, t)
    BY <2>1, <2>2, RequestMoves
  <2>4. QED
    BY <1>1, <2>1, <2>3 DEF Covered
<1>4. ASSUME NEW h \in Handler, NEW r \in Remote, Succeeds(h, r)
      PROVE  Covered(q, t)'
  <2>1. records' = records /\ guesses' = guesses /\ Moves(h, Serving("reset", r))
    BY <1>4 DEF Succeeds, Moves
  <2>2. h \notin Recording(request, q, t) /\ Serving("reset", r).pc # "record"
    BY <1>4 DEF Succeeds, Recording, Serving
  <2>3. Recording(request', q, t) = Recording(request, q, t)
    BY <2>1, <2>2, RequestMoves
  <2>4. QED
    BY <2>1, <2>3 DEF Covered
<1>5. ASSUME NEW h \in Handler, NEW r \in Remote, Resets(h, r)
      PROVE  Covered(q, t)'
  <2>1. Moves(h, Idle) /\ h \notin Recording(request, q, t) /\ Idle.pc = "idle"
    BY <1>5 DEF Resets, Recording, Idle, Moves
  <2>2. Recording(request', q, t) = Recording(request, q, t)
    BY <2>1, RequestMoves
  <2>3. CASE q = r
    <3>1. guesses'[q] = {} /\ records'[q] = {}
      BY <1>5, <2>3 DEF Resets, ExchangeTypeOK, LimiterTypeOK
    <3>2. Since({}, t) = {}
      BY DEF Since
    <3>3. Cardinality({}) = 0
      BY FS_EmptySet, Zenon
    <3>4. Cardinality(Recording(request, q, t)) \in Nat
      BY CountsAreNumbers
    <3>5. Cardinality(Since(guesses'[q], t)) = 0 /\ Cardinality(Since(records'[q], t)) = 0
      BY <3>1, <3>2, <3>3
    <3>6. QED
      BY <2>2, <3>4, <3>5 DEF Covered
  <2>4. CASE q # r
    <3>1. guesses'[q] = guesses[q] /\ records'[q] = records[q]
      BY <1>5, <2>4 DEF Resets, ExchangeTypeOK, LimiterTypeOK
    <3>2. QED
      BY <2>2, <3>1 DEF Covered
  <2>5. QED
    BY <2>3, <2>4
<1>6. QED
  BY <1>2, <1>3, <1>4, <1>5

\* Every guess in the window stays a record or with its request.
LEMMA CoveredStep ==
  ASSUME ExchangeTypeOK, FailuresFinite, GuessesInWindow, GuessesCovered, [Next]_exchangeVars
  PROVE  GuessesCovered'
<1>1. clock \in Nat /\ clock' \in Nat
  BY LimiterTypeStep DEF ExchangeTypeOK, LimiterTypeOK
<1> SUFFICES ASSUME NEW q \in Remote, NEW t \in (clock' + 1 - Window)..clock'
             PROVE  Covered(q, t)'
  BY DEF GuessesCovered, Covered
<1>2. t \in Int /\ clock' + 1 - Window <= t /\ t <= clock'
  <2>1. clock' + 1 - Window \in Int /\ clock' \in Int
    BY <1>1, LimiterAssumption
  <2>2. QED
    BY <2>1
<1>3. t \in (clock + 1 - Window)..clock => Covered(q, t)
  BY DEF GuessesCovered, Covered
<1>4. CASE Tick
  <2>1. clock' = clock + 1
    BY <1>4 DEF Tick
  <2>2. clock + 2 - Window <= t /\ (t <= clock => Covered(q, t))
    BY <1>1, <1>2, <1>3, <2>1, LimiterAssumption
  <2>3. QED
    BY <1>2, <1>4, <2>2, TickCovers
<1>5. CASE clock' = clock
  <2>1. Covered(q, t) /\ clock + 1 - Window <= t /\ t <= clock
    BY <1>1, <1>2, <1>3, <1>5
  <2>2. CASE UNCHANGED <<records, clock, request, guesses>>
    BY <2>1, <2>2 DEF Covered
  <2>3. QED
    BY <1>2, <1>4, <2>1, <2>2, OthersCover, FailsCovers, RecordsCovers, ExchangeStep
<1>6. Tick \/ clock' = clock
  BY ExchangeStep DEF TooManyAttempts, Admit, Succeeds, Fails, Records, Resets
<1>7. QED
  BY <1>4, <1>5, <1>6

\* Allow counts the records of a stamp that is not in the future: those of the window
\* are among them, and with the requests that record they outnumber the guesses.
LEMMA AdmitBounds ==
  ASSUME ExchangeTypeOK, FailuresFinite, GuessesInWindow, GuessesCovered,
         NEW r \in Remote, NEW now \in Stamps, NEW h \in Handler, Admit(h, r, now)
  PROVE  Cardinality(guesses'[r]) + Cardinality(LookingUp(request', r))
            < Limit + Cardinality(Handler)
<1> DEFINE t == clock + 1 - Window
<1>1. /\ clock \in Nat /\ t \in Int /\ t \in (clock + 1 - Window)..clock /\ LimiterTypeOK
      /\ Limit \in Int
  BY LimiterAssumption DEF ExchangeTypeOK, LimiterTypeOK
<1>2. Since(guesses[r], t) = guesses[r]
  BY <1>1, LimiterAssumption DEF Since, GuessesInWindow, ExchangeTypeOK, Failure
<1>3. Covered(r, t)
  BY <1>1 DEF GuessesCovered, Covered
<1>4. Cardinality(Since(records[r], t)) < Limit
  <2>1. records[r] \in SUBSET Failure
    BY <1>1 DEF LimiterTypeOK
  <2>2. Since(records[r], t) \subseteq Within(records[r], now)
    BY <1>1, <2>1, PruneKeepsWindow
  <2>3. /\ Pruned(now)[r] = Within(records[r], now) /\ IsFiniteSet(Pruned(now)[r])
    BY <1>1, PrunedRecords
  <2>4. /\ Cardinality(Since(records[r], t)) <= Cardinality(Pruned(now)[r])
        /\ Cardinality(Since(records[r], t)) \in Nat
        /\ Cardinality(Pruned(now)[r]) \in Nat
    BY <2>2, <2>3, FS_Subset, FS_CardinalityType
  <2>5. Cardinality(Pruned(now)[r]) < Limit
    BY DEF Admit, Allow
  <2>6. QED
    BY <1>1, <2>4, <2>5
<1>5. /\ Moves(h, Serving("lookup", r)) /\ guesses' = guesses
      /\ h \notin LookingUp(request, r) /\ h \notin Recording(request, r, t)
      /\ Serving("lookup", r).pc = "lookup" /\ Serving("lookup", r).remote = r
  BY RequestKinds DEF Admit, LookingUp, Recording, Serving, Moves
<1>6. LookingUp(request', r) = LookingUp(request, r) \cup {h}
  BY <1>5, RequestMoves
<1> HIDE DEF t
<1>7. /\ Cardinality(LookingUp(request, r)) \in Nat
      /\ Cardinality(Recording(request, r, t)) \in Nat
      /\ Cardinality(Handler) \in Nat /\ Cardinality({h}) \in Nat
      /\ Cardinality(LookingUp(request, r)) + Cardinality(Recording(request, r, t)) + Cardinality({h})
            <= Cardinality(Handler)
      /\ IsFiniteSet(LookingUp(request, r))
  <2>1. {h} \in SUBSET Handler /\ \A i \in {h} : i \notin LookingUp(request, r) /\ i \notin Recording(request, r, t)
    BY <1>5
  <2>2. QED
    BY <2>1, RequestsCounted
<1>8. Cardinality({h}) = 1
  BY FS_Singleton, Zenon
<1>9. Cardinality(LookingUp(request', r)) = Cardinality(LookingUp(request, r)) + 1
  BY <1>5, <1>6, <1>7, FS_AddElement
<1>10. Cardinality(guesses[r])
            <= Cardinality(Since(records[r], t)) + Cardinality(Recording(request, r, t))
  BY <1>2, <1>3 DEF Covered
<1>11. Cardinality(guesses[r]) \in Nat /\ Cardinality(Since(records[r], t)) \in Nat
  BY CountsAreNumbers
<1>12. QED
  BY <1>1, <1>4, <1>5, <1>7, <1>8, <1>9, <1>10, <1>11

\* Any other step makes the requests that look up fewer, or as many as it makes guesses more.
LEMMA AttemptsStep ==
  ASSUME ExchangeTypeOK, FailuresFinite, GuessesInWindow, GuessesCovered, AttemptsBounded,
         [Next]_exchangeVars
  PROVE  AttemptsBounded'
<1> DEFINE Bounded(gs, req, q) ==
        Cardinality(gs[q]) + Cardinality(LookingUp(req, q)) < Limit + Cardinality(Handler)
<1>1. \A q \in Remote : Bounded(guesses, request, q)
  BY DEF AttemptsBounded
<1> SUFFICES ASSUME NEW q \in Remote
             PROVE  Bounded(guesses', request', q)
  BY DEF AttemptsBounded
<1>2. /\ Cardinality(guesses[q]) \in Nat /\ Cardinality(LookingUp(request, q)) \in Nat
      /\ Cardinality(Handler) \in Nat /\ Limit \in Nat /\ Limit > 0
      /\ IsFiniteSet(guesses[q]) /\ IsFiniteSet(LookingUp(request, q))
  BY CountsAreNumbers, LimiterAssumption DEF FailuresFinite
<1>3. ASSUME guesses'[q] \in SUBSET guesses[q],
             LookingUp(request', q) \in SUBSET LookingUp(request, q)
      PROVE  Bounded(guesses', request', q)
  <2>1. /\ Cardinality(guesses'[q]) <= Cardinality(guesses[q])
        /\ Cardinality(guesses'[q]) \in Nat
        /\ Cardinality(LookingUp(request', q)) <= Cardinality(LookingUp(request, q))
        /\ Cardinality(LookingUp(request', q)) \in Nat
    BY <1>2, <1>3, FS_Subset, FS_CardinalityType
  <2>2. QED
    BY <1>1, <1>2, <2>1
<1> HIDE DEF Bounded
<1>4. CASE UNCHANGED <<records, clock, request, guesses>>
  BY <1>3, <1>4
<1>5. CASE Tick
  BY <1>3, <1>5 DEF Tick, Within
<1>6. ASSUME NEW r \in Remote, NEW now \in Stamps, TooManyAttempts(r, now)
      PROVE  Bounded(guesses', request', q)
  BY <1>3, <1>6 DEF TooManyAttempts
<1>7. ASSUME NEW r \in Remote, NEW now \in Stamps, NEW h \in Handler, Admit(h, r, now)
      PROVE  Bounded(guesses', request', q)
  <2>1. CASE q = r
    BY <1>7, <2>1, AdmitBounds DEF Bounded
  <2>2. CASE q # r
    <3>1. /\ Moves(h, Serving("lookup", r)) /\ guesses' = guesses
          /\ Serving("lookup", r).remote # q
      BY <1>7, <2>2 DEF Admit, Serving, Moves
    <3>2. LookingUp(request', q) = LookingUp(request, q) \ {h}
      BY <3>1, RequestMoves
    <3>3. QED
      BY <1>3, <3>1, <3>2
  <2>3. QED
    BY <2>1, <2>2
<1>8. ASSUME NEW h \in Handler, NEW r \in Remote, Succeeds(h, r)
      PROVE  Bounded(guesses', request', q)
  <2>1. /\ Moves(h, Serving("reset", r)) /\ guesses' = guesses
        /\ Serving("reset", r).pc # "lookup"
    BY <1>8 DEF Succeeds, Serving, Moves
  <2>2. LookingUp(request', q) = LookingUp(request, q) \ {h}
    BY <2>1, RequestMoves
  <2>3. QED
    BY <1>3, <2>1, <2>2
<1>9. ASSUME NEW h \in Handler, NEW r \in Remote, NEW x, Fails(h, r, x)
      PROVE  Bounded(guesses', request', q)
  <2>1. Moves(h, Rejected(r)) /\ Rejected(r).pc # "lookup"
    BY <1>9 DEF Fails, Rejected, Moves
  <2>2. LookingUp(request', q) = LookingUp(request, q) \ {h}
    BY <2>1, RequestMoves
  <2>3. CASE q = r
    <3>1. /\ h \in LookingUp(request, q) /\ x \notin guesses[q]
          /\ guesses'[q] = guesses[q] \cup {x}
      BY <1>9, <2>3 DEF Fails, LookingUp, ExchangeTypeOK
    <3>2. Cardinality(guesses'[q]) = Cardinality(guesses[q]) + 1
      BY <1>2, <3>1, FS_AddElement
    <3>3. Cardinality(LookingUp(request', q)) = Cardinality(LookingUp(request, q)) - 1
      BY <1>2, <2>2, <3>1, FS_RemoveElement
    <3>4. QED
      BY <1>1, <1>2, <3>2, <3>3 DEF Bounded
  <2>4. CASE q # r
    <3>1. guesses'[q] = guesses[q]
      BY <1>9, <2>4 DEF Fails, ExchangeTypeOK
    <3>2. QED
      BY <1>3, <2>2, <3>1
  <2>5. QED
    BY <2>3, <2>4
<1>10. ASSUME NEW h \in Handler, NEW r \in Remote, NEW x, NEW now \in Stamps,
              Records(h, r, x, now)
       PROVE  Bounded(guesses', request', q)
  <2>1. Moves(h, Idle) /\ Idle.pc # "lookup" /\ guesses' = guesses
    BY <1>10 DEF Records, Idle, Moves
  <2>2. LookingUp(request', q) = LookingUp(request, q) \ {h}
    BY <2>1, RequestMoves
  <2>3. QED
    BY <1>3, <2>1, <2>2
<1>11. ASSUME NEW h \in Handler, NEW r \in Remote, Resets(h, r)
       PROVE  Bounded(guesses', request', q)
  <2>1. /\ Moves(h, Idle) /\ Idle.pc # "lookup"
        /\ guesses'[q] \in SUBSET guesses[q]
    BY <1>11 DEF Resets, Idle, Moves, ExchangeTypeOK
  <2>2. LookingUp(request', q) = LookingUp(request, q) \ {h}
    BY <2>1, RequestMoves
  <2>3. QED
    BY <1>3, <2>1, <2>2
<1>12. QED
  BY <1>4, <1>5, <1>6, <1>7, <1>8, <1>9, <1>10, <1>11, ExchangeStep

\* A write of the store keeps the shape of its maps.
LEMMA StoreTypeStep == StoreTypeOK /\ [StoreNext]_storeVars => StoreTypeOK'
<1> SUFFICES ASSUME StoreTypeOK, [StoreNext]_storeVars
             PROVE  StoreTypeOK'
  OBVIOUS
<1>1. ASSUME NEW k \in Key, NEW e \in UserEntitlement, upsertLocked(k, e)
      PROVE  StoreTypeOK'
  <2>1. e.subject \in Subject /\ (e.tx = NoTx \/ e.tx \in Tx)
    BY DEF UserEntitlement
  <2>2. QED
    BY <1>1, <2>1 DEF StoreTypeOK, upsertLocked, SubjectsKept, TxKept
<1>2. ASSUME NEW e \in UserEntitlement, NEW t \in Tx, UpsertByOriginalTransactionID(t, e)
      PROVE  StoreTypeOK'
  <2>1. originalTxToID[t] \in Key
    BY <1>2 DEF UpsertByOriginalTransactionID, StoreTypeOK
  <2>2. (IF e.tx = NoTx THEN [e EXCEPT !.tx = t] ELSE e) \in UserEntitlement
    BY DEF UserEntitlement
  <2>3. QED
    BY <1>1, <1>2, <2>1, <2>2 DEF UpsertByOriginalTransactionID
<1>3. CASE UNCHANGED storeVars
  BY <1>3 DEF storeVars, StoreTypeOK
<1>4. QED
  BY <1>1, <1>2, <1>3 DEF StoreNext, Add, Upsert

\* No requests, no failures.
LEMMA ExchangeInit == Init => ExchangeInv
<1> SUFFICES ASSUME Init
             PROVE  ExchangeInv
  OBVIOUS
<1> USE DEF Init, LimiterInit
<1>1. IsFiniteSet({}) /\ Cardinality({}) = 0
  BY FS_EmptySet, Zenon
<1>2. ExchangeTypeOK
  BY DEF ExchangeTypeOK, LimiterTypeOK, StoreInit, StoreTypeOK
<1>3. FailuresFinite /\ GuessesInWindow
  BY <1>1 DEF FailuresFinite, GuessesInWindow
<1>4. \A r, t : Since({}, t) = {} /\ LookingUp(request, r) = {} /\ Recording(request, r, t) = {}
  BY DEF Since, LookingUp, Recording, Idle
<1>5. GuessesCovered
  <2>1. \A r \in Remote, t \in (clock + 1 - Window)..clock :
            /\ Cardinality(Since(guesses[r], t)) = 0
            /\ Cardinality(Since(records[r], t)) = 0
            /\ Cardinality(Recording(request, r, t)) = 0
    BY <1>1, <1>4
  <2>2. QED
    BY <2>1 DEF GuessesCovered
<1>6. AttemptsBounded
  <2>1. \A r \in Remote : Cardinality(guesses[r]) = 0 /\ Cardinality(LookingUp(request, r)) = 0
    BY <1>1, <1>4
  <2>2. Cardinality(Handler) \in Nat
    BY HandlerAssumption, FS_CardinalityType
  <2>3. QED
    BY <2>1, <2>2, LimiterAssumption DEF AttemptsBounded
<1>7. QED
  BY <1>2, <1>3, <1>5, <1>6 DEF ExchangeInv

\* Every step of clock, store and requests keeps the invariant.
LEMMA ExchangeInvStep == ExchangeInv /\ [Next]_exchangeVars => ExchangeInv'
<1> SUFFICES ASSUME ExchangeInv, [Next]_exchangeVars
             PROVE  ExchangeInv'
  OBVIOUS
<1>1. ExchangeTypeOK /\ FailuresFinite /\ GuessesInWindow /\ GuessesCovered /\ AttemptsBounded
  BY DEF ExchangeInv
<1>2. StoreTypeOK'
  BY <1>1, StoreStep, StoreTypeStep DEF ExchangeTypeOK
<1>3. ExchangeTypeOK' /\ FailuresFinite'
  BY <1>1, <1>2, LimiterTypeStep DEF ExchangeTypeOK
<1>4. GuessesInWindow' /\ GuessesCovered' /\ AttemptsBounded'
  BY <1>1, WindowStep, CoveredStep, AttemptsStep
<1>5. QED
  BY <1>3, <1>4 DEF ExchangeInv

-----------------------------------------------------------------------------
(* The theorems *)

\* The types, the guesses of the window, where each is counted, and what is still
\* coming, whatever the requests, the clock and the writes of the store do.
THEOREM ExchangeInvariant == Spec => []ExchangeInv
  BY ExchangeInit, ExchangeInvStep, PTL DEF Spec

\* However many requests of an address are between Allow and RecordFailure, in whatever
\* order they read the time and get the lock: within a window of real time the address
\* has fewer wrong guesses than the limit and the requests in flight together.
THEOREM GuessesAreBounded == Spec => []GuessesBounded
<1>1. ExchangeInv => GuessesBounded
  <2> SUFFICES ASSUME ExchangeInv, NEW r \in Remote
               PROVE  Cardinality(Within(guesses[r], clock)) < Limit + Cardinality(Handler)
    BY DEF GuessesBounded
  <2>1. FailuresFinite /\ Cardinality(guesses[r]) + Cardinality(LookingUp(request, r))
                            < Limit + Cardinality(Handler)
    BY DEF ExchangeInv, AttemptsBounded
  <2>2. Within(guesses[r], clock) \in SUBSET guesses[r] /\ IsFiniteSet(guesses[r])
    BY <2>1 DEF Within, FailuresFinite
  <2>3. /\ Cardinality(Within(guesses[r], clock)) <= Cardinality(guesses[r])
        /\ Cardinality(Within(guesses[r], clock)) \in Nat
    BY <2>2, FS_Subset, FS_CardinalityType
  <2>4. /\ Cardinality(guesses[r]) \in Nat /\ Cardinality(LookingUp(request, r)) \in Nat
        /\ Cardinality(Handler) \in Nat /\ Limit \in Nat
    BY <2>1, CountsAreNumbers, LimiterAssumption
  <2>5. QED
    BY <2>1, <2>3, <2>4
<1>2. QED
  BY <1>1, ExchangeInvariant, PTL

\* Under the two endpoints the store takes the steps of its own specification only, so
\* what is proved of StoreSpec holds while credentials are exchanged.
THEOREM ExchangeImplementsStore == Spec => StoreSpec
<1>1. Init => StoreInit
  BY DEF Init
<1>2. QED
  BY <1>1, StoreStep, PTL DEF Spec, StoreSpec

\* Allow may have read the time before others that already recorded: it counts all
\* that real time has in the window, and more.
LEMMA LockedOutByAnyStamp ==
  ASSUME ExchangeTypeOK, FailuresFinite, NEW r \in Remote, LockedOut(r), NEW now \in Stamps
  PROVE  ~(Cardinality(Pruned(now)[r]) < Limit)
<1>1. LimiterTypeOK /\ records[r] \in SUBSET Failure
  BY DEF ExchangeTypeOK, LimiterTypeOK
<1>2. Within(records[r], clock) \in SUBSET Within(records[r], now)
  BY <1>1, LimiterAssumption DEF Within, Stamps, Failure, LimiterTypeOK
<1>3. Pruned(now)[r] = Within(records[r], now) /\ IsFiniteSet(Pruned(now)[r])
  BY <1>1, PrunedRecords
<1>4. /\ Cardinality(Within(records[r], clock)) <= Cardinality(Pruned(now)[r])
      /\ Cardinality(Within(records[r], clock)) \in Nat
      /\ Cardinality(Pruned(now)[r]) \in Nat
  BY <1>2, <1>3, FS_Subset, FS_CardinalityType
<1>5. QED
  BY <1>4, LimiterAssumption DEF LockedOut

\* Nobody of a locked-out address is let in, and only a request that was let in before
\* adds to its failures.
LockOutStep ==
    \A r \in Remote :
        /\ LockedOut(r) => ~\E h \in Handler : request[h] = Idle /\ request'[h] = Serving("lookup", r)
        /\ \/ records'[r] \subseteq records[r]
           \/ \E h \in Handler : h \in Recording(request, r, 0) /\ request'[h] = Idle

\* A lock-out by real time is one by every stamp Allow may have read, and Allow itself
\* never prolongs it: attempts that are refused are not failures.
THEOREM LockOutHolds == Spec => [][LockOutStep]_exchangeVars
<1>1. ExchangeInv /\ [Next]_exchangeVars => [LockOutStep]_exchangeVars
  <2> SUFFICES ASSUME ExchangeInv, [Next]_exchangeVars, NEW r \in Remote
               PROVE  /\ LockedOut(r) => ~\E h \in Handler : /\ request[h] = Idle
                                                             /\ request'[h] = Serving("lookup", r)
                      /\ \/ records'[r] \subseteq records[r]
                         \/ \E h \in Handler : h \in Recording(request, r, 0) /\ request'[h] = Idle
    BY DEF LockOutStep
  <2>1. ExchangeTypeOK /\ FailuresFinite /\ LimiterTypeOK
    BY DEF ExchangeInv, ExchangeTypeOK
  <2>2. ASSUME LockedOut(r), NEW h \in Handler, request[h] = Idle,
               request'[h] = Serving("lookup", r)
        PROVE  FALSE
    <3>1. request[h].pc = "idle" /\ request'[h].pc = "lookup" /\ request'[h].remote = r
      BY <2>2 DEF Idle, Serving
    <3>2. ASSUME NEW q \in Remote, NEW now \in Stamps, NEW i \in Handler, Admit(i, q, now)
          PROVE  FALSE
      <4>1. i = h /\ q = r
        BY <2>1, <3>1, <3>2 DEF Admit, Serving, ExchangeTypeOK
      <4>2. QED
        BY <2>1, <2>2, <3>2, <4>1, LockedOutByAnyStamp DEF Admit, Allow
    <3>3. ASSUME NEW i \in Handler, NEW v, v.pc # "lookup", Moves(i, v)
          PROVE  FALSE
      BY <2>1, <3>1, <3>3 DEF Moves, ExchangeTypeOK
    <3>4. request' # request
      BY <3>1
    <3>5. /\ Idle.pc # "lookup"
          /\ \A q : Serving("reset", q).pc # "lookup" /\ Rejected(q).pc # "lookup"
      BY DEF Idle, Serving, Rejected
    <3>6. ASSUME NEW i \in Handler, NEW q \in Remote
          PROVE  /\ ~Succeeds(i, q) /\ ~Resets(i, q)
                 /\ ~\E x : Fails(i, q, x)
                 /\ ~\E now \in Stamps : \E x : Records(i, q, x, now)
      BY <3>3, <3>5 DEF Succeeds, Resets, Fails, Records, Moves
    <3>7. QED
      BY <2>1, <3>2, <3>4, <3>6, ExchangeStep DEF Tick, TooManyAttempts
  <2>3. \/ records'[r] \subseteq records[r]
        \/ \E h \in Handler : h \in Recording(request, r, 0) /\ request'[h] = Idle
    <3>1. \A now : Pruned(now)[r] \in SUBSET records[r]
      BY <2>1, PrunedRecords
    <3>2. ASSUME NEW h \in Handler, NEW q \in Remote, NEW x, NEW now \in Stamps,
                 Records(h, q, x, now)
          PROVE  \/ records'[r] \subseteq records[r]
                 \/ h \in Recording(request, r, 0) /\ request'[h] = Idle
      <4>1. CASE q = r
        <5>1. request[h].at \in Nat
          BY <2>1, <3>2, RequestKinds DEF Records
        <5>2. QED
          BY <2>1, <3>2, <4>1, <5>1 DEF Records, Recording, ExchangeTypeOK
      <4>2. CASE q # r
        BY <2>1, <3>1, <3>2, <4>2, PrunedRecords DEF Records
      <4>3. QED
        BY <4>1, <4>2
    <3>3. ASSUME NEW h \in Handler, NEW q \in Remote, Resets(h, q)
          PROVE  records'[r] \subseteq records[r]
      BY <2>1, <3>3 DEF Resets, LimiterTypeOK
    <3>4. QED
      BY <2>1, <3>1, <3>2, <3>3, ExchangeStep
      DEF Tick, TooManyAttempts, Refuse, Admit, Allow, Succeeds, Fails
  <2>4. QED
    BY <2>2, <2>3
<1>2. QED
  BY <1>1, ExchangeInvariant, PTL DEF Spec
=============================================================================
