------------------------ MODULE AgentLifecycleProofs ------------------------
(***************************************************************************)
(* Proofs about AgentRegistry, AgentHandlers and AgentLifecycle, for every   *)
(* number of subjects and sessions, every limit, staleness, retention and    *)
(* lock delay.                                                               *)
(*                                                                           *)
(* RegistryInv is inductive: TombstoneExcludesSession alone is, but the      *)
(* action properties compare stamps with real time, and so need what         *)
(* StampsBounded and TombstonesKept say of the distance between the two.     *)
(* Every step of the endpoints is a registry step or leaves the registry     *)
(* alone, so this holds of the server; the session limit is never exceeded;  *)
(* no session slot leaks.  Every step of the process and its rivals is a     *)
(* step of the endpoints, so all of it holds with them as clients; and       *)
(* unregistering is final.                                                   *)
(***************************************************************************)
EXTENDS AgentLifecycle, FiniteSetTheorems, TLAPS

-----------------------------------------------------------------------------
(* The registry *)

\* NewAgentRegistry: two empty maps.
LEMMA InitRegistryInv == RegistryInit => RegistryInv
  BY ConstantsAssumption
  DEF RegistryInit, RegistryInv, RegistryTypeOK, TombstoneExcludesSession, StampsBounded,
      TombstonesKept, IsTerminated, Time

\* What the actions that write one item have in common.
LEMMA StoreItemInv ==
  ASSUME RegistryInv,
         NEW s \in Subject, NEW x \in Session, NEW now \in Stamps,
         ~IsTerminated(s, x), StoreItem(s, x, now),
         UNCHANGED <<terminated, clock, killedAt>>
  PROVE  RegistryInv'
<1> USE ConstantsAssumption DEF RegistryInv, StoreItem, IsTerminated, Time
<1>0. now \in Nat /\ now <= clock /\ clock <= now + LockDelay
  BY DEF Stamps, RegistryTypeOK
<1>1. RegistryTypeOK'
  BY <1>0 DEF RegistryTypeOK
<1>2. TombstoneExcludesSession'
  BY DEF RegistryTypeOK, TombstoneExcludesSession
<1>3. StampsBounded'
  BY <1>0 DEF RegistryTypeOK, StampsBounded
<1>4. TombstonesKept'
  BY DEF RegistryTypeOK, TombstonesKept
<1>5. QED
  BY <1>1, <1>2, <1>3, <1>4

\* The actions that only unlist keep the stamps of what they leave.
LEMMA WritesForgotten ==
  ASSUME RegistryInv, ForgetWrites, UNCHANGED clock,
         items' \in [Subject -> [Session -> Time \cup {Absent}]],
         \A s \in Subject, x \in Session :
             items'[s][x] # Absent => items'[s][x] = items[s][x]
  PROVE  wroteAt' \in [Subject -> [Session -> Time]] /\ StampsBounded'
<1>1. wroteAt' \in [Subject -> [Session -> Time]]
  BY DEF ForgetWrites, RegistryInv, RegistryTypeOK, Time
<1>2. \A s \in Subject, x \in Session : items'[s][x] # Absent => wroteAt'[s][x] = wroteAt[s][x]
  BY DEF ForgetWrites
<1>3. QED
  BY <1>1, <1>2 DEF StampsBounded, RegistryInv

\* Every method of the registry, run with a time read before it got the lock, keeps
\* the invariant.
LEMMA NextRegistryInv == RegistryInv /\ [RegistryNext]_registryVars => RegistryInv'
<1> SUFFICES ASSUME RegistryInv, [RegistryNext]_registryVars
             PROVE  RegistryInv'
  OBVIOUS
<1> USE ConstantsAssumption DEF RegistryInv
<1>1. CASE Tick
  BY <1>1 DEF Tick, RegistryTypeOK, TombstoneExcludesSession, StampsBounded,
              TombstonesKept, IsTerminated, Time
<1>2. ASSUME NEW now \in Stamps, Cleanup(now)
      PROVE  RegistryInv'
  <2> USE <1>2 DEF Cleanup, IsTerminated, Time
  <2>0. now \in Nat /\ now <= clock
    BY DEF Stamps, RegistryTypeOK
  <2>10. /\ items' \in [Subject -> [Session -> Time \cup {Absent}]]
        /\ \A r \in Subject, y \in Session :
               items'[r][y] # Absent => items'[r][y] = items[r][y]
    BY DEF RegistryTypeOK
  <2>11. wroteAt' \in [Subject -> [Session -> Time]] /\ StampsBounded'
    BY <2>10, WritesForgotten
  <2>1. RegistryTypeOK'
    BY <2>10, <2>11 DEF RegistryTypeOK
  <2>2. TombstoneExcludesSession'
    BY DEF RegistryTypeOK, TombstoneExcludesSession
  <2>3. StampsBounded'
    BY <2>11
  <2>4. TombstonesKept'
    BY <2>0 DEF RegistryTypeOK, TombstonesKept, TombstoneExpired
  <2>5. QED
    BY <2>1, <2>2, <2>3, <2>4
<1>3. ASSUME NEW now \in Stamps, NEW s \in Subject, TerminateAll(s, now)
      PROVE  RegistryInv'
  <2> DEFINE hit == {x \in SubjectItems(s) : ~IsStale(items[s][x], now)}
  <2>0. now \in Nat /\ now <= clock /\ clock <= now + LockDelay
    BY DEF Stamps, RegistryTypeOK, Time
  <2>1. /\ items' = [items EXCEPT ![s] =
                        [x \in Session |-> IF x \in hit THEN Absent ELSE items[s][x]]]
        /\ terminated' = [terminated EXCEPT ![s] =
                        [x \in Session |-> IF x \in hit THEN now ELSE terminated[s][x]]]
        /\ killedAt' = [killedAt EXCEPT ![s] =
                        [x \in Session |-> IF x \in hit THEN clock ELSE killedAt[s][x]]]
        /\ ForgetWrites
        /\ UNCHANGED clock
    BY <1>3 DEF TerminateAll
  <2> HIDE DEF hit
  <2> USE <2>0, <2>1 DEF IsTerminated, Time
  <2>10. /\ items' \in [Subject -> [Session -> Time \cup {Absent}]]
        /\ \A r \in Subject, y \in Session :
               items'[r][y] # Absent => items'[r][y] = items[r][y]
    BY DEF RegistryTypeOK
  <2>11. wroteAt' \in [Subject -> [Session -> Time]] /\ StampsBounded'
    BY <2>10, WritesForgotten
  <2>2. RegistryTypeOK'
    BY <2>10, <2>11 DEF RegistryTypeOK
  <2>3. TombstoneExcludesSession'
    BY DEF RegistryTypeOK, TombstoneExcludesSession
  <2>4. StampsBounded'
    BY <2>11
  <2>5. TombstonesKept'
    BY DEF RegistryTypeOK, TombstonesKept
  <2>6. QED
    BY <2>2, <2>3, <2>4, <2>5
<1>4. ASSUME NEW now \in Stamps, NEW s \in Subject, NEW x \in Session,
             Upsert(s, x, now)
      PROVE  RegistryInv'
  BY <1>4, StoreItemInv DEF Upsert
<1>5. ASSUME NEW now \in Stamps, NEW s \in Subject, NEW x \in Session,
             UpsertLimited(s, x, now)
      PROVE  RegistryInv'
  BY <1>5, StoreItemInv DEF UpsertLimited
<1>6. ASSUME NEW now \in Stamps, NEW s \in Subject, NEW x \in Session,
             Touch(s, x, now)
      PROVE  RegistryInv'
  <2>1. ~IsTerminated(s, x)
    BY <1>6 DEF Touch, TombstoneExcludesSession
  <2>2. QED
    BY <1>6, <2>1, StoreItemInv DEF Touch
<1>7. ASSUME NEW now \in Stamps, NEW s \in Subject, NEW x \in Session,
             Terminate(s, x, now)
      PROVE  RegistryInv'
  <2> USE <1>7 DEF Terminate, DeleteItem, IsTerminated, Time
  <2>0. now \in Nat /\ now <= clock /\ clock <= now + LockDelay
    BY DEF Stamps, RegistryTypeOK
  <2>10. /\ items' \in [Subject -> [Session -> Time \cup {Absent}]]
        /\ \A r \in Subject, y \in Session :
               items'[r][y] # Absent => items'[r][y] = items[r][y]
    BY <2>0 DEF RegistryTypeOK
  <2>11. wroteAt' \in [Subject -> [Session -> Time]] /\ StampsBounded'
    BY <2>10, WritesForgotten
  <2>1. RegistryTypeOK'
    BY <2>10, <2>11, <2>0 DEF RegistryTypeOK
  <2>2. TombstoneExcludesSession'
    BY DEF RegistryTypeOK, TombstoneExcludesSession
  <2>3. StampsBounded'
    BY <2>11
  <2>4. TombstonesKept'
    BY <2>0 DEF RegistryTypeOK, TombstonesKept
  <2>5. QED
    BY <2>1, <2>2, <2>3, <2>4
<1>8. ASSUME NEW s \in Subject, NEW x \in Session, Remove(s, x)
      PROVE  RegistryInv'
  <2> USE <1>8 DEF Remove, DeleteItem, IsTerminated, Time
  <2>10. /\ items' \in [Subject -> [Session -> Time \cup {Absent}]]
        /\ \A r \in Subject, y \in Session :
               items'[r][y] # Absent => items'[r][y] = items[r][y]
    BY DEF RegistryTypeOK
  <2>11. wroteAt' \in [Subject -> [Session -> Time]] /\ StampsBounded'
    BY <2>10, WritesForgotten
  <2>1. RegistryTypeOK'
    BY <2>10, <2>11 DEF RegistryTypeOK
  <2>2. TombstoneExcludesSession'
    BY DEF RegistryTypeOK, TombstoneExcludesSession
  <2>3. StampsBounded'
    BY <2>11
  <2>4. TombstonesKept'
    BY DEF RegistryTypeOK, TombstonesKept
  <2>5. QED
    BY <2>1, <2>2, <2>3, <2>4
<1>9. CASE UNCHANGED registryVars
  BY <1>9 DEF registryVars, RegistryTypeOK, TombstoneExcludesSession, StampsBounded,
              TombstonesKept, IsTerminated
<1>10. QED
  BY <1>1, <1>2, <1>3, <1>4, <1>5, <1>6, <1>7, <1>8, <1>9 DEF RegistryNext

\* The inductive invariant holds for ever: stamps stay within the lock delay of
\* the writes and the tombstones outlive the retention.
THEOREM RegistryInvariant == RegistrySpec => []RegistryInv
  BY InitRegistryInv, NextRegistryInv, PTL DEF RegistrySpec

\* The maps keep their shape.
THEOREM RegistryTypeCorrect == RegistrySpec => []RegistryTypeOK
<1>1. RegistryInv => RegistryTypeOK
  BY DEF RegistryInv
<1>2. QED
  BY <1>1, RegistryInvariant, PTL

\* No session is both listed and tombstoned, whatever the order of upserts,
\* heartbeats, terminations and sweeps.
THEOREM RegistryExclusion == RegistrySpec => []TombstoneExcludesSession
<1>1. RegistryInv => TombstoneExcludesSession
  BY DEF RegistryInv
<1>2. QED
  BY <1>1, RegistryInvariant, PTL

\* Cleanup drops no session heard of within StaleAfter less LockDelay.
THEOREM SweepIsSafe == RegistrySpec => SweepKeepsLiveSessions
<1>1. RegistryInv /\ [RegistryNext]_registryVars => [SweepStep]_registryVars
  <2> SUFFICES ASSUME RegistryInv, NEW now \in Stamps, Cleanup(now),
                      NEW s \in Subject, NEW x \in Session, RecentlySeen(s, x)
               PROVE  items'[s][x] # Absent
    BY DEF SweepStep
  <2>1. now \in Nat /\ now <= clock
    BY DEF Stamps, RegistryInv, RegistryTypeOK, Time
  <2>2. /\ items[s][x] \in Nat /\ items[s][x] # Absent /\ wroteAt[s][x] \in Nat
        /\ wroteAt[s][x] <= items[s][x] + LockDelay
    BY DEF RegistryInv, RegistryTypeOK, StampsBounded, RecentlySeen, Time
  <2>3. ~IsStale(items[s][x], now)
    BY <2>1, <2>2, ConstantsAssumption DEF IsStale, RecentlySeen, RegistryInv, RegistryTypeOK, Time
  <2>4. QED
    BY <2>2, <2>3 DEF Cleanup
<1>2. QED
  BY <1>1, RegistryInvariant, PTL DEF RegistrySpec, SweepKeepsLiveSessions

\* TerminateAll reaches every session heard of within StaleAfter less LockDelay.
THEOREM TerminateAllIsComplete == RegistrySpec => TerminateAllHitsLiveSessions
<1>1. RegistryInv /\ [RegistryNext]_registryVars => [TerminateAllStep]_registryVars
  <2> SUFFICES ASSUME RegistryInv, NEW s \in Subject, NEW now \in Stamps,
                      TerminateAll(s, now), NEW x \in Session, RecentlySeen(s, x)
               PROVE  items'[s][x] = Absent /\ terminated'[s][x] # Absent
    BY DEF TerminateAllStep
  <2>1. now \in Nat /\ now <= clock
    BY DEF Stamps, RegistryInv, RegistryTypeOK, Time
  <2>2. /\ items[s][x] \in Nat /\ items[s][x] # Absent /\ wroteAt[s][x] \in Nat
        /\ wroteAt[s][x] <= items[s][x] + LockDelay
    BY DEF RegistryInv, RegistryTypeOK, StampsBounded, RecentlySeen, Time
  <2>3. ~IsStale(items[s][x], now)
    BY <2>1, <2>2, ConstantsAssumption DEF IsStale, RecentlySeen, RegistryInv, RegistryTypeOK, Time
  <2>4. items'[s][x] = Absent /\ terminated'[s][x] = now
    BY <2>2, <2>3 DEF TerminateAll, SubjectItems, RegistryInv, RegistryTypeOK
  <2>5. QED
    BY <2>1, <2>4, ConstantsAssumption
<1>2. QED
  BY <1>1, RegistryInvariant, PTL DEF RegistrySpec, TerminateAllHitsLiveSessions

\* Writing one entry of a two-level map leaves the others alone.
LEMMA UpdateElsewhere ==
  ASSUME NEW S, NEW X, NEW V, NEW f \in [S -> [X -> V]],
         NEW r \in S, NEW y \in X, NEW s \in S, NEW x \in X, NEW v
  PROVE  /\ ~(r = s /\ y = x) => [f EXCEPT ![r][y] = v][s][x] = f[s][x]
         /\ [f EXCEPT ![r][y] = v][r][y] = v
<1>1. CASE r = s
  BY <1>1
<1>2. CASE r # s
  BY <1>2
<1>3. QED
  BY <1>1, <1>2

\* Only the two upserts bring a session back, and neither does under a tombstone.
THEOREM TerminationHolds == RegistrySpec => TerminatedStaysOut
<1>1. RegistryInv /\ [RegistryNext]_registryVars => [ReturnStep]_registryVars
  <2> SUFFICES ASSUME RegistryInv, RegistryNext,
                      NEW s \in Subject, NEW x \in Session,
                      items[s][x] = Absent, items'[s][x] # Absent, killedAt[s][x] # Absent
               PROVE  ~IsTerminated(s, x)
    BY DEF ReturnStep, RegistryInv, TombstonesKept
  <2> USE DEF RegistryInv, RegistryTypeOK
  <2>1. ~Tick
    BY DEF Tick
  <2>2. ASSUME NEW now \in Stamps PROVE ~Cleanup(now)
    BY DEF Cleanup
  <2>3. ASSUME NEW now \in Stamps, NEW r \in Subject, TerminateAll(r, now)
        PROVE  FALSE
    <3> DEFINE hit == {y \in SubjectItems(r) : ~IsStale(items[r][y], now)}
               left == [y \in Session |-> IF y \in hit THEN Absent ELSE items[r][y]]
    <3>1. items' = [items EXCEPT ![r] = left]
      BY <2>3 DEF TerminateAll
    <3>2. r = s => left[x] = Absent
      OBVIOUS
    <3> HIDE DEF left
    <3>3. items'[s] = IF r = s THEN left ELSE items[s]
      BY <3>1
    <3>4. QED
      BY <3>2, <3>3
  <2>4. ASSUME NEW now \in Stamps, NEW r \in Subject, NEW y \in Session
        PROVE  ~Touch(r, y, now) /\ ~Terminate(r, y, now) /\ ~Remove(r, y)
    <3>1. ASSUME Touch(r, y, now) PROVE FALSE
      <4>1. items[r][y] # Absent /\ items' = [items EXCEPT ![r][y] = now]
        BY <3>1 DEF Touch, StoreItem
      <4>2. ~(r = s /\ y = x)
        BY <4>1
      <4>3. items'[s][x] = items[s][x]
        BY <4>1, <4>2, UpdateElsewhere
      <4>4. QED
        BY <4>3
    <3>2. ASSUME Terminate(r, y, now) \/ Remove(r, y) PROVE FALSE
      <4>1. items' = [items EXCEPT ![r][y] = Absent]
        BY <3>2 DEF Terminate, Remove, DeleteItem
      <4>2. items'[s][x] = items[s][x] \/ items'[s][x] = Absent
        BY <4>1, UpdateElsewhere
      <4>3. QED
        BY <4>2
    <3>3. QED
      BY <3>1, <3>2
  <2>5. ASSUME NEW now \in Stamps, NEW r \in Subject, NEW y \in Session,
               Upsert(r, y, now) \/ UpsertLimited(r, y, now)
        PROVE  ~IsTerminated(s, x)
    <3>1. ~IsTerminated(r, y) /\ items' = [items EXCEPT ![r][y] = now]
      BY <2>5 DEF Upsert, UpsertLimited, StoreItem
    <3>2. r = s /\ y = x
      BY <3>1, UpdateElsewhere
    <3>3. QED
      BY <3>1, <3>2
  <2>6. QED
    BY <2>1, <2>2, <2>3, <2>4, <2>5 DEF RegistryNext
<1>2. QED
  BY <1>1, RegistryInvariant, PTL DEF RegistrySpec, TerminatedStaysOut

-----------------------------------------------------------------------------
(* The endpoints and the process *)

\* Which registry action, if any, each step of the endpoints is.
LEMMA HandlerStep ==
  ASSUME [Next]_handlerVars
  PROVE  \/ UNCHANGED registryVars
         \/ Tick
         \/ \E now \in Stamps : Cleanup(now)
         \/ \E now \in Stamps, s \in Subject : TerminateAll(s, now)
         \/ \E now \in Stamps, s \in Subject, x \in Session :
               \/ UpsertLimited(s, x, now)
               \/ Touch(s, x, now)
         \/ \E h \in Handler :
               /\ connect[h] # Idle
               /\ Remove(connect[h].subject, connect[h].session)
         \/ \E s \in Subject, x \in Session : Remove(s, x)
  BY DEF Next, TimePasses, ConnectClaim, ConnectSucceed, ConnectFail, HandleRegister,
         HandleHeartbeat, HandleUnregister, HandleTerminateAll, CleanupLoop,
         handlerVars, registryVars

\* The session a /connect handler works for is one of the account's.
LEMMA ClaimedKey ==
  ASSUME connect \in [Handler -> ConnectRequest], NEW h \in Handler, connect[h] # Idle
  PROVE  /\ connect[h].subject \in Subject
         /\ connect[h].session \in Session
         /\ connect[h].created \in BOOLEAN
         /\ connect[h] = Issuing(connect[h].subject, connect[h].session, connect[h].created)
  BY DEF ConnectRequest, Issuing

\* The server starts with no request in flight.
LEMMA TypeInit == Init => TypeOK
  BY InitRegistryInv DEF Init, TypeOK, RegistryInv, ConnectRequest

\* A handler step, as far as the registry is concerned.
LEMMA RegistryStep ==
  ASSUME TypeOK, [Next]_handlerVars
  PROVE  [RegistryNext]_registryVars
<1>1. clock \in Stamps
  BY ConstantsAssumption DEF Stamps, Time, TypeOK, RegistryTypeOK
<1>2. ASSUME NEW s \in Subject, NEW x \in Session, Remove(s, x)
      PROVE  RegistryNext
  BY <1>1, <1>2 DEF RegistryNext
<1>3. ASSUME NEW h \in Handler, connect[h] # Idle,
             Remove(connect[h].subject, connect[h].session)
      PROVE  RegistryNext
  BY <1>2, <1>3, ClaimedKey DEF TypeOK
<1>4. QED
  BY <1>2, <1>3, HandlerStep DEF RegistryNext

\* Every endpoint keeps the shape of the registry and of its own request state.
LEMMA TypeStep ==
  ASSUME TypeOK, RegistryInv, [Next]_handlerVars
  PROVE  TypeOK'
<1>1. RegistryTypeOK'
  BY RegistryStep, NextRegistryInv DEF RegistryInv
<1>2. connect' \in [Handler -> ConnectRequest]
  <2>1. ASSUME NEW h \in Handler, NEW s \in Subject, NEW x \in Session, NEW now \in Stamps,
               ConnectClaim(h, s, x, now)
        PROVE  connect' \in [Handler -> ConnectRequest]
    <3>1. \A c \in BOOLEAN : Issuing(s, x, c) \in ConnectRequest
      BY DEF ConnectRequest
    <3>2. QED
      BY <2>1, <3>1, (items[s][x] = Absent) \in BOOLEAN DEF ConnectClaim, TypeOK
  <2>2. Idle \in ConnectRequest
    BY DEF ConnectRequest
  <2>3. QED
    BY <2>1, <2>2
    DEF Next, TimePasses, ConnectSucceed, ConnectFail, HandleRegister, HandleHeartbeat,
        HandleUnregister, HandleTerminateAll, CleanupLoop, handlerVars, TypeOK
<1>3. confirmed' \subseteq Subject \X Session
  <2>1. ASSUME NEW h \in Handler, ConnectSucceed(h)
        PROVE  confirmed' \subseteq Subject \X Session
    BY <2>1, ClaimedKey DEF ConnectSucceed, StillListed, TypeOK
  <2>2. ASSUME NEW h \in Handler, ConnectFail(h)
        PROVE  confirmed' \subseteq Subject \X Session
    BY <2>2 DEF ConnectFail, StillListed, TypeOK
  <2>3. QED
    BY <2>1, <2>2
    DEF Next, TimePasses, ConnectClaim, HandleRegister, HandleHeartbeat, HandleUnregister,
        HandleTerminateAll, CleanupLoop, handlerVars, StillListed, TypeOK
<1>4. QED
  BY <1>1, <1>2, <1>3 DEF TypeOK

\* Every endpoint keeps the registry's invariant, since it makes registry steps.
LEMMA InvariantStep ==
  TypeOK /\ RegistryInv /\ [Next]_handlerVars => (TypeOK /\ RegistryInv)'
  BY TypeStep, RegistryStep, NextRegistryInv

\* The handlers' and the registry's state keep their shape, and the stamps and
\* tombstones of the registry what is proved above of them.
THEOREM HandlersInvariant == Spec => [](TypeOK /\ RegistryInv)
<1>1. Init => TypeOK /\ RegistryInv
  BY TypeInit, InitRegistryInv DEF Init
<1>2. QED
  BY <1>1, InvariantStep, PTL DEF Spec

\* The endpoints use the registry only through its methods, one critical section
\* at a time: every behaviour of the server is a behaviour of the registry.
LEMMA HandlersImplementRegistry == Spec => RegistrySpec
<1>1. Init => RegistryInit
  BY DEF Init
<1>2. TypeOK /\ [Next]_handlerVars => [RegistryNext]_registryVars
  BY RegistryStep
<1>3. QED
  BY <1>1, <1>2, HandlersInvariant, PTL DEF Spec, RegistrySpec

-----------------------------------------------------------------------------
\* The sets SubjectItems are finite although Session need not be, and within
\* the limit: Cardinality means nothing without the first.
LimitInv ==
    \A s \in Subject :
        /\ IsFiniteSet(SubjectItems(s))
        /\ Cardinality(SubjectItems(s)) <= MaxSessions[s]

\* An empty registry is within every limit.
LEMMA LimitInit == Init => LimitInv
<1> SUFFICES ASSUME Init, NEW s \in Subject
             PROVE  IsFiniteSet(SubjectItems(s)) /\ Cardinality(SubjectItems(s)) <= MaxSessions[s]
  BY DEF LimitInv
<1>1. SubjectItems(s) = {}
  BY DEF Init, RegistryInit, SubjectItems
<1>2. QED
  BY <1>1, FS_EmptySet, ConstantsAssumption

\* Remove, TerminateAll and Cleanup only take sessions off the list.
LEMMA ShrinkKeepsLimit ==
  ASSUME LimitInv, \A s \in Subject : SubjectItems(s)' \subseteq SubjectItems(s)
  PROVE  LimitInv'
<1> SUFFICES ASSUME NEW s \in Subject
             PROVE  /\ IsFiniteSet(SubjectItems(s)')
                    /\ Cardinality(SubjectItems(s)') <= MaxSessions[s]
  BY DEF LimitInv
<1>1. IsFiniteSet(SubjectItems(s)) /\ Cardinality(SubjectItems(s)) \in Nat
  BY FS_CardinalityType DEF LimitInv
<1>2. /\ IsFiniteSet(SubjectItems(s)')
      /\ Cardinality(SubjectItems(s)') <= Cardinality(SubjectItems(s))
  BY <1>1, FS_Subset
<1>3. Cardinality(SubjectItems(s)') \in Nat
  BY <1>2, FS_CardinalityType
<1>4. QED
  BY <1>1, <1>2, <1>3, ConstantsAssumption DEF LimitInv

\* UpsertLimited adds at most one session, and only below the limit.
LEMMA UpsertKeepsLimit ==
  ASSUME LimitInv, RegistryTypeOK,
         NEW r \in Subject, NEW y \in Session, NEW now \in Stamps,
         UpsertLimited(r, y, now)
  PROVE  LimitInv'
<1> SUFFICES ASSUME NEW s \in Subject
             PROVE  /\ IsFiniteSet(SubjectItems(s)')
                    /\ Cardinality(SubjectItems(s)') <= MaxSessions[s]
  BY DEF LimitInv
<1>1. /\ IsFiniteSet(SubjectItems(s))
      /\ Cardinality(SubjectItems(s)) \in Nat
      /\ Cardinality(SubjectItems(s)) <= MaxSessions[s]
      /\ MaxSessions[s] \in Nat
  BY FS_CardinalityType, ConstantsAssumption DEF LimitInv
<1>2. now # Absent /\ items' = [items EXCEPT ![r][y] = now]
  BY ConstantsAssumption DEF Stamps, UpsertLimited, StoreItem, RegistryTypeOK, Time
<1>3. CASE s # r
  <2>1. SubjectItems(s)' = SubjectItems(s)
    BY <1>2, <1>3 DEF SubjectItems, RegistryTypeOK
  <2>2. QED
    BY <1>1, <2>1
<1>4. CASE s = r
  <2>0. items'[s] = [items[s] EXCEPT ![y] = now] /\ items[s] \in [Session -> Time \cup {Absent}]
    BY <1>2, <1>4 DEF RegistryTypeOK
  <2>1. SubjectItems(s)' = SubjectItems(s) \cup {y}
    BY <1>2, <2>0 DEF SubjectItems
  <2>2. y \in SubjectItems(s) \/ Cardinality(SubjectItems(s)) < MaxSessions[s]
    BY <1>1, <1>4 DEF UpsertLimited, LimitReached, SubjectItems
  <2>3. /\ IsFiniteSet(SubjectItems(s) \cup {y})
        /\ Cardinality(SubjectItems(s) \cup {y}) =
              IF y \in SubjectItems(s) THEN Cardinality(SubjectItems(s))
              ELSE Cardinality(SubjectItems(s)) + 1
    BY <1>1, FS_AddElement
  <2>4. Cardinality(SubjectItems(s) \cup {y}) <= MaxSessions[s]
    BY <1>1, <2>2, <2>3
  <2>5. QED
    BY <2>1, <2>3, <2>4
<1>5. QED
  BY <1>3, <1>4

\* No endpoint exceeds the limit.
LEMMA LimitStep ==
  TypeOK /\ LimitInv /\ [Next]_handlerVars => LimitInv'
<1> SUFFICES ASSUME TypeOK, LimitInv, [Next]_handlerVars
             PROVE  LimitInv'
  OBVIOUS
<1> USE DEF TypeOK
<1>1. CASE UNCHANGED registryVars \/ Tick
  BY <1>1, ShrinkKeepsLimit DEF registryVars, Tick, SubjectItems
<1>2. ASSUME NEW now \in Stamps, Cleanup(now)
      PROVE  LimitInv'
  BY <1>2, ShrinkKeepsLimit DEF Cleanup, SubjectItems
<1>3. ASSUME NEW now \in Stamps, NEW r \in Subject, TerminateAll(r, now)
      PROVE  LimitInv'
  <2> DEFINE hit == {y \in SubjectItems(r) : ~IsStale(items[r][y], now)}
             left == [y \in Session |-> IF y \in hit THEN Absent ELSE items[r][y]]
  <2>1. items' = [items EXCEPT ![r] = left]
    BY <1>3 DEF TerminateAll
  <2>2. \A y \in Session : left[y] # Absent => items[r][y] # Absent
    BY DEF SubjectItems
  <2> HIDE DEF left
  <2>3. \A s \in Subject : SubjectItems(s)' \subseteq SubjectItems(s)
    BY <2>1, <2>2 DEF SubjectItems, RegistryTypeOK
  <2>4. QED
    BY <2>3, ShrinkKeepsLimit
<1>4. ASSUME NEW r \in Subject, NEW y \in Session, Remove(r, y)
      PROVE  LimitInv'
  BY <1>4, ShrinkKeepsLimit DEF Remove, DeleteItem, SubjectItems, RegistryTypeOK
<1>5. ASSUME NEW now \in Stamps, NEW r \in Subject, NEW y \in Session,
             Touch(r, y, now)
      PROVE  LimitInv'
  BY <1>5, ShrinkKeepsLimit DEF Touch, StoreItem, SubjectItems, RegistryTypeOK
<1>6. QED
  BY <1>1, <1>2, <1>3, <1>4, <1>5, HandlerStep, UpsertKeepsLimit, ClaimedKey

\* However connects, registrations and roll-backs interleave, a subject never
\* has more listed sessions than its entitlement allows.
THEOREM SessionLimitHolds == Spec => []SessionLimit
<1>1. LimitInv => SessionLimit
  BY DEF LimitInv, SessionLimit
<1>2. QED
  BY <1>1, LimitInit, LimitStep, HandlersInvariant, PTL DEF Spec

-----------------------------------------------------------------------------
\* Nothing is listed at the start.
LEMMA LeakInit == Init => NoLeakedSlot
  BY DEF Init, RegistryInit, NoLeakedSlot

\* A step that adds no session, ends no connect and only forgets confirmations
\* of sessions it removes.
LEMMA QuietStep ==
  ASSUME NoLeakedSlot, UNCHANGED connect, confirmed' = StillListed(confirmed),
         \A s \in Subject, x \in Session :
            items'[s][x] # Absent => items[s][x] # Absent
  PROVE  NoLeakedSlot'
  BY DEF NoLeakedSlot, StillListed, HoldsClaim

\* No endpoint leaves a listed session that nobody answers for: /connect keeps its
\* claim until it answers or rolls back.
LEMMA LeakStep ==
  TypeOK /\ NoLeakedSlot /\ [Next]_handlerVars => NoLeakedSlot'
<1> SUFFICES ASSUME TypeOK, NoLeakedSlot, [Next]_handlerVars
             PROVE  NoLeakedSlot'
  OBVIOUS
<1> USE DEF TypeOK
<1>1. CASE TimePasses \/ UNCHANGED handlerVars
  BY <1>1 DEF TimePasses, Tick, handlerVars, NoLeakedSlot, HoldsClaim
<1>2. ASSUME NEW h \in Handler, ConnectSucceed(h)
      PROVE  NoLeakedSlot'
  <2> SUFFICES ASSUME NEW s \in Subject, NEW x \in Session,
                      items'[s][x] # Absent, <<s, x>> \notin confirmed'
               PROVE  \E g \in Handler : HoldsClaim(g, s, x)'
    BY DEF NoLeakedSlot
  <2>1. items' = items /\ <<s, x>> \notin confirmed
    BY <1>2 DEF ConnectSucceed, StillListed, registryVars
  <2>2. PICK g \in Handler : connect[g] = Issuing(s, x, TRUE)
    BY <2>1 DEF NoLeakedSlot, HoldsClaim
  <2>3. g # h
    BY <1>2, <2>2 DEF ConnectSucceed, StillListed, Issuing
  <2>4. QED
    BY <1>2, <2>2, <2>3 DEF ConnectSucceed, HoldsClaim
<1>3. ASSUME NEW h \in Handler, ConnectFail(h)
      PROVE  NoLeakedSlot'
  <2> SUFFICES ASSUME NEW s \in Subject, NEW x \in Session,
                      items'[s][x] # Absent, <<s, x>> \notin confirmed'
               PROVE  \E g \in Handler : HoldsClaim(g, s, x)'
    BY DEF NoLeakedSlot
  <2>0. /\ connect[h].subject \in Subject /\ connect[h].session \in Session
        /\ connect[h] # Idle
    BY <1>3, ClaimedKey DEF ConnectFail
  <2>1. items[s][x] # Absent
    <3> DEFINE r == connect[h].subject
               y == connect[h].session
    <3>1. items' = items \/ items' = [items EXCEPT ![r][y] = Absent]
      BY <1>3 DEF ConnectFail, Remove, DeleteItem, registryVars
    <3> HIDE DEF r, y
    <3>2. r \in Subject /\ y \in Session
      BY <2>0 DEF r, y
    <3>3. CASE items' = items
      BY <3>3
    <3>4. CASE items' = [items EXCEPT ![r][y] = Absent]
      <4>1. ~(r = s /\ y = x)
        BY <3>2, <3>4 DEF RegistryTypeOK
      <4>2. items'[s][x] = items[s][x]
        BY <3>2, <3>4, <4>1, UpdateElsewhere DEF RegistryTypeOK
      <4>3. QED
        BY <4>2
    <3>5. QED
      BY <3>1, <3>3, <3>4
  <2>2. <<s, x>> \notin confirmed
    BY <1>3 DEF ConnectFail, StillListed
  <2>3. PICK g \in Handler : connect[g] = Issuing(s, x, TRUE)
    BY <2>1, <2>2 DEF NoLeakedSlot, HoldsClaim
  <2>4. g # h
    <3> SUFFICES ASSUME g = h PROVE FALSE
      OBVIOUS
    <3>1. connect[h].subject = s /\ connect[h].session = x /\ connect[h].created
      BY <2>3 DEF Issuing
    <3>2. items' = [items EXCEPT ![s][x] = Absent]
      BY <1>3, <2>1, <3>1 DEF ConnectFail, Remove, DeleteItem
    <3>3. QED
      BY <3>2 DEF RegistryTypeOK
  <2>5. QED
    BY <1>3, <2>3, <2>4 DEF ConnectFail, HoldsClaim
<1>4. ASSUME NEW now \in Stamps, CleanupLoop(now)
      PROVE  NoLeakedSlot'
  BY <1>4, QuietStep DEF CleanupLoop, Cleanup
<1>5. ASSUME NEW now \in Stamps, NEW r \in Subject, HandleTerminateAll(r, now)
      PROVE  NoLeakedSlot'
  <2> DEFINE hit == {y \in SubjectItems(r) : ~IsStale(items[r][y], now)}
             left == [y \in Session |-> IF y \in hit THEN Absent ELSE items[r][y]]
  <2>1. items' = [items EXCEPT ![r] = left]
    BY <1>5 DEF HandleTerminateAll, TerminateAll
  <2>2. \A y \in Session : left[y] # Absent => items[r][y] # Absent
    BY DEF SubjectItems
  <2> HIDE DEF left
  <2>3. \A s \in Subject, x \in Session : items'[s][x] # Absent => items[s][x] # Absent
    BY <2>1, <2>2 DEF RegistryTypeOK
  <2>4. QED
    BY <1>5, <2>3, QuietStep DEF HandleTerminateAll
<1>6. ASSUME NEW r \in Subject, NEW y \in Session, HandleUnregister(r, y)
      PROVE  NoLeakedSlot'
  <2>1. \A s \in Subject, x \in Session : items'[s][x] # Absent => items[s][x] # Absent
    BY <1>6 DEF HandleUnregister, Remove, DeleteItem, RegistryTypeOK
  <2>2. QED
    BY <1>6, <2>1, QuietStep DEF HandleUnregister
<1>7. ASSUME NEW now \in Stamps, NEW r \in Subject, NEW y \in Session,
             HandleHeartbeat(r, y, now)
      PROVE  NoLeakedSlot'
  <2>1. \A s \in Subject, x \in Session : items'[s][x] # Absent => items[s][x] # Absent
    BY <1>7 DEF HandleHeartbeat, Touch, StoreItem, RegistryTypeOK
  <2>2. QED
    BY <1>7, <2>1 DEF HandleHeartbeat, NoLeakedSlot, HoldsClaim
<1>8. ASSUME NEW now \in Stamps, NEW r \in Subject, NEW y \in Session,
             HandleRegister(r, y, now)
      PROVE  NoLeakedSlot'
  <2> SUFFICES ASSUME NEW s \in Subject, NEW x \in Session,
                      items'[s][x] # Absent, <<s, x>> \notin confirmed'
               PROVE  \E g \in Handler : HoldsClaim(g, s, x)'
    BY DEF NoLeakedSlot
  <2>1. ~(r = s /\ y = x) /\ <<s, x>> \notin confirmed
    BY <1>8 DEF HandleRegister, StillListed
  <2>2. items'[s][x] = items[s][x]
    BY <1>8, <2>1 DEF HandleRegister, UpsertLimited, StoreItem, RegistryTypeOK
  <2>3. QED
    BY <1>8, <2>1, <2>2 DEF HandleRegister, NoLeakedSlot, HoldsClaim
<1>9. ASSUME NEW now \in Stamps, NEW r \in Subject, NEW y \in Session, NEW h \in Handler,
             ConnectClaim(h, r, y, now)
      PROVE  NoLeakedSlot'
  <2> SUFFICES ASSUME NEW s \in Subject, NEW x \in Session,
                      items'[s][x] # Absent, <<s, x>> \notin confirmed'
               PROVE  \E g \in Handler : HoldsClaim(g, s, x)'
    BY DEF NoLeakedSlot
  <2>1. CASE items[s][x] # Absent
    <3>1. PICK g \in Handler : connect[g] = Issuing(s, x, TRUE)
      BY <1>9, <2>1 DEF ConnectClaim, NoLeakedSlot, HoldsClaim
    <3>2. g # h
      BY <1>9, <3>1 DEF ConnectClaim, Idle, Issuing
    <3>3. QED
      BY <1>9, <3>1, <3>2 DEF ConnectClaim, HoldsClaim
  <2>2. CASE items[s][x] = Absent
    <3>1. r = s /\ y = x
      BY <1>9, <2>2 DEF ConnectClaim, UpsertLimited, StoreItem, RegistryTypeOK
    <3>2. connect'[h] = Issuing(s, x, TRUE)
      BY <1>9, <2>2, <3>1 DEF ConnectClaim
    <3>3. QED
      BY <3>2 DEF HoldsClaim
  <2>3. QED
    BY <2>1, <2>2
<1>10. QED
  BY <1>1, <1>2, <1>3, <1>4, <1>5, <1>6, <1>7, <1>8, <1>9 DEF Next

\* Whatever interleaving of connects and roll-backs: a listed session was answered
\* for, or a connect in flight will give its slot back.
THEOREM NoSlotLeaks == Spec => []NoLeakedSlot
  BY LeakInit, LeakStep, HandlersInvariant, PTL DEF Spec

-----------------------------------------------------------------------------
\* What the steps of the process, of the other sessions and of the network do to the
\* server: a step of its endpoints or nothing.
LEMMA LifecycleStep ==
  ASSUME TypeOK, [LifecycleNext]_lifecycleVars
  PROVE  [Next]_handlerVars
<1> USE ProcessAssumption
<1>0. clock \in Stamps
  BY ConstantsAssumption DEF Stamps, Time, TypeOK, RegistryTypeOK
<1>1. CASE ServerNext
  BY <1>1 DEF ServerNext, TimeGoesOn, Sweep, ConnectAnswered, CleanupCommand,
              OtherSession, Next
<1>2. CASE MainNext
  <2>1. CASE Unregister
    BY <1>0, <2>1 DEF Unregister, UnregisterListing, Next
  <2>2. CASE \E now \in Stamps : RegisterListing(now)
    BY <2>2 DEF RegisterListing, Next
  <2>3. QED
    BY <1>2, <2>1, <2>2
    DEF MainNext, Preflight, GiveUp, BridgeConnected, RegisterFails, ShellEnds,
        UnregisterFails, Crash
<1>3. CASE HeartbeatNext
  <2>1. ASSUME NEW now \in Stamps, Heartbeat(now) \/ Reregister(now)
        PROVE  Next
    BY <2>1 DEF Heartbeat, Reregister, Next
  <2>2. QED
    BY <1>3, <2>1
    DEF HeartbeatNext, HeartbeatMissing, ReregisterGone, ReregisterFails,
        HeartbeatUnauthorized, HeartbeatStops
<1>4. CASE BridgeNext
  <2>1. ASSUME NEW h \in Handler, NEW now \in Stamps, BridgeConnects(h, now)
        PROVE  Next
    BY <2>1 DEF BridgeConnects, Next
  <2>2. QED
    BY <1>4, <2>1 DEF BridgeNext, BridgeRequests, BridgeTimesOut, BridgeReconnects,
                     BridgeCloses
<1>5. CASE UNCHANGED lifecycleVars
  BY <1>5 DEF lifecycleVars
<1>6. QED
  BY <1>1, <1>2, <1>3, <1>4, <1>5 DEF LifecycleNext

\* A shellin process and its rivals, however they crash and retry, use the control
\* plane only through its endpoints: what is proved of the endpoints holds with them.
THEOREM LifecycleImplementsHandlers == LifecycleSpec => Spec
<1>1. LifecycleInit => Init /\ TypeOK /\ RegistryInv
  BY TypeInit, InitRegistryInv DEF LifecycleInit, Init
<1>2. TypeOK /\ [LifecycleNext]_lifecycleVars => [Next]_handlerVars
  BY LifecycleStep
<1>3. TypeOK /\ RegistryInv /\ [LifecycleNext]_lifecycleVars => (TypeOK /\ RegistryInv)'
  BY <1>2, InvariantStep
<1>4. QED
  BY <1>1, <1>2, <1>3, PTL DEF LifecycleSpec, Spec

\* Hence, with the process and its rivals as clients: no session too many is listed and
\* no slot leaks, and whatever the registry guarantees for its methods, the server does
\* for its endpoints.  A cleanup hits every live session, and what it hit stays out
\* through heartbeats, reconnects and late roll-backs; the sweep drops no live one.
THEOREM LifecycleSafety ==
    LifecycleSpec => /\ []SessionLimit
                     /\ []NoLeakedSlot
                     /\ []TombstoneExcludesSession
                     /\ TerminateAllHitsLiveSessions
                     /\ TerminatedStaysOut
                     /\ SweepKeepsLiveSessions
  BY LifecycleImplementsHandlers, HandlersImplementRegistry, SessionLimitHolds, NoSlotLeaks,
     RegistryExclusion, TerminateAllIsComplete, TerminationHolds, SweepIsSafe, PTL

-----------------------------------------------------------------------------
\* After Stop has unregistered the session nobody is left to list it: the process is
\* past its read of the shell's end and the heartbeat goroutine is gone.
UnregisteredInv ==
    unregistered =>
        /\ items[Owner][Me] = Absent
        /\ shell \in {"closing", "exited"}
        /\ heartbeat \notin {"idle", "register"}

\* What other sessions write, they write elsewhere.
LEMMA OthersWriteElsewhere ==
  ASSUME RegistryTypeOK, NEW x \in Session \ {Me}, NEW v,
         items' = [items EXCEPT ![Owner][x] = v]
  PROVE  items'[Owner][Me] = items[Owner][Me]
  BY ProcessAssumption, UpdateElsewhere DEF RegistryTypeOK

\* The server's own steps list nothing.
LEMMA ServerListsNothing ==
  ASSUME TypeOK, ServerNext, items[Owner][Me] = Absent
  PROVE  items'[Owner][Me] = Absent
<1> USE ProcessAssumption DEF TypeOK, RegistryTypeOK
<1>1. CASE TimeGoesOn
  BY <1>1 DEF TimeGoesOn, TimePasses, Tick
<1>2. CASE Sweep
  BY <1>2 DEF Sweep, CleanupLoop, Cleanup
<1>3. ASSUME NEW h \in Handler, ConnectAnswered(h)
      PROVE  items'[Owner][Me] = Absent
  <2>1. CASE items' = items
    BY <2>1
  <2>2. CASE ~ items' = items
    <3> DEFINE s == connect[h].subject
               x == connect[h].session
    <3>1. connect[h] # Idle /\ Remove(s, x)
      BY <1>3, <2>2 DEF ConnectAnswered, ConnectSucceed, ConnectFail, registryVars
    <3>2. s \in Subject /\ x \in Session
      BY <3>1, ClaimedKey
    <3>3. items' = [items EXCEPT ![s][x] = Absent]
      BY <3>1 DEF Remove, DeleteItem
    <3> HIDE DEF s, x
    <3>4. QED
      BY <3>2, <3>3
  <2>3. QED
    BY <2>1, <2>2
<1>4. ASSUME NEW now \in Stamps, CleanupCommand(now)
      PROVE  items'[Owner][Me] = Absent
  BY <1>4 DEF CleanupCommand, HandleTerminateAll, TerminateAll, SubjectItems
<1>5. ASSUME NEW now \in Stamps, NEW x \in Session \ {Me}, OtherSession(x, now)
      PROVE  items'[Owner][Me] = Absent
  <2>1. \E v : items' = [items EXCEPT ![Owner][x] = v]
    BY <1>5 DEF OtherSession, ConnectClaim, HandleRegister, HandleHeartbeat, HandleUnregister,
                UpsertLimited, Touch, Remove, StoreItem, DeleteItem
  <2>2. QED
    BY <2>1, OthersWriteElsewhere
<1>6. QED
  BY <1>1, <1>2, <1>3, <1>4, <1>5 DEF ServerNext

\* Every step keeps it: the one that could list the session again, a reconnecting
\* bridge, is what `unregistered` excludes.
LEMMA UnregisteredStep ==
  TypeOK /\ UnregisteredInv /\ [LifecycleNext]_lifecycleVars => UnregisteredInv'
<1> SUFFICES ASSUME TypeOK, UnregisteredInv, [LifecycleNext]_lifecycleVars
             PROVE  UnregisteredInv'
  OBVIOUS
<1> USE ProcessAssumption DEF UnregisteredInv
<1>1. CASE ServerNext
  <2>1. UNCHANGED <<shell, heartbeat, unregistered>>
    BY <1>1 DEF ServerNext, TimeGoesOn, Sweep, ConnectAnswered, CleanupCommand, OtherSession,
                processVars
  <2>2. QED
    BY <1>1, <2>1, ServerListsNothing
<1>2. CASE MainNext
  <2>1. CASE Unregister
    <3>1. items'[Owner][Me] = Absent
      BY <2>1 DEF Unregister, UnregisterListing, HandleUnregister, Remove, DeleteItem,
                  handlerVars, TypeOK, RegistryTypeOK
    <3>2. QED
      BY <2>1, <3>1 DEF Unregister
  <2>2. CASE \E now \in Stamps : RegisterListing(now)
    BY <2>2 DEF RegisterListing
  <2>3. QED
    BY <1>2, <2>1, <2>2
    DEF MainNext, Preflight, GiveUp, BridgeConnected, RegisterFails, ShellEnds,
        UnregisterFails, Crash, Exit, handlerVars
<1>3. CASE HeartbeatNext
  BY <1>3 DEF HeartbeatNext, Heartbeat, Reregister, HeartbeatMissing, ReregisterGone,
              ReregisterFails, HeartbeatUnauthorized, HeartbeatStops, handlerVars,
              processVars
<1>4. CASE BridgeNext
  BY <1>4 DEF BridgeNext, BridgeRequests, BridgeConnects, BridgeTimesOut, BridgeReconnects,
              BridgeCloses, Exit, handlerVars
<1>5. CASE UNCHANGED lifecycleVars
  BY <1>5 DEF lifecycleVars, handlerVars, processVars
<1>6. QED
  BY <1>1, <1>2, <1>3, <1>4, <1>5 DEF LifecycleNext

\* What Stop promises, for any number of rivals and connects in flight and any delay
\* of their stamps: after /unregister no heartbeat, late answer or roll-back lists the
\* session again.
THEOREM UnregisteringIsFinal == LifecycleSpec => []UnregisterIsFinal
<1>1. LifecycleInit => UnregisteredInv
  BY DEF LifecycleInit, UnregisteredInv
<1>2. UnregisteredInv => UnregisterIsFinal
  BY DEF UnregisteredInv, UnregisterIsFinal
<1>3. LifecycleSpec => []TypeOK
  BY LifecycleImplementsHandlers, HandlersInvariant, PTL
<1>4. QED
  BY <1>1, <1>2, <1>3, UnregisteredStep, PTL DEF LifecycleSpec
=============================================================================
