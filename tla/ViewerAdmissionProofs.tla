------------------------ MODULE ViewerAdmissionProofs ------------------------
(***************************************************************************)
(* Proofs about ViewerAdmission and the GrantReplay it extends: one-time use *)
(* of signaling tokens, and what a viewer finds at the door, for any tokens, *)
(* lifetimes, clock skew, sessions, retention and number of requests.        *)
(*                                                                          *)
(* The registry is an instance here, so RegistryInv is shown again for the   *)
(* methods RegistryChanges calls; DoorOK adds what a request that has passed *)
(* the lookup may still rely on.                                             *)
(***************************************************************************)
EXTENDS ViewerAdmission, TLAPS

(* The replay guard *)

\* A store that has recorded nothing satisfies the invariant.
LEMMA InitReplayInv == Init => ReplayInv
  BY TokensAssumption DEF Init, ReplayInv, TypeOK, RecordsMatchUses, OneUseBeforeExpiry

\* The sweep of MemoryReplayStore.Consume keeps exactly the records that are
\* still in force.
LEMMA PrunedKeepsLive ==
  ASSUME TypeOK, NEW t \in Token
  PROVE  /\ Pruned \in [Token -> Nat \cup {Absent}]
         /\ Pruned[t] # Absent => Pruned[t] = seen[t] /\ seen[t] > clock
         /\ seen[t] # Absent /\ seen[t] > clock => Pruned[t] = seen[t]
  BY TokensAssumption DEF TypeOK, Pruned

\* Whatever MemoryReplayStore.Consume decides, the sweep it begins with forgets
\* no used token that has not expired, and records nothing new.
LEMMA SweepForgetsNoLiveUse ==
  ASSUME ReplayInv, NEW t \in Token
  PROVE  /\ uses[t] > 0 /\ clock < ExpiresAt[t] => Pruned[t] = ExpiresAt[t]
         /\ Pruned[t] # Absent => uses[t] > 0
<1>1. TypeOK /\ RecordsMatchUses
  BY DEF ReplayInv
<1>2. /\ Pruned[t] # Absent => Pruned[t] = seen[t] /\ seen[t] > clock
      /\ seen[t] # Absent /\ seen[t] > clock => Pruned[t] = seen[t]
  BY <1>1, PrunedKeepsLive
<1>3. ExpiresAt[t] \in Nat /\ Absent \notin Nat /\ clock \in Nat
  BY <1>1, TokensAssumption DEF TypeOK
<1> QED
  BY <1>1, <1>2, <1>3 DEF RecordsMatchUses

\* An accepted token becomes the only one whose history changed, and it was
\* either never used or has expired: the store had no record in force.
LEMMA AcceptInv ==
  ASSUME ReplayInv, NEW r \in Request, NEW t \in Token, Accept(r, t)
  PROVE  ReplayInv'
<1>1. TypeOK /\ RecordsMatchUses /\ OneUseBeforeExpiry
  BY DEF ReplayInv
<1>2. RecordUntil(t) \in Nat /\ (clock < ExpiresAt[t] => RecordUntil(t) = ExpiresAt[t])
  BY <1>1, TokensAssumption DEF TypeOK, RecordUntil
<1>3. Pruned \in [Token -> Nat \cup {Absent}]
  BY <1>1, PrunedKeepsLive
<1>4. TypeOK'
  BY <1>1, <1>2, <1>3 DEF TypeOK, Accept
<1>5. uses[t] = 0 \/ clock >= ExpiresAt[t]
  <2>1. clock < ExpiresAt[t] => uses[t] = 0
    BY <1>1, SweepForgetsNoLiveUse, TokensAssumption DEF Accept, TypeOK
  <2> QED
    BY <1>1, <2>1, TokensAssumption DEF TypeOK
<1>6. ASSUME NEW u \in Token
      PROVE  /\ uses'[u] > 0 /\ clock' < ExpiresAt[u] => seen'[u] = ExpiresAt[u]
             /\ seen'[u] # Absent => uses'[u] > 0
             /\ early'[u] <= uses'[u]
             /\ early'[u] <= 1
  <2>1. CASE u = t
    <3>1. /\ uses'[u] = uses[u] + 1
          /\ early'[u] = IF clock < ExpiresAt[u] THEN early[u] + 1 ELSE early[u]
          /\ seen'[u] = RecordUntil(u)
          /\ clock' = clock
      BY <1>1, <1>3, <2>1 DEF Accept, TypeOK
    <3> QED
      BY <1>1, <1>2, <1>5, <2>1, <3>1, TokensAssumption
         DEF TypeOK, RecordsMatchUses, OneUseBeforeExpiry
  <2>2. CASE u # t
    <3>1. uses'[u] = uses[u] /\ early'[u] = early[u] /\ seen'[u] = Pruned[u] /\ clock' = clock
      BY <1>1, <1>3, <2>2 DEF Accept, TypeOK
    <3>2. /\ uses[u] > 0 /\ clock < ExpiresAt[u] => Pruned[u] = ExpiresAt[u]
          /\ Pruned[u] # Absent => uses[u] > 0
      BY SweepForgetsNoLiveUse
    <3> QED
      BY <1>1, <3>1, <3>2 DEF RecordsMatchUses, OneUseBeforeExpiry
  <2> QED
    BY <2>1, <2>2
<1> QED
  BY <1>4, <1>6 DEF ReplayInv, RecordsMatchUses, OneUseBeforeExpiry

\* Every step of the requests and of time keeps the invariant.
LEMMA NextReplayInv == ReplayInv /\ [Next]_replayVars => ReplayInv'
<1> SUFFICES ASSUME ReplayInv, [Next]_replayVars PROVE ReplayInv'
  OBVIOUS
<1>1. TypeOK /\ RecordsMatchUses /\ OneUseBeforeExpiry
  BY DEF ReplayInv
<1>2. CASE Tick
  BY <1>1, <1>2, TokensAssumption
     DEF Tick, ReplayInv, TypeOK, RecordsMatchUses, OneUseBeforeExpiry
<1>3. ASSUME NEW r \in Request, NEW t \in Token, Validate(r, t) PROVE ReplayInv'
  BY <1>1, <1>3 DEF Validate, ReplayInv, TypeOK, RecordsMatchUses, OneUseBeforeExpiry
<1>4. ASSUME NEW r \in Request, NEW t \in Token, Refuse(r, t) PROVE ReplayInv'
  <2>1. Pruned \in [Token -> Nat \cup {Absent}]
    BY <1>1, PrunedKeepsLive, <1>4
  <2>2. TypeOK'
    BY <1>1, <1>4, <2>1 DEF TypeOK, Refuse
  <2>3. ASSUME NEW u \in Token
        PROVE  /\ uses'[u] > 0 /\ clock' < ExpiresAt[u] => seen'[u] = ExpiresAt[u]
               /\ seen'[u] # Absent => uses'[u] > 0
    BY <1>4, SweepForgetsNoLiveUse DEF Refuse
  <2> QED
    BY <1>1, <1>4, <2>2, <2>3 DEF Refuse, ReplayInv, RecordsMatchUses, OneUseBeforeExpiry
<1>5. CASE UNCHANGED replayVars
  BY <1>1, <1>5 DEF replayVars, ReplayInv, TypeOK, RecordsMatchUses, OneUseBeforeExpiry
<1> QED
  BY <1>2, <1>3, <1>4, <1>5, AcceptInv DEF Next

\* The store's records and the history of uses agree at all times.
THEOREM ReplayInvariant == Spec => []ReplayInv
  BY InitReplayInv, NextReplayInv, PTL DEF Spec

\* The sweep never forgets a used token before its expiry, and nothing but used
\* tokens is recorded.
THEOREM RecordsAreKept == Spec => []RecordsMatchUses
<1>1. ReplayInv => RecordsMatchUses
  BY DEF ReplayInv
<1> QED
  BY <1>1, ReplayInvariant, PTL

\* However many requests carry a token at the same time, one of them at most gets
\* through before the token expires.
THEOREM OneUse == Spec => []OneUseBeforeExpiry
<1>1. ReplayInv => OneUseBeforeExpiry
  BY DEF ReplayInv
<1> QED
  BY <1>1, ReplayInvariant, PTL

\* A used token is not accepted again while it has not expired.
THEOREM SecondUseComesLate == Spec => SecondUseIsLate
<1>1. ReplayInv /\ [Next]_replayVars => SecondUseStep
  <2> SUFFICES ASSUME ReplayInv, [Next]_replayVars, NEW t \in Token,
                      uses[t] > 0, uses'[t] # uses[t]
               PROVE  clock >= ExpiresAt[t]
    BY DEF SecondUseStep
  <2>1. TypeOK
    BY DEF ReplayInv
  <2>2. PICK r \in Request, u \in Token : Accept(r, u)
    BY DEF Next, Tick, Validate, Refuse, replayVars
  <2>3. u = t
    BY <2>1, <2>2 DEF Accept, TypeOK
  <2>4. Pruned[t] = Absent
    BY <2>2, <2>3 DEF Accept
  <2>5. ~(clock < ExpiresAt[t])
    BY <2>4, SweepForgetsNoLiveUse, TokensAssumption
  <2> QED
    BY <2>1, <2>5, TokensAssumption DEF TypeOK
<1> QED
  BY <1>1, ReplayInvariant, PTL DEF Spec, SecondUseIsLate

-----------------------------------------------------------------------------
(* The registry, whose other callers run between the steps of a request *)

\* The steps of an admission that belong to the replay guard; the rest leave it alone.
LEMMA GuardSteps == [AdmissionNext]_admissionVars => [Next]_replayVars
<1> SUFFICES ASSUME [AdmissionNext]_admissionVars
             PROVE  [Next]_replayVars
  OBVIOUS
<1>1. CASE TimePasses
  BY <1>1 DEF TimePasses, Next
<1>2. CASE RegistryChanges
  BY <1>2 DEF RegistryChanges
<1>3. CASE (\E t \in Token, now \in Registry!Stamps : AttachLookup(t, now))
             \/ \E t \in Token : AttachIssue(t)
  BY <1>3 DEF AttachLookup, AttachIssue
<1>4. CASE \E r \in Request : Step(r)
  BY <1>4 DEF Step, ValidateToken, ConsumeToken, RefuseReplay, FindAgent, NoAgent, Upgrade, Next
<1>5. CASE UNCHANGED admissionVars
  BY <1>5 DEF admissionVars
<1>6. QED
  BY <1>1, <1>2, <1>3, <1>4, <1>5 DEF AdmissionNext

\* Whatever else happens at the door, the guard behaves as GrantReplay says.
THEOREM AdmissionImplementsReplay == AdmissionSpec => Spec
<1>1. AdmissionInit => Init
  BY DEF AdmissionInit
<1>2. QED
  BY <1>1, GuardSteps, PTL DEF AdmissionSpec, Spec

\* So of all the requests at the door one at most uses a token before its expiry.
THEOREM AdmissionIsOnce == AdmissionSpec => []OneUseBeforeExpiry
  BY AdmissionImplementsReplay, OneUse, PTL

LEMMA RegistryStarts == AdmissionInit => Registry!RegistryInv
  BY TokensAssumption, ClaimsAssumption
  DEF AdmissionInit, Registry!RegistryInit, Registry!RegistryInv, Registry!RegistryTypeOK,
      Registry!TombstoneExcludesSession, Registry!StampsBounded, Registry!TombstonesKept,
      Registry!IsTerminated, Registry!Time

\* The actions that only unlist keep the stamps of what they leave.
LEMMA WritesForgotten ==
  ASSUME Registry!RegistryInv, Registry!ForgetWrites, UNCHANGED clock,
         items' \in [Subject -> [Session -> Registry!Time \cup {Absent}]],
         \A s \in Subject, x \in Session :
             items'[s][x] # Absent => items'[s][x] = items[s][x]
  PROVE  wroteAt' \in [Subject -> [Session -> Registry!Time]] /\ Registry!StampsBounded'
<1>1. wroteAt' \in [Subject -> [Session -> Registry!Time]]
  BY DEF Registry!ForgetWrites, Registry!RegistryInv, Registry!RegistryTypeOK, Registry!Time
<1>2. \A s \in Subject, x \in Session : items'[s][x] # Absent => wroteAt'[s][x] = wroteAt[s][x]
  BY DEF Registry!ForgetWrites
<1>3. QED
  BY <1>1, <1>2 DEF Registry!StampsBounded, Registry!RegistryInv

\* Writing an item that has no tombstone.
LEMMA ItemStored ==
  ASSUME Registry!RegistryInv,
         NEW s \in Subject, NEW x \in Session, NEW now \in Registry!Stamps,
         ~Registry!IsTerminated(s, x), Registry!StoreItem(s, x, now),
         UNCHANGED <<terminated, clock, killedAt>>
  PROVE  Registry!RegistryInv'
<1> USE TokensAssumption, ClaimsAssumption
    DEF Registry!RegistryInv, Registry!StoreItem, Registry!IsTerminated, Registry!Time
<1>1. now \in Nat /\ now <= clock /\ clock <= now + LockDelay
  BY DEF Registry!Stamps, Registry!RegistryTypeOK
<1>2. Registry!RegistryTypeOK'
  BY <1>1 DEF Registry!RegistryTypeOK
<1>3. Registry!TombstoneExcludesSession'
  BY DEF Registry!RegistryTypeOK, Registry!TombstoneExcludesSession
<1>4. Registry!StampsBounded'
  BY <1>1 DEF Registry!RegistryTypeOK, Registry!StampsBounded
<1>5. Registry!TombstonesKept'
  BY DEF Registry!RegistryTypeOK, Registry!TombstonesKept
<1>6. QED
  BY <1>2, <1>3, <1>4, <1>5

\* A termination is remembered with its time, and nothing else is.
KillsNow ==
    /\ clock' = clock
    /\ \A s \in Subject, x \in Session : killedAt'[s][x] \in {killedAt[s][x], clock}

LEMMA RegistryKept ==
  ASSUME Registry!RegistryInv, RegistryChanges
  PROVE  Registry!RegistryInv' /\ KillsNow
<1> USE TokensAssumption, ClaimsAssumption DEF Registry!RegistryInv
<1>1. PICK now \in Registry!Stamps :
         \/ Registry!Cleanup(now)
         \/ \E s \in Subject :
             \/ Registry!TerminateAll(s, now)
             \/ \E x \in Session :
                 \/ Registry!UpsertLimited(s, x, now)
                 \/ Registry!Touch(s, x, now)
                 \/ Registry!Remove(s, x)
  BY DEF RegistryChanges
<1>2. now \in Nat /\ now <= clock /\ clock <= now + LockDelay
  BY DEF Registry!Stamps, Registry!RegistryTypeOK, Registry!Time
<1>3. CASE Registry!Cleanup(now)
  <2> USE <1>3 DEF Registry!Cleanup, Registry!IsTerminated, Registry!Time
  <2>10. /\ items' \in [Subject -> [Session -> Registry!Time \cup {Absent}]]
         /\ \A r \in Subject, y \in Session :
               items'[r][y] # Absent => items'[r][y] = items[r][y]
    BY DEF Registry!RegistryTypeOK
  <2>11. wroteAt' \in [Subject -> [Session -> Registry!Time]] /\ Registry!StampsBounded'
    BY <2>10, WritesForgotten
  <2>1. Registry!RegistryTypeOK'
    BY <2>10, <2>11 DEF Registry!RegistryTypeOK
  <2>2. Registry!TombstoneExcludesSession'
    BY DEF Registry!RegistryTypeOK, Registry!TombstoneExcludesSession
  <2>3. Registry!StampsBounded'
    BY <2>11
  <2>4. Registry!TombstonesKept'
    BY <1>2 DEF Registry!RegistryTypeOK, Registry!TombstonesKept, Registry!TombstoneExpired
  <2>5. QED
    BY <2>1, <2>2, <2>3, <2>4 DEF KillsNow
<1>4. ASSUME NEW s \in Subject, Registry!TerminateAll(s, now)
      PROVE  Registry!RegistryInv' /\ KillsNow
  <2> DEFINE hit == {x \in Registry!SubjectItems(s) : ~Registry!IsStale(items[s][x], now)}
  <2>1. /\ items' = [items EXCEPT ![s] =
                        [x \in Session |-> IF x \in hit THEN Absent ELSE items[s][x]]]
        /\ terminated' = [terminated EXCEPT ![s] =
                        [x \in Session |-> IF x \in hit THEN now ELSE terminated[s][x]]]
        /\ killedAt' = [killedAt EXCEPT ![s] =
                        [x \in Session |-> IF x \in hit THEN clock ELSE killedAt[s][x]]]
        /\ Registry!ForgetWrites
        /\ UNCHANGED clock
    BY <1>4 DEF Registry!TerminateAll
  <2> HIDE DEF hit
  <2> USE <1>2, <2>1 DEF Registry!IsTerminated, Registry!Time
  <2>10. /\ items' \in [Subject -> [Session -> Registry!Time \cup {Absent}]]
         /\ \A r \in Subject, y \in Session :
               items'[r][y] # Absent => items'[r][y] = items[r][y]
    BY DEF Registry!RegistryTypeOK
  <2>11. wroteAt' \in [Subject -> [Session -> Registry!Time]] /\ Registry!StampsBounded'
    BY <2>10, WritesForgotten
  <2>2. Registry!RegistryTypeOK'
    BY <2>10, <2>11 DEF Registry!RegistryTypeOK
  <2>3. Registry!TombstoneExcludesSession'
    BY DEF Registry!RegistryTypeOK, Registry!TombstoneExcludesSession
  <2>4. Registry!StampsBounded'
    BY <2>11
  <2>5. Registry!TombstonesKept'
    BY DEF Registry!RegistryTypeOK, Registry!TombstonesKept
  <2>6. KillsNow
    BY DEF Registry!RegistryTypeOK, KillsNow
  <2>7. QED
    BY <2>2, <2>3, <2>4, <2>5, <2>6
<1>5. ASSUME NEW s \in Subject, NEW x \in Session,
             Registry!UpsertLimited(s, x, now) \/ Registry!Touch(s, x, now)
      PROVE  Registry!RegistryInv' /\ KillsNow
  <2>1. ~Registry!IsTerminated(s, x)
    BY <1>5 DEF Registry!UpsertLimited, Registry!Touch, Registry!TombstoneExcludesSession
  <2>2. Registry!StoreItem(s, x, now) /\ UNCHANGED <<terminated, clock, killedAt>>
    BY <1>5 DEF Registry!UpsertLimited, Registry!Touch
  <2>3. QED
    BY <2>1, <2>2, ItemStored DEF KillsNow
<1>6. ASSUME NEW s \in Subject, NEW x \in Session, Registry!Remove(s, x)
      PROVE  Registry!RegistryInv' /\ KillsNow
  <2> USE <1>6 DEF Registry!Remove, Registry!DeleteItem, Registry!IsTerminated, Registry!Time
  <2>10. /\ items' \in [Subject -> [Session -> Registry!Time \cup {Absent}]]
         /\ \A r \in Subject, y \in Session :
               items'[r][y] # Absent => items'[r][y] = items[r][y]
    BY DEF Registry!RegistryTypeOK
  <2>11. wroteAt' \in [Subject -> [Session -> Registry!Time]] /\ Registry!StampsBounded'
    BY <2>10, WritesForgotten
  <2>1. Registry!RegistryTypeOK'
    BY <2>10, <2>11 DEF Registry!RegistryTypeOK
  <2>2. Registry!TombstoneExcludesSession'
    BY DEF Registry!RegistryTypeOK, Registry!TombstoneExcludesSession
  <2>3. Registry!StampsBounded'
    BY <2>11
  <2>4. Registry!TombstonesKept'
    BY DEF Registry!RegistryTypeOK, Registry!TombstonesKept
  <2>5. QED
    BY <2>1, <2>2, <2>3, <2>4 DEF KillsNow
<1>7. QED
  BY <1>1, <1>3, <1>4, <1>5, <1>6

LEMMA TimeKeepsRegistry ==
  ASSUME Registry!RegistryInv, TimePasses
  PROVE  Registry!RegistryInv'
  BY TokensAssumption, ClaimsAssumption
  DEF TimePasses, Tick, registryState, Registry!RegistryInv, Registry!RegistryTypeOK,
      Registry!TombstoneExcludesSession, Registry!StampsBounded, Registry!TombstonesKept,
      Registry!IsTerminated, Registry!Time

-----------------------------------------------------------------------------
(* The door *)

\* A request that has passed the lookup is not later than the last termination of its
\* session, unless the tombstone of that had expired.
NotKilledSince(d) ==
    LET killed == killedAt[SubjectOf[d.token]][SessionOf[d.token]]
    IN  killed # Absent => d.since <= killed \/ clock - killed + LockDelay > TombstoneRetention

DoorOK ==
    \A r \in Request : door[r] # Outside =>
        /\ door[r].token \in Token
        /\ door[r].since \in Nat /\ door[r].since <= clock
        /\ door[r].pc = "upgrade" /\ door[r].token \in ViewerToken => NotKilledSince(door[r])

AdmissionInv == AdmissionTypeOK /\ Registry!RegistryInv /\ DoorOK

\* A session that is listed was not terminated, or so long ago that its tombstone went.
LEMMA ListedIsNotKilled ==
  ASSUME Registry!RegistryInv, NEW s \in Subject, NEW x \in Session, items[s][x] # Absent,
         killedAt[s][x] # Absent
  PROVE  clock - killedAt[s][x] + LockDelay > TombstoneRetention
  BY DEF Registry!RegistryInv, Registry!TombstoneExcludesSession, Registry!TombstonesKept

\* Where a request stands.
Place == [pc : {"lookup", "upgrade", "open", "refused", "failed"}, token : Token, since : Nat]

LEMMA AtPlace ==
  ASSUME AdmissionTypeOK, NEW r \in Request, door[r].pc # "outside"
  PROVE  door[r] # Outside /\ door[r] \in Place
  BY DEF AdmissionTypeOK, Place, Outside

\* The door is typed after a step if the request that moves is at a place.
LEMMA DoorMoves ==
  ASSUME AdmissionTypeOK, TypeOK', UNCHANGED <<attaching, issued>>,
         NEW r \in Request, NEW d \in Place, door' = [door EXCEPT ![r] = d]
  PROVE  AdmissionTypeOK'
  BY DEF AdmissionTypeOK, Place

LEMMA AdmissionStarts == AdmissionInit => AdmissionInv
<1> SUFFICES ASSUME AdmissionInit
             PROVE  AdmissionInv
  OBVIOUS
<1>1. ReplayInv
  BY InitReplayInv DEF AdmissionInit
<1>2. AdmissionTypeOK
  BY <1>1, ClaimsAssumption DEF AdmissionInit, AdmissionTypeOK, ReplayInv
<1>3. DoorOK
  BY DEF AdmissionInit, DoorOK
<1>4. QED
  BY <1>2, <1>3, RegistryStarts DEF AdmissionInv

\* A step of a request r from place d to place e, with the registry left alone.
LEMMA RequestMoves ==
  ASSUME AdmissionInv, TypeOK', UNCHANGED <<registryState, clock, attaching, issued>>,
         NEW r \in Request, NEW e \in Place, door' = [door EXCEPT ![r] = e],
         e.since <= clock, e.pc = "upgrade" /\ e.token \in ViewerToken => NotKilledSince(e)
  PROVE  AdmissionInv'
<1>1. AdmissionTypeOK'
  BY DoorMoves DEF AdmissionInv, AdmissionTypeOK
<1>2. Registry!RegistryInv'
  BY DEF AdmissionInv, registryState, Registry!RegistryInv, Registry!RegistryTypeOK,
         Registry!TombstoneExcludesSession, Registry!StampsBounded, Registry!TombstonesKept,
         Registry!IsTerminated
<1>3. ASSUME NEW q \in Request, door'[q] # Outside
      PROVE  /\ door'[q].token \in Token
             /\ door'[q].since \in Nat /\ door'[q].since <= clock'
             /\ door'[q].pc = "upgrade" /\ door'[q].token \in ViewerToken
                    => NotKilledSince(door'[q])
  <2>1. CASE q = r
    <3>1. door'[q] = e
      BY <2>1 DEF AdmissionInv, AdmissionTypeOK
    <3>2. QED
      BY <3>1 DEF Place
  <2>2. CASE q # r
    <3>1. door'[q] = door[q]
      BY <2>2 DEF AdmissionInv, AdmissionTypeOK
    <3>2. QED
      BY <1>3, <3>1 DEF AdmissionInv, DoorOK
  <2>3. QED
    BY <2>1, <2>2
<1>4. DoorOK'
  BY <1>3 DEF DoorOK, NotKilledSince, registryState
<1>5. QED
  BY <1>1, <1>2, <1>4 DEF AdmissionInv

\* The steps of a request.
LEMMA RequestKeeps ==
  ASSUME AdmissionInv, TypeOK', NEW r \in Request, Step(r)
  PROVE  AdmissionInv'
<1> USE DEF AdmissionInv
<1>1. clock \in Nat
  BY DEF AdmissionTypeOK, TypeOK
<1>2. ASSUME NEW t \in Token, ValidateToken(r, t) \/ RefuseReplay(r, t)
      PROVE  AdmissionInv'
  <2>1. UNCHANGED <<registryState, clock, attaching, issued, door>>
    BY <1>2 DEF ValidateToken, RefuseReplay, Validate, Refuse
  <2>2. AdmissionTypeOK'
    BY <2>1 DEF AdmissionTypeOK
  <2>3. Registry!RegistryInv'
    BY <2>1 DEF registryState, Registry!RegistryInv, Registry!RegistryTypeOK,
           Registry!TombstoneExcludesSession, Registry!StampsBounded, Registry!TombstonesKept,
           Registry!IsTerminated
  <2>4. DoorOK'
    BY <2>1 DEF DoorOK, NotKilledSince, registryState
  <2>5. QED
    BY <2>2, <2>3, <2>4
<1>3. ASSUME NEW t \in Token, ConsumeToken(r, t)
      PROVE  AdmissionInv'
  <2>1. PICK e \in Place :
           /\ door' = [door EXCEPT ![r] = e] /\ e.token = t /\ e.since = clock
           /\ t \in ViewerToken => e.pc = "lookup"
    <3>1. At(IF t \in ViewerToken THEN "lookup" ELSE "upgrade", t, clock) \in Place
      BY <1>1 DEF At, Place
    <3>2. QED
      BY <1>3, <3>1 DEF ConsumeToken, At
  <2>2. UNCHANGED <<registryState, clock, attaching, issued>>
    BY <1>3 DEF ConsumeToken, Accept
  <2>3. e.since <= clock /\ (e.token \in ViewerToken => e.pc # "upgrade")
    BY <1>1, <2>1
  <2>4. QED
    BY <2>1, <2>2, <2>3, RequestMoves
<1>4. ASSUME NEW now \in Registry!Stamps, FindAgent(r, now) \/ NoAgent(r, now)
      PROVE  AdmissionInv'
  <2>1. door[r] \in Place /\ door[r] # Outside
    BY <1>4, AtPlace DEF FindAgent, NoAgent
  <2>2. PICK l \in {"upgrade", "refused"} :
           /\ door' = [door EXCEPT ![r].pc = l]
           /\ l = "upgrade" => Lookup(door[r].token, now)
    BY <1>4 DEF FindAgent, NoAgent
  <2>3. PICK e \in Place :
           /\ door' = [door EXCEPT ![r] = e]
           /\ e.pc = l /\ e.token = door[r].token /\ e.since = door[r].since
    <3>1. [door[r] EXCEPT !.pc = l] \in Place
      BY <2>1 DEF Place
    <3>2. door' = [door EXCEPT ![r] = [door[r] EXCEPT !.pc = l]]
      BY <2>2
    <3>3. /\ [door[r] EXCEPT !.pc = l].pc = l
          /\ [door[r] EXCEPT !.pc = l].token = door[r].token
          /\ [door[r] EXCEPT !.pc = l].since = door[r].since
      BY <2>1 DEF Place
    <3>4. QED
      BY <3>1, <3>2, <3>3
  <2>4. UNCHANGED <<registryState, clock, attaching, issued>>
    BY <1>4 DEF FindAgent, NoAgent, replayVars
  <2>5. e.since <= clock
    BY <2>1, <2>3 DEF DoorOK
  <2>6. e.pc = "upgrade" => NotKilledSince(e)
    <3>1. SubjectOf[e.token] \in Subject /\ SessionOf[e.token] \in Session
      BY ClaimsAssumption DEF Place
    <3>2. e.pc = "upgrade" => items[SubjectOf[e.token]][SessionOf[e.token]] # Absent
      BY <2>2, <2>3 DEF Lookup
    <3>3. QED
      BY <3>1, <3>2, ListedIsNotKilled DEF NotKilledSince
  <2>7. QED
    BY <2>3, <2>4, <2>5, <2>6, RequestMoves
<1>5. CASE Upgrade(r)
  <2>1. door[r] \in Place /\ door[r] # Outside
    BY <1>5, AtPlace DEF Upgrade
  <2>2. PICK l \in {"open", "failed"} : door' = [door EXCEPT ![r].pc = l]
    BY <1>5 DEF Upgrade
  <2>3. PICK e \in Place : door' = [door EXCEPT ![r] = e] /\ e.pc = l /\ e.since = door[r].since
    <3>1. [door[r] EXCEPT !.pc = l] \in Place
      BY <2>1 DEF Place
    <3>2. door' = [door EXCEPT ![r] = [door[r] EXCEPT !.pc = l]]
      BY <2>2
    <3>3. [door[r] EXCEPT !.pc = l].pc = l /\ [door[r] EXCEPT !.pc = l].since = door[r].since
      BY <2>1 DEF Place
    <3>4. QED
      BY <3>1, <3>2, <3>3
  <2>4. UNCHANGED <<registryState, clock, attaching, issued>>
    BY <1>5 DEF Upgrade, replayVars
  <2>5. e.since <= clock
    BY <2>1, <2>3 DEF DoorOK
  <2>6. QED
    BY <2>2, <2>3, <2>4, <2>5, RequestMoves
<1>6. QED
  BY <1>2, <1>3, <1>4, <1>5 DEF Step

LEMMA AdmissionStep ==
  ASSUME AdmissionInv, ReplayInv', [AdmissionNext]_admissionVars
  PROVE  AdmissionInv'
<1> USE DEF AdmissionInv
<1>1. /\ TypeOK' /\ clock \in Nat
      /\ \A r \in Request : door[r] # Outside =>
            SubjectOf[door[r].token] \in Subject /\ SessionOf[door[r].token] \in Session
  BY ClaimsAssumption DEF ReplayInv, AdmissionTypeOK, TypeOK, DoorOK
<1>2. ASSUME UNCHANGED <<attaching, issued, door>>, Registry!RegistryInv', clock' \in Nat, clock <= clock',
             \A s \in Subject, x \in Session : killedAt'[s][x] \in {killedAt[s][x], clock}
      PROVE  AdmissionInv'
  <2>1. AdmissionTypeOK'
    BY <1>1, <1>2 DEF AdmissionTypeOK
  <2>2. ASSUME NEW r \in Request, door[r] # Outside,
               door[r].pc = "upgrade", door[r].token \in ViewerToken
        PROVE  NotKilledSince(door[r])'
    <3>1. PICK s \in Subject, x \in Session :
             s = SubjectOf[door[r].token] /\ x = SessionOf[door[r].token]
      BY <1>1, <2>2
    <3>2. /\ door[r].since \in Nat /\ door[r].since <= clock
          /\ killedAt[s][x] # Absent =>
                \/ door[r].since <= killedAt[s][x]
                \/ clock - killedAt[s][x] + LockDelay > TombstoneRetention
      BY <2>2, <3>1 DEF DoorOK, NotKilledSince
    <3>3. killedAt[s][x] \in Nat \cup {Absent} /\ killedAt'[s][x] \in {killedAt[s][x], clock}
      BY <1>2 DEF Registry!RegistryInv, Registry!RegistryTypeOK, Registry!Time
    <3>4. killedAt'[s][x] # Absent =>
                \/ door[r].since <= killedAt'[s][x]
                \/ clock' - killedAt'[s][x] + LockDelay > TombstoneRetention
      BY <1>1, <1>2, <3>2, <3>3, ClaimsAssumption, TokensAssumption
    <3>5. QED
      BY <1>2, <3>1, <3>4 DEF NotKilledSince
  <2>3. DoorOK'
    <3> SUFFICES ASSUME NEW r \in Request, door'[r] # Outside
                 PROVE  /\ door'[r].token \in Token
                        /\ door'[r].since \in Nat /\ door'[r].since <= clock'
                        /\ door'[r].pc = "upgrade" /\ door'[r].token \in ViewerToken
                               => NotKilledSince(door[r])'
      BY DEF DoorOK
    <3>1. QED
      BY <1>1, <1>2, <2>2 DEF DoorOK
  <2>4. QED
    BY <1>2, <2>1, <2>3
<1>3. CASE TimePasses
  <2>1. /\ UNCHANGED <<attaching, issued, door, killedAt>> /\ clock' \in Nat /\ clock <= clock'
    BY <1>1, <1>3 DEF TimePasses, Tick, registryState
  <2>2. QED
    BY <1>2, <1>3, <2>1, TimeKeepsRegistry
<1>4. CASE RegistryChanges
  <2>1. UNCHANGED <<attaching, issued, door>>
    BY <1>4 DEF RegistryChanges
  <2>2. QED
    BY <1>1, <1>2, <1>4, <2>1, RegistryKept DEF KillsNow
<1>5. CASE (\E t \in Token, now \in Registry!Stamps : AttachLookup(t, now))
             \/ \E t \in Token : AttachIssue(t)
  <2>1. /\ UNCHANGED <<registryState, clock, door>>
        /\ attaching' \subseteq ViewerToken /\ issued' \subseteq Token
    BY <1>5 DEF AttachLookup, AttachIssue, replayVars, AdmissionTypeOK
  <2>2. Registry!RegistryInv'
    BY <2>1 DEF registryState, Registry!RegistryInv, Registry!RegistryTypeOK,
           Registry!TombstoneExcludesSession, Registry!StampsBounded, Registry!TombstonesKept,
           Registry!IsTerminated
  <2>3. AdmissionTypeOK' /\ DoorOK'
    BY <1>1, <2>1 DEF AdmissionTypeOK, DoorOK, NotKilledSince, registryState
  <2>4. QED
    BY <2>2, <2>3
<1>6. CASE \E r \in Request : Step(r)
  BY <1>1, <1>6, RequestKeeps
<1>7. CASE UNCHANGED admissionVars
  <2>1. UNCHANGED <<registryState, clock, attaching, issued, door>>
    BY <1>7 DEF admissionVars, replayVars
  <2>2. Registry!RegistryInv'
    BY <2>1 DEF registryState, Registry!RegistryInv, Registry!RegistryTypeOK,
           Registry!TombstoneExcludesSession, Registry!StampsBounded, Registry!TombstonesKept,
           Registry!IsTerminated
  <2>3. AdmissionTypeOK' /\ DoorOK'
    BY <1>1, <2>1 DEF AdmissionTypeOK, DoorOK, NotKilledSince, registryState
  <2>4. QED
    BY <2>2, <2>3
<1>8. QED
  BY <1>3, <1>4, <1>5, <1>6, <1>7 DEF AdmissionNext

\* The registry keeps its stamps and tombstones, and a request that has passed the
\* lookup was there before the last termination of its session.
THEOREM AdmissionInvariant == AdmissionSpec => []AdmissionInv
<1>1. AdmissionSpec => []ReplayInv
  BY AdmissionImplementsReplay, ReplayInvariant, PTL
<1>2. AdmissionInv /\ ReplayInv' /\ [AdmissionNext]_admissionVars => AdmissionInv'
  BY AdmissionStep
<1>3. QED
  BY <1>1, <1>2, AdmissionStarts, PTL DEF AdmissionSpec

\* Only an upgrade opens a connection, and only the lookup turns a request away.
LEMMA DoorSteps ==
  ASSUME AdmissionInv, AdmissionNext, NEW r \in Request, door'[r] # door[r]
  PROVE  \/ \E t \in Token : ConsumeToken(r, t)
         \/ \E now \in Registry!Stamps : FindAgent(r, now) \/ NoAgent(r, now)
         \/ Upgrade(r)
<1>1. PICK q \in Request : Step(q)
  BY DEF AdmissionNext, TimePasses, RegistryChanges, AttachLookup, AttachIssue
<1>2. q = r
  BY <1>1 DEF Step, ValidateToken, ConsumeToken, RefuseReplay, FindAgent, NoAgent, Upgrade,
              AdmissionInv, AdmissionTypeOK
<1>3. QED
  BY <1>1, <1>2 DEF Step, ValidateToken, RefuseReplay

\* A token of a terminated session, whenever it was handed out, opens nothing but for
\* viewers that were at the door when the termination came.
THEOREM TerminationShutsViewersOut == AdmissionSpec => TerminatedAdmitsNoViewer
<1>1. AdmissionInv /\ [AdmissionNext]_admissionVars => [OpenStep]_admissionVars
  <2> SUFFICES ASSUME AdmissionInv, AdmissionNext, NEW r \in Request,
                      door[r].pc = "upgrade", door'[r].pc = "open", door'[r].token \in ViewerToken
               PROVE  NotKilledSince(door'[r])
    BY DEF OpenStep, NotKilledSince
  <2>1. door[r] \in Place /\ door[r] # Outside
    BY AtPlace DEF AdmissionInv
  <2>2. Upgrade(r)
    <3>1. \A now \in Registry!Stamps : ~FindAgent(r, now) /\ ~NoAgent(r, now)
      BY DEF FindAgent, NoAgent
    <3>2. \A t \in Token : ~ConsumeToken(r, t)
      BY DEF ConsumeToken, At, AdmissionInv, AdmissionTypeOK
    <3>3. QED
      BY <3>1, <3>2, DoorSteps
  <2>3. door'[r].token = door[r].token /\ door'[r].since = door[r].since
    BY <2>1, <2>2 DEF Upgrade, Place, AdmissionInv, AdmissionTypeOK
  <2>4. NotKilledSince(door[r])
    BY <2>1, <2>3 DEF AdmissionInv, DoorOK
  <2>5. QED
    BY <2>3, <2>4 DEF NotKilledSince
<1>2. QED
  BY <1>1, AdmissionInvariant, PTL DEF AdmissionSpec, TerminatedAdmitsNoViewer

\* An agent heard of within the heartbeat timeout (less the lock delay) is found by the
\* viewer whose token was spent on the way to it.
THEOREM ViewersFindLiveAgents == AdmissionSpec => LiveAgentIsReachable
<1>1. AdmissionInv /\ [AdmissionNext]_admissionVars => [TurnedAwayStep]_admissionVars
  <2> SUFFICES ASSUME AdmissionInv, AdmissionNext, NEW r \in Request,
                      door[r].pc = "lookup", door'[r].pc = "refused",
                      NEW s, s = SubjectOf[door[r].token],
                      NEW x, x = SessionOf[door[r].token],
                      Registry!RecentlySeen(s, x)
               PROVE  FALSE
    BY DEF TurnedAwayStep
  <2>1. door[r] \in Place /\ s \in Subject /\ x \in Session
    BY AtPlace, ClaimsAssumption DEF AdmissionInv, Place
  <2>2. PICK now \in Registry!Stamps : NoAgent(r, now)
    <3>1. door'[r].pc # "upgrade" /\ door'[r].pc # "open" /\ door'[r].pc # "failed"
      OBVIOUS
    <3>2. \A now \in Registry!Stamps : ~FindAgent(r, now)
      BY <2>1, <3>1 DEF FindAgent, AdmissionInv, AdmissionTypeOK, Place
    <3>3. \A t \in Token : ~ConsumeToken(r, t)
      BY DEF ConsumeToken, At, AdmissionInv, AdmissionTypeOK
    <3>4. ~Upgrade(r)
      BY DEF Upgrade
    <3>5. QED
      BY <3>2, <3>3, <3>4, DoorSteps
  <2>3. now \in Nat /\ now <= clock /\ clock \in Nat
    BY DEF Registry!Stamps, AdmissionInv, AdmissionTypeOK, TypeOK
  <2>4. /\ items[s][x] \in Nat /\ items[s][x] # Absent /\ wroteAt[s][x] \in Nat
        /\ wroteAt[s][x] <= items[s][x] + LockDelay
    BY <2>1 DEF AdmissionInv, Registry!RegistryInv, Registry!RegistryTypeOK,
                Registry!StampsBounded, Registry!RecentlySeen, Registry!Time
  <2>5. ~Registry!IsStale(items[s][x], now)
    BY <2>3, <2>4, ClaimsAssumption DEF Registry!IsStale, Registry!RecentlySeen
  <2>6. QED
    BY <2>2, <2>4, <2>5 DEF NoAgent, Lookup
<1>2. QED
  BY <1>1, AdmissionInvariant, PTL DEF AdmissionSpec, LiveAgentIsReachable
=============================================================================
