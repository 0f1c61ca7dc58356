-------------------------- MODULE AuthTokensProofs --------------------------
(***************************************************************************)
(* Proofs about UserKeyStore and AuthTokens.                                *)
(*                                                                          *)
(* The indexes of the user key store agree with its items, for any keys,    *)
(* subjects and transaction ids.  A login is one chain of refresh tokens,   *)
(* and a login key is good for one attempt per issue, for any number of     *)
(* requests in flight, any lifetimes and any delay of the stamps.           *)
(*                                                                          *)
(* LoginIsOneChain counts; ChainInv says the same without counting (who     *)
(* holds a family, and that no two do), and what else is inductive: a       *)
(* family is named by its first token, which was issued, and a request that *)
(* peeked at a token knows its subject.                                     *)
(***************************************************************************)
EXTENDS AuthTokens, FiniteSetTheorems, TLAPS

\* The empty store.
LEMMA InitStoreInv == StoreInit => StoreInv
  BY StoreAssumption DEF StoreInit, StoreInv, StoreTypeOK, IndexesMatchItems

\* upsertLocked keeps the three maps in agreement, whichever of the subject and the
\* transaction id of the key changes.
LEMMA UpsertStoreInv ==
  ASSUME StoreInv, NEW k \in Key, NEW e \in UserEntitlement, upsertLocked(k, e)
  PROVE  StoreInv'
<1>1. StoreTypeOK /\ IndexesMatchItems
  BY DEF StoreInv
<1>2. /\ e \in [subject : Subject, tx : Tx \cup {NoTx}, usable : BOOLEAN]
      /\ e # Absent
      /\ e.subject \in Subject
      /\ e.tx = NoTx \/ e.tx \in Tx
      /\ NoTx \notin Tx /\ Absent \notin Key
  BY StoreAssumption DEF UserEntitlement
<1>3. StoreTypeOK'
  BY <1>1, <1>2 DEF StoreTypeOK, upsertLocked, SubjectsKept, TxKept
<1>4. /\ items'[k] = e
      /\ \A j \in Key : j # k => items'[j] = items[j]
  BY <1>1 DEF StoreTypeOK, upsertLocked
<1>5. ASSUME NEW s \in Subject, NEW j \in Key
      PROVE  subjectToID'[s] = j <=> items'[j] # Absent /\ items'[j].subject = s
  <2>1. subjectToID'[s] = IF s = e.subject THEN k
                          ELSE IF items[k] # Absent /\ items[k].subject = s
                               THEN Absent ELSE subjectToID[s]
    BY <1>1, <1>2 DEF StoreTypeOK, upsertLocked, SubjectsKept
  <2>2. subjectToID[e.subject] \in {Absent, k}
    BY DEF upsertLocked, Conflict
  <2>3. /\ subjectToID[s] = j <=> items[j] # Absent /\ items[j].subject = s
        /\ subjectToID[s] = k <=> items[k] # Absent /\ items[k].subject = s
    BY <1>1 DEF IndexesMatchItems
  <2>4. CASE s = e.subject
    BY <1>2, <1>4, <2>1, <2>2, <2>3, <2>4
  <2>5. CASE s # e.subject
    BY <1>2, <1>4, <2>1, <2>3, <2>5
  <2> QED
    BY <2>4, <2>5
<1>6. ASSUME NEW t \in Tx, NEW j \in Key
      PROVE  originalTxToID'[t] = j <=> items'[j] # Absent /\ items'[j].tx = t
  <2>1. originalTxToID'[t] = IF t = e.tx THEN k
                             ELSE IF items[k] # Absent /\ items[k].tx = t
                                  THEN Absent ELSE originalTxToID[t]
    BY <1>1, <1>2 DEF StoreTypeOK, upsertLocked, TxKept
  <2>2. t = e.tx => originalTxToID[t] \in {Absent, k}
    BY <1>2 DEF upsertLocked, Conflict
  <2>3. /\ originalTxToID[t] = j <=> items[j] # Absent /\ items[j].tx = t
        /\ originalTxToID[t] = k <=> items[k] # Absent /\ items[k].tx = t
    BY <1>1 DEF IndexesMatchItems
  <2>4. CASE t = e.tx
    BY <1>2, <1>4, <2>1, <2>2, <2>3, <2>4
  <2>5. CASE t # e.tx
    BY <1>2, <1>4, <2>1, <2>3, <2>5
  <2> QED
    BY <2>4, <2>5
<1> QED
  BY <1>3, <1>5, <1>6 DEF StoreInv, IndexesMatchItems

\* Each of the three writes is an upsertLocked of some key and entitlement.
LEMMA WriteIsUpsert ==
  ASSUME StoreInv, StoreNext
  PROVE  \E k \in Key, e \in UserEntitlement : upsertLocked(k, e)
<1>1. ASSUME NEW e \in UserEntitlement, NEW k \in Key, Add(k, e) \/ Upsert(k, e)
      PROVE  \E j \in Key, f \in UserEntitlement : upsertLocked(j, f)
  BY <1>1 DEF Add, Upsert
<1>2. ASSUME NEW e \in UserEntitlement, NEW t \in Tx, UpsertByOriginalTransactionID(t, e)
      PROVE  \E j \in Key, f \in UserEntitlement : upsertLocked(j, f)
  <2>1. originalTxToID[t] \in Key
    BY <1>2 DEF UpsertByOriginalTransactionID, StoreInv, StoreTypeOK
  <2>2. (IF e.tx = NoTx THEN [e EXCEPT !.tx = t] ELSE e) \in UserEntitlement
    BY DEF UserEntitlement
  <2> QED
    BY <1>2, <2>1, <2>2 DEF UpsertByOriginalTransactionID
<1> QED
  BY <1>1, <1>2 DEF StoreNext

\* Every write keeps the maps in agreement.
LEMMA NextStoreInv == StoreInv /\ [StoreNext]_storeVars => StoreInv'
<1> SUFFICES ASSUME StoreInv, [StoreNext]_storeVars PROVE StoreInv'
  OBVIOUS
<1>1. CASE StoreNext
  BY <1>1, WriteIsUpsert, UpsertStoreInv
<1>2. CASE UNCHANGED storeVars
  BY <1>2 DEF storeVars, StoreInv, StoreTypeOK, IndexesMatchItems
<1> QED
  BY <1>1, <1>2

\* The shape of the maps and their agreement hold in every state.
THEOREM StoreInvariant == StoreSpec => []StoreInv
  BY InitStoreInv, NextStoreInv, PTL DEF StoreSpec

\* After any sequence of Add, Upsert and UpsertByOriginalTransactionID each index
\* says exactly what the items say.
THEOREM IndexesConsistent == StoreSpec => []IndexesMatchItems
<1>1. StoreInv => IndexesMatchItems
  BY DEF StoreInv
<1> QED
  BY <1>1, StoreInvariant, PTL

\* No single write takes a subject away from a key that does not give it up.
THEOREM SubjectsAreNotTakenOver == StoreSpec => NoSubjectTakeover
<1>1. StoreInv /\ [StoreNext]_storeVars => TakeoverStep
  <2> SUFFICES ASSUME StoreInv, [StoreNext]_storeVars,
                      NEW s \in Subject, subjectToID[s] # Absent,
                      subjectToID'[s] # subjectToID[s]
               PROVE  /\ subjectToID'[s] = Absent
                      /\ items'[subjectToID[s]].subject # s
    BY DEF TakeoverStep
  <2>1. StoreNext
    BY DEF storeVars
  <2>2. PICK k \in Key, e \in UserEntitlement : upsertLocked(k, e)
    BY <2>1, WriteIsUpsert
  <2>3. StoreTypeOK /\ IndexesMatchItems /\ e.subject \in Subject
    BY DEF StoreInv, UserEntitlement
  <2>4. subjectToID'[s] = IF s = e.subject THEN k
                          ELSE IF items[k] # Absent /\ items[k].subject = s
                               THEN Absent ELSE subjectToID[s]
    BY <2>2, <2>3 DEF StoreTypeOK, upsertLocked, SubjectsKept
  <2>5. s # e.subject
    BY <2>2, <2>3, <2>4 DEF upsertLocked, Conflict
  <2>6. items[k] # Absent /\ items[k].subject = s /\ subjectToID'[s] = Absent
    BY <2>4, <2>5
  <2>7. subjectToID[s] = k
    BY <2>3, <2>6 DEF IndexesMatchItems
  <2>8. items'[k] = e
    BY <2>2, <2>3 DEF upsertLocked, StoreTypeOK
  <2> QED
    BY <2>5, <2>6, <2>7, <2>8
<1> QED
  BY <1>1, StoreInvariant, PTL DEF StoreSpec, NoSubjectTakeover

-----------------------------------------------------------------------------
\* What a request has in hand, by its label.
LEMMA RequestShape ==
  ASSUME TypeOK, NEW r \in Request
  PROVE  /\ request[r].pc \in {"peeked", "entitled"} =>
               /\ request[r].token \in RefreshToken
               /\ request[r].subject \in Subject
               /\ request[r] \in [pc : {"peeked", "entitled"}, token : RefreshToken,
                                  subject : Subject]
         /\ request[r].pc = "issuing" =>
               /\ request[r].subject \in Subject
               /\ request[r].root \in RefreshToken \cup {Absent}
         /\ request[r].pc = "inviting" => request[r].subject \in Subject
         /\ request[r].pc = "device" =>
               /\ request[r].subject \in Subject
               /\ request[r].key \in LoginKey
<1>1. request[r] \in RequestState
  BY DEF TypeOK
<1>2. QED
  BY <1>1 DEF RequestState, Idle

\* An entitlement that a lookup finds names a subject.
LEMMA LookupShape ==
  ASSUME StoreTypeOK
  PROVE  /\ \A k \in Key : isEntitlementUsable(Lookup(k)) => Lookup(k).subject \in Subject
         /\ \A s \in Subject : isEntitlementUsable(LookupBySubject(s)) =>
               LookupBySubject(s).subject \in Subject
<1> USE StoreAssumption DEF StoreTypeOK, UserEntitlement, isEntitlementUsable
<1>1. \A k \in Key : items[k] # Absent => items[k].subject \in Subject
  OBVIOUS
<1>2. \A s \in Subject : subjectToID[s] # Absent => subjectToID[s] \in Key
  OBVIOUS
<1>3. QED
  BY <1>1, <1>2 DEF Lookup, LookupBySubject

\* A stamp is a time that has come.
LEMMA StampShape == ASSUME TypeOK, NEW now \in Stamps PROVE now \in Nat /\ now <= clock
  BY DEF Stamps, TypeOK

\* The stores are empty and no request runs.
LEMMA AuthTypeInit == Init => TypeOK /\ StoreInv
  BY InitStoreInv, TokensAssumption DEF Init, TypeOK, StoreInv, RequestState

\* A request moves to one of its labels.
LEMMA GotoType ==
  ASSUME TypeOK, NEW r \in Request, NEW state \in RequestState, Goto(r, state)
  PROVE  request' \in [Request -> RequestState]
  BY DEF Goto, TypeOK

\* A token in the store was issued.
TokensIssued == \A t \in RefreshToken : tokens[t] # Absent => family[t] # Absent

\* Every endpoint, sweep and entitlement update keeps the shape of the stores.
LEMMA AuthTypeStep ==
  TypeOK /\ StoreInv /\ TokensIssued /\ [Next]_authVars => TypeOK' /\ StoreInv'
<1> SUFFICES ASSUME TypeOK, StoreInv, TokensIssued, [Next]_authVars
             PROVE  TypeOK' /\ StoreInv'
  OBVIOUS
<1> USE TokensAssumption
<1>0. ASSUME UNCHANGED storeVars PROVE StoreInv' /\ StoreTypeOK'
  BY <1>0, NextStoreInv DEF StoreInv
<1>1. CASE Tick
  BY <1>0, <1>1 DEF Tick, TypeOK
<1>2. CASE EntitlementChanges
  BY <1>2, NextStoreInv DEF EntitlementChanges, TypeOK, StoreInv
<1>3. ASSUME NEW r \in Request, NEW k \in Key, Exchange(r, k)
      PROVE  TypeOK' /\ StoreInv'
  <2>1. [pc |-> "issuing", subject |-> Lookup(k).subject, root |-> Absent] \in RequestState
    BY <1>3, LookupShape DEF Exchange, TypeOK, RequestState
  <2>2. request' \in [Request -> RequestState]
    BY <1>3, <2>1, GotoType DEF Exchange
  <2>3. QED
    BY <1>0, <1>3, <2>2 DEF Exchange, TypeOK
<1>4. ASSUME NEW r \in Request, NEW s \in Subject, LoginKeysLookup(r, s)
      PROVE  TypeOK' /\ StoreInv'
  <2>1. [pc |-> "inviting", subject |-> LookupBySubject(s).subject] \in RequestState
    BY <1>4, LookupShape DEF LoginKeysLookup, TypeOK, RequestState
  <2>2. request' \in [Request -> RequestState]
    BY <1>4, <2>1, GotoType DEF LoginKeysLookup
  <2>3. QED
    BY <1>0, <1>4, <2>2 DEF LoginKeysLookup, TypeOK
<1>i. Idle \in RequestState
  BY DEF RequestState
<1>5. ASSUME NEW r \in Request, RefreshLookup(r)
      PROVE  TypeOK' /\ StoreInv'
  <2>1. [request[r] EXCEPT !.pc = "entitled"] \in RequestState
    BY <1>5, RequestShape DEF RefreshLookup, RequestState
  <2>2. request' \in [Request -> RequestState]
    BY <1>5, <1>i, <2>1, GotoType DEF RefreshLookup
  <2>3. QED
    BY <1>0, <1>5, <2>2 DEF RefreshLookup, TypeOK
<1>6. ASSUME NEW r \in Request, IssueFails(r)
      PROVE  TypeOK' /\ StoreInv'
  <2>1. request' \in [Request -> RequestState]
    BY <1>6, <1>i, GotoType DEF IssueFails
  <2>2. QED
    BY <1>0, <1>6, <2>1, RequestShape DEF IssueFails, TypeOK
<1>7. ASSUME NEW r \in Request, IssueLoginKeyFails(r)
      PROVE  TypeOK' /\ StoreInv'
  <2>1. request' \in [Request -> RequestState]
    BY <1>7, <1>i, GotoType DEF IssueLoginKeyFails
  <2>2. QED
    BY <1>0, <1>7, <2>1 DEF IssueLoginKeyFails, TypeOK
<1>8. ASSUME NEW r \in Request, DeviceLookup(r)
      PROVE  TypeOK' /\ StoreInv'
  <2> DEFINE e == LookupBySubject(request[r].subject)
  <2>0. request[r].subject \in Subject /\ request[r].key \in LoginKey
    BY <1>8, RequestShape DEF DeviceLookup
  <2>1. isEntitlementUsable(e) =>
            [pc |-> "issuing", subject |-> e.subject, root |-> Absent] \in RequestState
    BY <2>0, LookupShape DEF TypeOK, RequestState
  <2>2. request' \in [Request -> RequestState]
    BY <1>8, <1>i, <2>1, GotoType DEF DeviceLookup
  <2>3. keySpent' \in [LoginKey -> Nat]
    BY <1>8, <2>0 DEF DeviceLookup, TypeOK
  <2>4. QED
    BY <1>0, <1>8, <2>2, <2>3 DEF DeviceLookup, TypeOK
<1>9. ASSUME NEW now \in Stamps, CleanupTokens(now)
      PROVE  TypeOK' /\ StoreInv'
  <2>1. RunOut({t \in RefreshToken : tokens[t] # Absent /\ Expired(tokens[t], now)})
            \subseteq RefreshToken
    BY DEF RunOut, TokensIssued, TypeOK
  <2>2. QED
    BY <1>0, <1>9, <2>1 DEF CleanupTokens, TypeOK
<1>10. ASSUME NEW now \in Stamps, CleanupLoginKeys(now)
      PROVE  TypeOK' /\ StoreInv'
  BY <1>0, <1>10 DEF CleanupLoginKeys, TypeOK
<1>11. ASSUME NEW now \in Stamps, NEW r \in Request, Consume(r, now)
      PROVE  TypeOK' /\ StoreInv'
  <2> DEFINE t == request[r].token
  <2>0. t \in RefreshToken /\ request[r].subject \in Subject
    BY <1>11, RequestShape DEF Consume
  <2>1. tokens[t] # Absent =>
            /\ [pc |-> "issuing", subject |-> request[r].subject, root |-> family[t]]
                  \in RequestState
            /\ RunOut({t}) \subseteq RefreshToken
    BY <2>0 DEF TokensIssued, TypeOK, RequestState, RunOut
  <2>2. request' \in [Request -> RequestState]
    BY <1>11, <1>i, <2>1, GotoType DEF Consume
  <2>3. tokens' \in [RefreshToken -> Record \cup {Absent}] /\ ended' \subseteq RefreshToken
    BY <1>11, <2>0, <2>1 DEF Consume, TypeOK
  <2>4. QED
    BY <1>0, <1>11, <2>2, <2>3 DEF Consume, TypeOK
<1>12. ASSUME NEW now \in Stamps, NEW r \in Request, NEW t \in RefreshToken, Peek(r, t, now)
      PROVE  TypeOK' /\ StoreInv'
  <2>1. [pc |-> "peeked", token |-> t, subject |-> tokens[t].subject] \in RequestState
    BY <1>12 DEF Peek, TypeOK, Record, RequestState
  <2>2. request' \in [Request -> RequestState]
    BY <1>12, <2>1, GotoType DEF Peek
  <2>3. QED
    BY <1>0, <1>12, <2>2 DEF Peek, TypeOK
<1>13. ASSUME NEW now \in Stamps, NEW r \in Request, NEW t \in RefreshToken,
              IssueAuthTokens(r, t, now)
      PROVE  TypeOK' /\ StoreInv'
  <2>0. request[r].subject \in Subject /\ request[r].root \in RefreshToken \cup {Absent}
    BY <1>13, RequestShape DEF IssueAuthTokens
  <2>1. request' \in [Request -> RequestState]
    BY <1>13, <1>i, GotoType DEF IssueAuthTokens
  <2>2. [subject |-> request[r].subject, expiresAt |-> now + RefreshTTL] \in Record
    BY <2>0, StampShape DEF Record
  <2>3. tokens' \in [RefreshToken -> Record \cup {Absent}]
    BY <1>13, <2>2 DEF IssueAuthTokens, TypeOK
  <2>4. family' \in [RefreshToken -> RefreshToken \cup {Absent}]
    BY <1>13, <2>0 DEF IssueAuthTokens, TypeOK
  <2>5. QED
    BY <1>0, <1>13, <2>1, <2>3, <2>4 DEF IssueAuthTokens, TypeOK
<1>14. ASSUME NEW now \in Stamps, NEW r \in Request, NEW k \in LoginKey,
              IssueLoginKey(r, k, now)
      PROVE  TypeOK' /\ StoreInv'
  <2>0. request[r].subject \in Subject
    BY <1>14, RequestShape DEF IssueLoginKey
  <2>1. request' \in [Request -> RequestState]
    BY <1>14, <1>i, GotoType DEF IssueLoginKey
  <2>2. [subject |-> request[r].subject, expiresAt |-> now + LoginTTL] \in Record
    BY <2>0, StampShape DEF Record
  <2>3. loginKeys' \in [LoginKey -> Record \cup {Absent}] /\ keyIssued' \in [LoginKey -> Nat]
    BY <1>14, <2>2 DEF IssueLoginKey, TypeOK
  <2>4. QED
    BY <1>0, <1>14, <2>1, <2>3 DEF IssueLoginKey, TypeOK
<1>15. ASSUME NEW now \in Stamps, NEW r \in Request, NEW k \in LoginKey,
              ConsumeLoginKey(r, k, now)
      PROVE  TypeOK' /\ StoreInv'
  <2>1. [pc |-> "device", subject |-> loginKeys[k].subject, key |-> k] \in RequestState
    BY <1>15 DEF ConsumeLoginKey, TypeOK, Record, RequestState
  <2>2. request' \in [Request -> RequestState]
    BY <1>15, <2>1, GotoType DEF ConsumeLoginKey, TypeOK
  <2>3. loginKeys' \in [LoginKey -> Record \cup {Absent}] /\ keySpent' \in [LoginKey -> Nat]
    BY <1>15 DEF ConsumeLoginKey, TypeOK
  <2>4. QED
    BY <1>0, <1>15, <2>2, <2>3 DEF ConsumeLoginKey, TypeOK
<1>16. CASE UNCHANGED authVars
  BY <1>0, <1>16 DEF authVars, storeVars, TypeOK
<1>17. QED
  BY <1>1, <1>2, <1>3, <1>4, <1>5, <1>6, <1>7, <1>8, <1>9, <1>10, <1>11, <1>12, <1>13,
     <1>14, <1>15, <1>16 DEF Next

-----------------------------------------------------------------------------
Issuing(r) == request[r].pc = "issuing"

\* A family bears the name of its first token, in the history as in a rotation.
FamiliesNamed ==
    /\ \A t \in RefreshToken : family[t] # Absent => family[family[t]] = family[t]
    /\ \A r \in Request : Issuing(r) /\ request[r].root # Absent =>
           family[request[r].root] = request[r].root
    /\ \A f \in ended : family[f] = f

\* Between Peek and Consume the token is an issued one, and of the subject it had.
PeeksHold(r) ==
    request[r].pc \in {"peeked", "entitled"} =>
        /\ family[request[r].token] # Absent
        /\ tokens[request[r].token] # Absent =>
               tokens[request[r].token].subject = request[r].subject

\* No two tokens, rotations or ends belong to one family ...
OneHolder ==
    /\ \A t, u \in RefreshToken :
           tokens[t] # Absent /\ tokens[u] # Absent /\ family[t] = family[u] => t = u
    /\ \A r, q \in Request :
           Issuing(r) /\ Issuing(q) /\ request[r].root # Absent
               /\ request[r].root = request[q].root => r = q
    /\ \A t \in RefreshToken, r \in Request :
           tokens[t] # Absent /\ Issuing(r) => request[r].root # family[t]
    /\ \A t \in RefreshToken : tokens[t] # Absent => family[t] \notin ended
    /\ \A r \in Request : Issuing(r) => request[r].root \notin ended

\* ... and one does.
SomeHolder ==
    \A f \in RefreshToken : family[f] = f =>
        \/ f \in ended
        \/ \E t \in RefreshToken : tokens[t] # Absent /\ family[t] = f
        \/ \E r \in Request : Issuing(r) /\ request[r].root = f

ChainInv ==
    /\ TypeOK
    /\ StoreInv
    /\ TokensIssued
    /\ FamiliesNamed
    /\ \A r \in Request : PeeksHold(r)
    /\ OneHolder
    /\ SomeHolder

\* No token, no rotation, no family at the start.
LEMMA ChainInit == Init => ChainInv
<1> SUFFICES ASSUME Init PROVE ChainInv
  OBVIOUS
<1>1. TypeOK /\ StoreInv
  BY AuthTypeInit
<1>2. \A r \in Request : request[r].pc = "idle"
  BY DEF Init, Idle
<1>3. TokensIssued /\ FamiliesNamed /\ OneHolder /\ SomeHolder
  BY <1>2, TokensAssumption
  DEF Init, TokensIssued, FamiliesNamed, OneHolder, SomeHolder, Issuing
<1>4. QED
  BY <1>1, <1>2, <1>3 DEF ChainInv, PeeksHold

\* A step that leaves the refresh tokens alone and begins or ends no rotation.
LEMMA ChainQuiet ==
  ASSUME ChainInv, TypeOK', StoreInv', UNCHANGED <<tokens, family, ended>>,
         \A q \in Request :
            \/ request'[q] = request[q]
            \/ /\ ~Issuing(q)
               /\ request'[q].pc = "issuing" => request'[q].root = Absent
               /\ PeeksHold(q)'
  PROVE  ChainInv'
<1> USE DEF ChainInv
<1>1. TokensIssued'
  BY DEF TokensIssued
<1>2. FamiliesNamed'
  BY DEF FamiliesNamed, Issuing
<1>3. \A r \in Request : PeeksHold(r)'
  BY DEF PeeksHold
<1>4. OneHolder'
  BY TokensAssumption DEF OneHolder, Issuing, TokensIssued, TypeOK
<1>5. SomeHolder'
  BY DEF SomeHolder, Issuing
<1>6. QED
  BY <1>1, <1>2, <1>3, <1>4, <1>5

\* Consume: the token goes, and its family passes to the rotation or ends.
LEMMA ChainConsume ==
  ASSUME ChainInv, TypeOK', StoreInv', NEW now \in Stamps, NEW r \in Request, Consume(r, now)
  PROVE  ChainInv'
<1> DEFINE t == request[r].token
<1> USE TokensAssumption DEF ChainInv
<1>0. /\ t \in RefreshToken
      /\ ~Issuing(r)
      /\ request[r].pc \in {"peeked", "entitled"}
      /\ UNCHANGED <<family, storeVars>>
      /\ now \in Nat /\ now <= clock
  BY RequestShape, StampShape DEF Consume, Issuing
<1>1. CASE tokens[t] = Absent
  <2>1. UNCHANGED <<tokens, ended>> /\ Goto(r, Idle)
    BY <1>1 DEF Consume
  <2>2. \A q \in Request : request'[q] = IF q = r THEN Idle ELSE request[q]
    BY <2>1 DEF Goto, TypeOK
  <2>3. QED
    BY <1>0, <2>1, <2>2, ChainQuiet DEF Idle, PeeksHold
<1>2. CASE tokens[t] # Absent
  <2>0. /\ family[t] \in RefreshToken
        /\ family[family[t]] = family[t]
        /\ tokens[t].subject = request[r].subject
        /\ tokens[t] \in Record
    BY <1>0, <1>2 DEF TokensIssued, FamiliesNamed, PeeksHold, TypeOK
  <2>1. tokens' = [tokens EXCEPT ![t] = Absent]
    BY <1>2 DEF Consume
  <2>2. \A u \in RefreshToken : tokens'[u] = IF u = t THEN Absent ELSE tokens[u]
    BY <2>1 DEF TypeOK
  <2>3. CASE Expired(tokens[t], now)
    <3>1. Expired(tokens[t], clock)
      BY <1>0, <2>0, <2>3 DEF Expired, Record, TypeOK
    <3>2. RunOut({t}) = {family[t]}
      BY <3>1 DEF RunOut
    <3>3. ended' = ended \cup {family[t]} /\ Goto(r, Idle)
      BY <1>2, <2>3, <3>2 DEF Consume
    <3>4. \A q \in Request : request'[q] = IF q = r THEN Idle ELSE request[q]
      BY <3>3 DEF Goto, TypeOK
    <3>5. \A q \in Request : Issuing(q)' => q # r /\ Issuing(q) /\ request'[q] = request[q]
      BY <3>4 DEF Issuing, Idle
    <3>5a. \A q \in Request : Issuing(q) => q # r /\ Issuing(q)' /\ request'[q] = request[q]
      BY <1>0, <3>4 DEF Issuing, Idle
    <3>6. TokensIssued'
      BY <1>0, <2>2 DEF TokensIssued
    <3>7. FamiliesNamed'
      BY <1>0, <2>0, <3>3, <3>5 DEF FamiliesNamed
    <3>8. \A q \in Request : PeeksHold(q)'
      BY <1>0, <2>2, <3>4, RequestShape DEF PeeksHold, Idle
    <3>9. OneHolder'
      BY <1>0, <1>2, <2>2, <3>3, <3>5 DEF OneHolder
    <3>10. SomeHolder'
      <4> SUFFICES ASSUME NEW f \in RefreshToken, family[f] = f, f \notin ended'
                   PROVE  \/ \E u \in RefreshToken : tokens'[u] # Absent /\ family[u] = f
                          \/ \E q \in Request : Issuing(q)' /\ request'[q].root = f
        BY <1>0 DEF SomeHolder
      <4>1. f \notin ended /\ f # family[t]
        BY <3>3
      <4>2. QED
        BY <2>2, <3>5a, <4>1 DEF SomeHolder
    <3>11. QED
      BY <3>6, <3>7, <3>8, <3>9, <3>10
  <2>4. CASE ~Expired(tokens[t], now)
    <3> DEFINE next == [pc |-> "issuing", subject |-> request[r].subject, root |-> family[t]]
    <3>1. ended' = ended /\ Goto(r, next)
      BY <1>2, <2>0, <2>4 DEF Consume
    <3>2. \A q \in Request : request'[q] = IF q = r THEN next ELSE request[q]
      BY <3>1 DEF Goto, TypeOK
    <3>3. Issuing(r)' /\ request'[r].root = family[t]
      BY <3>2 DEF Issuing
    <3>4. \A q \in Request : q # r => (Issuing(q)' <=> Issuing(q)) /\ request'[q] = request[q]
      BY <3>2 DEF Issuing
    <3> HIDE DEF next
    <3>6. TokensIssued'
      BY <1>0, <2>2 DEF TokensIssued
    <3>7. FamiliesNamed'
      BY <1>0, <2>0, <3>1, <3>3, <3>4 DEF FamiliesNamed
    <3>8. \A q \in Request : PeeksHold(q)'
      <4> SUFFICES ASSUME NEW q \in Request PROVE PeeksHold(q)'
        OBVIOUS
      <4>1. CASE q = r
        BY <3>3, <4>1 DEF PeeksHold, Issuing
      <4>2. CASE q # r
        BY <1>0, <2>2, <3>4, <4>2, RequestShape DEF PeeksHold
      <4>3. QED
        BY <4>1, <4>2
    <3>9. OneHolder'
      BY <1>0, <1>2, <2>0, <2>2, <3>1, <3>3, <3>4 DEF OneHolder
    <3>10. SomeHolder'
      <4> SUFFICES ASSUME NEW f \in RefreshToken, family[f] = f, f \notin ended
                   PROVE  \/ \E u \in RefreshToken : tokens'[u] # Absent /\ family[u] = f
                          \/ \E q \in Request : Issuing(q)' /\ request'[q].root = f
        BY <1>0, <3>1 DEF SomeHolder
      <4>1. CASE f = family[t]
        BY <3>3, <4>1
      <4>2. CASE f # family[t]
        BY <1>0, <2>2, <3>4, <4>2 DEF SomeHolder
      <4>3. QED
        BY <4>1, <4>2
    <3>11. QED
      BY <3>6, <3>7, <3>8, <3>9, <3>10
  <2>5. QED
    BY <2>3, <2>4
<1>3. QED
  BY <1>1, <1>2

\* issueAuthTokens: the rotation's family passes to the new token, or the new token
\* begins a family of its own.
LEMMA ChainIssue ==
  ASSUME ChainInv, TypeOK', StoreInv', NEW now \in Stamps, NEW r \in Request,
         NEW t \in RefreshToken, IssueAuthTokens(r, t, now)
  PROVE  ChainInv'
<1> DEFINE f == IF request[r].root = Absent THEN t ELSE request[r].root
           record == [subject |-> request[r].subject, expiresAt |-> now + RefreshTTL]
<1> USE TokensAssumption DEF ChainInv
<1>0. /\ Issuing(r)
      /\ request[r].root \in RefreshToken \cup {Absent}
      /\ family[t] = Absent
      /\ tokens[t] = Absent
      /\ ended' = ended
  BY RequestShape DEF IssueAuthTokens, Issuing, TokensIssued
<1>1. \A u \in RefreshToken : tokens'[u] = IF u = t THEN record ELSE tokens[u]
  BY DEF IssueAuthTokens, TypeOK
<1>2. \A u \in RefreshToken : family'[u] = IF u = t THEN f ELSE family[u]
  BY DEF IssueAuthTokens, TypeOK
<1>3. \A q \in Request : request'[q] = IF q = r THEN Idle ELSE request[q]
  BY DEF IssueAuthTokens, Goto, TypeOK
<1>4. record # Absent
  BY RequestShape, StampShape DEF IssueAuthTokens
<1>5. \A q \in Request : Issuing(q)' => q # r /\ Issuing(q) /\ request'[q] = request[q]
  BY <1>3 DEF Issuing, Idle
<1>6. \A q \in Request : Issuing(q) /\ q # r => Issuing(q)' /\ request'[q] = request[q]
  BY <1>3 DEF Issuing
\* t is not the name of a family yet.
<1>7. /\ \A u \in RefreshToken : family[u] # t
      /\ \A q \in Request : Issuing(q) => request[q].root # t
      /\ t \notin ended
  BY <1>0 DEF FamiliesNamed
<1>8. f \in RefreshToken /\ (f = t \/ (family[f] = f /\ f # t))
  BY <1>0, <1>7 DEF FamiliesNamed
<1>9. /\ \A u \in RefreshToken : tokens[u] # Absent => family[u] # f
      /\ \A q \in Request : Issuing(q) /\ q # r => request[q].root # f
      /\ f \notin ended
  BY <1>0, <1>7 DEF OneHolder
<1> HIDE DEF f, record
<1>10. TokensIssued'
  BY <1>1, <1>2, <1>8 DEF TokensIssued
<1>11. FamiliesNamed'
  <2>1. ASSUME NEW u \in RefreshToken, family'[u] # Absent
        PROVE  family'[family'[u]] = family'[u]
    <3>1. CASE u = t
      BY <1>2, <1>8, <3>1
    <3>2. CASE u # t
      <4>1. family'[u] = family[u] /\ family[u] \in RefreshToken /\ family[u] # t
        BY <1>2, <1>7, <2>1, <3>2 DEF TypeOK
      <4>2. QED
        BY <1>2, <2>1, <4>1 DEF FamiliesNamed
    <3>3. QED
      BY <3>1, <3>2
  <2>2. ASSUME NEW q \in Request, Issuing(q)', request'[q].root # Absent
        PROVE  family'[request'[q].root] = request'[q].root
    <3>1. Issuing(q) /\ request'[q] = request[q] /\ request[q].root \in RefreshToken
      BY <1>5, <2>2, RequestShape DEF Issuing
    <3>2. QED
      BY <1>2, <1>7, <2>2, <3>1 DEF FamiliesNamed
  <2>3. \A g \in ended' : family'[g] = g
    BY <1>0, <1>2, <1>7 DEF FamiliesNamed, TypeOK
  <2>4. QED
    BY <2>1, <2>2, <2>3 DEF FamiliesNamed
<1>12. \A q \in Request : PeeksHold(q)'
  <2> SUFFICES ASSUME NEW q \in Request, request'[q].pc \in {"peeked", "entitled"}
               PROVE  /\ family'[request'[q].token] # Absent
                      /\ tokens'[request'[q].token] # Absent =>
                            tokens'[request'[q].token].subject = request'[q].subject
    BY DEF PeeksHold
  <2>1. q # r /\ request'[q] = request[q]
    BY <1>3 DEF Idle
  <2>2. request[q].token \in RefreshToken /\ family[request[q].token] # Absent
    BY <2>1, RequestShape DEF PeeksHold
  <2>3. request[q].token # t
    BY <1>0, <2>2
  <2>4. QED
    BY <1>1, <1>2, <2>1, <2>2, <2>3 DEF PeeksHold
<1>13. OneHolder'
  BY <1>0, <1>1, <1>2, <1>5, <1>9, <1>4 DEF OneHolder, TokensIssued
<1>14. SomeHolder'
  <2> SUFFICES ASSUME NEW g \in RefreshToken, family'[g] = g, g \notin ended
               PROVE  \/ \E u \in RefreshToken : tokens'[u] # Absent /\ family'[u] = g
                      \/ \E q \in Request : Issuing(q)' /\ request'[q].root = g
    BY <1>0 DEF SomeHolder
  <2>1. CASE g = f
    BY <1>1, <1>2, <1>4, <2>1
  <2>2. CASE g # f
    <3>1. g # t /\ family[g] = g
      BY <1>2, <1>8, <2>2
    <3>2. CASE \E u \in RefreshToken : tokens[u] # Absent /\ family[u] = g
      BY <1>0, <1>1, <1>2, <3>2
    <3>3. CASE \E q \in Request : Issuing(q) /\ request[q].root = g
      <4>1. PICK q \in Request : Issuing(q) /\ request[q].root = g
        BY <3>3
      <4>2. q # r
        BY <2>2, <4>1 DEF f
      <4>3. QED
        BY <1>6, <4>1, <4>2
    <3>4. QED
      BY <3>1, <3>2, <3>3 DEF SomeHolder
  <2>3. QED
    BY <2>1, <2>2
<1>15. QED
  BY <1>10, <1>11, <1>12, <1>13, <1>14

\* The 500: the family of the rotation ends.
LEMMA ChainIssueFails ==
  ASSUME ChainInv, TypeOK', StoreInv', NEW r \in Request, IssueFails(r)
  PROVE  ChainInv'
<1> USE TokensAssumption DEF ChainInv
<1>0. /\ Issuing(r)
      /\ UNCHANGED <<tokens, family>>
      /\ ended' = ended \cup ({request[r].root} \ {Absent})
      /\ request[r].root \in RefreshToken \cup {Absent}
  BY RequestShape DEF IssueFails, Issuing
<1>1. \A q \in Request : request'[q] = IF q = r THEN Idle ELSE request[q]
  BY DEF IssueFails, Goto, TypeOK
<1>2. \A q \in Request : Issuing(q)' <=> q # r /\ Issuing(q)
  BY <1>1 DEF Issuing, Idle
<1>3. TokensIssued'
  BY <1>0 DEF TokensIssued
<1>4. FamiliesNamed'
  BY <1>0, <1>1, <1>2 DEF FamiliesNamed
<1>5. \A q \in Request : PeeksHold(q)'
  BY <1>0, <1>1 DEF PeeksHold, Idle
<1>6. OneHolder'
  BY <1>0, <1>1, <1>2 DEF OneHolder
<1>7. SomeHolder'
  <2> SUFFICES ASSUME NEW g \in RefreshToken, family[g] = g, g \notin ended'
               PROVE  \/ \E u \in RefreshToken : tokens[u] # Absent /\ family[u] = g
                      \/ \E q \in Request : Issuing(q)' /\ request'[q].root = g
    BY <1>0 DEF SomeHolder
  <2>1. g \notin ended /\ g # request[r].root
    BY <1>0
  <2>2. QED
    BY <1>1, <1>2, <2>1 DEF SomeHolder
<1>8. QED
  BY <1>3, <1>4, <1>5, <1>6, <1>7

\* The sweep: the family of every token it deletes has run out, for the stamp it
\* compares with is not ahead of the time.
LEMMA ChainCleanup ==
  ASSUME ChainInv, TypeOK', StoreInv', NEW now \in Stamps, CleanupTokens(now)
  PROVE  ChainInv'
<1> DEFINE gone == {t \in RefreshToken : tokens[t] # Absent /\ Expired(tokens[t], now)}
<1> USE TokensAssumption DEF ChainInv
<1>0. UNCHANGED <<request, family>> /\ \A q \in Request : Issuing(q)' <=> Issuing(q)
  BY DEF CleanupTokens, Issuing
<1>1. \A u \in RefreshToken : tokens'[u] = IF u \in gone THEN Absent ELSE tokens[u]
  BY DEF CleanupTokens
<1>2. \A u \in gone : u \in RefreshToken /\ tokens[u] # Absent /\ Expired(tokens[u], clock)
  BY StampShape DEF Expired, Record, TypeOK
<1>3. ended' = ended \cup {family[u] : u \in gone}
  BY <1>2 DEF CleanupTokens, RunOut
<1> HIDE DEF gone
<1>4. TokensIssued'
  BY <1>0, <1>1 DEF TokensIssued
<1>5. FamiliesNamed'
  BY <1>0, <1>2, <1>3 DEF FamiliesNamed, TokensIssued
<1>6. \A q \in Request : PeeksHold(q)'
  BY <1>0, <1>1, RequestShape DEF PeeksHold
<1>7. OneHolder'
  <2>1. \A t, u \in RefreshToken :
            tokens'[t] # Absent /\ tokens'[u] # Absent /\ family'[t] = family'[u] => t = u
    BY <1>0, <1>1 DEF OneHolder
  <2>2. \A r, q \in Request :
            Issuing(r)' /\ Issuing(q)' /\ request'[r].root # Absent
               /\ request'[r].root = request'[q].root => r = q
    BY <1>0 DEF OneHolder
  <2>3. \A t \in RefreshToken, r \in Request :
            tokens'[t] # Absent /\ Issuing(r)' => request'[r].root # family'[t]
    BY <1>0, <1>1 DEF OneHolder
  <2>4. \A t \in RefreshToken : tokens'[t] # Absent => family'[t] \notin ended'
    BY <1>0, <1>1, <1>2, <1>3 DEF OneHolder
  <2>5. \A r \in Request : Issuing(r)' => request'[r].root \notin ended'
    BY <1>0, <1>2, <1>3 DEF OneHolder
  <2>6. QED
    BY <2>1, <2>2, <2>3, <2>4, <2>5 DEF OneHolder
<1>8. SomeHolder'
  BY <1>0, <1>1, <1>3 DEF SomeHolder
<1>9. QED
  BY <1>4, <1>5, <1>6, <1>7, <1>8

\* Every step of every endpoint, and the sweep.
LEMMA ChainStep == ChainInv /\ [Next]_authVars => ChainInv'
<1> SUFFICES ASSUME ChainInv, [Next]_authVars
             PROVE  ChainInv'
  OBVIOUS
<1>0. TypeOK /\ StoreInv /\ TypeOK' /\ StoreInv'
  BY AuthTypeStep DEF ChainInv
<1>1. CASE Tick \/ EntitlementChanges \/ UNCHANGED authVars
  BY <1>0, <1>1, ChainQuiet DEF Tick, EntitlementChanges, authVars
<1>2. ASSUME NEW r \in Request, NEW k \in Key, Exchange(r, k)
      PROVE  ChainInv'
  <2>1. /\ ~Issuing(r)
        /\ request'[r] = [pc |-> "issuing", subject |-> Lookup(k).subject, root |-> Absent]
        /\ \A q \in Request : q # r => request'[q] = request[q]
    BY <1>0, <1>2 DEF Exchange, Goto, Issuing, Idle, TypeOK
  <2>2. QED
    BY <1>0, <1>2, <2>1, ChainQuiet DEF Exchange, PeeksHold
<1>3. ASSUME NEW r \in Request, NEW s \in Subject, LoginKeysLookup(r, s)
      PROVE  ChainInv'
  <2>1. ~Issuing(r) /\ request'[r].pc = "inviting"
            /\ \A q \in Request : q # r => request'[q] = request[q]
    BY <1>0, <1>3 DEF LoginKeysLookup, Goto, Issuing, Idle, TypeOK
  <2>2. QED
    BY <1>0, <1>3, <2>1, ChainQuiet DEF LoginKeysLookup, PeeksHold
<1>4. ASSUME NEW r \in Request, RefreshLookup(r)
      PROVE  ChainInv'
  <2>1. request[r].pc = "peeked" /\ \A q \in Request : q # r => request'[q] = request[q]
    BY <1>0, <1>4 DEF RefreshLookup, Goto, TypeOK
  <2>2. \/ request'[r] = Idle
        \/ request'[r] = [request[r] EXCEPT !.pc = "entitled"]
    BY <1>0, <1>4 DEF RefreshLookup, Goto, TypeOK
  <2>3. /\ request'[r].pc # "issuing"
        /\ request'[r].pc \in {"peeked", "entitled"} =>
               request'[r].token = request[r].token /\ request'[r].subject = request[r].subject
    BY <1>0, <2>1, <2>2, RequestShape DEF Idle
  <2>4. PeeksHold(r)'
    BY <1>4, <2>1, <2>3 DEF PeeksHold, ChainInv, RefreshLookup
  <2>5. QED
    BY <1>0, <1>4, <2>1, <2>3, <2>4, ChainQuiet DEF RefreshLookup, Issuing
<1>5. ASSUME NEW r \in Request, IssueLoginKeyFails(r)
      PROVE  ChainInv'
  <2>1. ~Issuing(r) /\ request'[r].pc = "idle"
            /\ \A q \in Request : q # r => request'[q] = request[q]
    BY <1>0, <1>5 DEF IssueLoginKeyFails, Goto, Issuing, Idle, TypeOK
  <2>2. QED
    BY <1>0, <1>5, <2>1, ChainQuiet DEF IssueLoginKeyFails, PeeksHold
<1>6. ASSUME NEW r \in Request, DeviceLookup(r)
      PROVE  ChainInv'
  <2>1. /\ ~Issuing(r)
        /\ \/ request'[r].pc = "idle"
           \/ request'[r].pc = "issuing" /\ request'[r].root = Absent
        /\ \A q \in Request : q # r => request'[q] = request[q]
    BY <1>0, <1>6 DEF DeviceLookup, Goto, Issuing, Idle, TypeOK
  <2>2. QED
    BY <1>0, <1>6, <2>1, ChainQuiet DEF DeviceLookup, PeeksHold
<1>7. ASSUME NEW now \in Stamps, CleanupLoginKeys(now)
      PROVE  ChainInv'
  BY <1>0, <1>7, ChainQuiet DEF CleanupLoginKeys
<1>8. ASSUME NEW now \in Stamps, NEW r \in Request, NEW t \in RefreshToken, Peek(r, t, now)
      PROVE  ChainInv'
  <2>1. /\ ~Issuing(r)
        /\ request'[r] = [pc |-> "peeked", token |-> t, subject |-> tokens[t].subject]
        /\ \A q \in Request : q # r => request'[q] = request[q]
    BY <1>0, <1>8 DEF Peek, Goto, Issuing, Idle, TypeOK
  <2>2. PeeksHold(r)'
    BY <1>8, <2>1 DEF PeeksHold, Peek, ChainInv, TokensIssued
  <2>3. QED
    BY <1>0, <1>8, <2>1, <2>2, ChainQuiet DEF Peek
<1>9. ASSUME NEW now \in Stamps, NEW r \in Request, NEW k \in LoginKey,
             IssueLoginKey(r, k, now)
      PROVE  ChainInv'
  <2>1. ~Issuing(r) /\ request'[r].pc = "idle"
            /\ \A q \in Request : q # r => request'[q] = request[q]
    BY <1>0, <1>9 DEF IssueLoginKey, Goto, Issuing, Idle, TypeOK
  <2>2. QED
    BY <1>0, <1>9, <2>1, ChainQuiet DEF IssueLoginKey, PeeksHold
<1>10. ASSUME NEW now \in Stamps, NEW r \in Request, NEW k \in LoginKey,
              ConsumeLoginKey(r, k, now)
      PROVE  ChainInv'
  <2>1. /\ ~Issuing(r)
        /\ request'[r] = request[r] \/ request'[r].pc = "device"
        /\ \A q \in Request : q # r => request'[q] = request[q]
    BY <1>0, <1>10 DEF ConsumeLoginKey, Goto, Issuing, Idle, TypeOK
  <2>2. QED
    BY <1>0, <1>10, <2>1, ChainQuiet DEF ConsumeLoginKey, PeeksHold
<1>11. QED
  BY <1>0, <1>1, <1>2, <1>3, <1>4, <1>5, <1>6, <1>7, <1>8, <1>9, <1>10, ChainConsume,
     ChainIssue, ChainIssueFails, ChainCleanup DEF Next

\* Stores and requests keep their shape, and refresh tokens their families.
THEOREM ChainInvariant == Spec => []ChainInv
  BY ChainInit, ChainStep, PTL DEF Spec

\* However many requests present the same refresh token, and whatever sweeps and
\* entitlement updates come between Peek, Consume and issueAuthTokens: a login has
\* one live token, or one rotation about to issue it, or it ended by expiry or a 500.
THEOREM OneChainPerLogin == Spec => []LoginIsOneChain
<1>1. ChainInv => LoginIsOneChain
  <2> SUFFICES ASSUME ChainInv, NEW f \in Families
               PROVE  Cardinality(LiveTokens(f)) + Cardinality(Rotations(f))
                         + (IF f \in ended THEN 1 ELSE 0) = 1
    BY DEF LoginIsOneChain
  <2>1. f \in RefreshToken /\ family[f] = f /\ f # Absent
    BY TokensAssumption DEF Families, ChainInv, FamiliesNamed, TypeOK
  <2>2. CASE f \in ended
    <3>1. LiveTokens(f) = {} /\ Rotations(f) = {}
      BY <2>2 DEF LiveTokens, Rotations, ChainInv, OneHolder, Issuing
    <3>2. QED
      BY <2>2, <3>1, FS_EmptySet
  <2>3. CASE \E t \in RefreshToken : tokens[t] # Absent /\ family[t] = f
    <3>1. PICK t \in RefreshToken : tokens[t] # Absent /\ family[t] = f
      BY <2>3
    <3>2. LiveTokens(f) = {t} /\ Rotations(f) = {} /\ f \notin ended
      BY <3>1 DEF LiveTokens, Rotations, ChainInv, OneHolder, Issuing
    <3>3. Cardinality({t}) = 1 /\ Cardinality({}) = 0
      BY FS_EmptySet, FS_Singleton, Zenon
    <3>4. QED
      BY <3>2, <3>3
  <2>4. CASE \E r \in Request : Issuing(r) /\ request[r].root = f
    <3>1. PICK r \in Request : Issuing(r) /\ request[r].root = f
      BY <2>4
    <3>2. LiveTokens(f) = {} /\ f \notin ended
      BY <3>1 DEF LiveTokens, ChainInv, OneHolder
    <3>3. Rotations(f) = {r}
      BY <2>1, <3>1 DEF Rotations, ChainInv, OneHolder, Issuing
    <3>4. Cardinality({r}) = 1 /\ Cardinality({}) = 0
      BY FS_EmptySet, FS_Singleton, Zenon
    <3>5. QED
      BY <3>2, <3>3, <3>4
  <2>5. QED
    BY <2>1, <2>2, <2>3, <2>4 DEF ChainInv, SomeHolder
<1>2. QED
  BY <1>1, ChainInvariant, PTL

-----------------------------------------------------------------------------
\* The account of a login key, and that it counts a finite set although Request
\* need not be one.
KeysInv ==
    \A k \in LoginKey :
        /\ IsFiniteSet(DeviceLogins(k))
        /\ keyIssued[k] = keySpent[k] + Cardinality(DeviceLogins(k))
                             + (IF loginKeys[k] # Absent THEN 1 ELSE 0)

\* No key is issued at the start.
LEMMA KeysInit == Init => KeysInv
<1> SUFFICES ASSUME Init, NEW k \in LoginKey
             PROVE  /\ IsFiniteSet(DeviceLogins(k))
                    /\ keyIssued[k] = keySpent[k] + Cardinality(DeviceLogins(k))
                             + (IF loginKeys[k] # Absent THEN 1 ELSE 0)
  BY DEF KeysInv
<1>1. DeviceLogins(k) = {}
  BY DEF Init, DeviceLogins, Idle
<1>2. QED
  BY <1>1, FS_EmptySet DEF Init

\* A step that neither touches the login keys nor begins or ends a device login.
LEMMA KeysQuiet ==
  ASSUME KeysInv, UNCHANGED <<loginKeys, keyIssued, keySpent>>,
         \A q \in Request : \/ request'[q] = request[q]
                            \/ request[q].pc # "device" /\ request'[q].pc # "device"
  PROVE  KeysInv'
<1>1. \A k \in LoginKey : DeviceLogins(k)' = DeviceLogins(k)
  BY DEF DeviceLogins
<1>2. QED
  BY <1>1 DEF KeysInv

\* Every step keeps the account of every key.
LEMMA KeysStep == TypeOK /\ KeysInv /\ [Next]_authVars => KeysInv'
<1> SUFFICES ASSUME TypeOK, KeysInv, [Next]_authVars
             PROVE  KeysInv'
  OBVIOUS
<1>1. CASE Tick \/ EntitlementChanges \/ UNCHANGED authVars
  BY <1>1, KeysQuiet DEF Tick, EntitlementChanges, authVars
<1>2. ASSUME NEW now \in Stamps, CleanupTokens(now)
      PROVE  KeysInv'
  BY <1>2, KeysQuiet DEF CleanupTokens
<1>3. ASSUME NEW r \in Request,
             \/ \E k \in Key : Exchange(r, k)
             \/ \E s \in Subject : LoginKeysLookup(r, s)
             \/ RefreshLookup(r) \/ IssueFails(r) \/ IssueLoginKeyFails(r)
             \/ \E now \in Stamps :
                   \/ Consume(r, now)
                   \/ \E t \in RefreshToken : Peek(r, t, now) \/ IssueAuthTokens(r, t, now)
      PROVE  KeysInv'
  <2>1. /\ UNCHANGED <<loginKeys, keyIssued, keySpent>>
        /\ \A q \in Request : q # r => request'[q] = request[q]
        /\ request[r].pc # "device"
    BY <1>3 DEF Exchange, LoginKeysLookup, RefreshLookup, IssueFails, IssueLoginKeyFails,
                Consume, Peek, IssueAuthTokens, Goto, Idle, TypeOK
  <2>2. request'[r].pc # "device"
    <3>1. CASE RefreshLookup(r)
      BY <3>1, RequestShape DEF RefreshLookup, Goto, Idle, TypeOK
    <3>2. CASE \E now \in Stamps : Consume(r, now)
      BY <3>2 DEF Consume, Goto, Idle, TypeOK
    <3>3. QED
      BY <1>3, <3>1, <3>2 DEF Exchange, LoginKeysLookup, IssueFails, IssueLoginKeyFails, Peek,
                              IssueAuthTokens, Goto, Idle, TypeOK
  <2>3. QED
    BY <2>1, <2>2, KeysQuiet
<1>4. ASSUME NEW r \in Request, DeviceLookup(r)
      PROVE  KeysInv'
  <2> DEFINE j == request[r].key
  <2>1. j \in LoginKey /\ request[r].pc = "device" /\ UNCHANGED <<loginKeys, keyIssued>>
    BY <1>4, RequestShape DEF DeviceLookup
  <2>2. request'[r].pc # "device" /\ \A q \in Request : q # r => request'[q] = request[q]
    BY <1>4 DEF DeviceLookup, Goto, Idle, TypeOK
  <2>3. \A k \in LoginKey : keySpent'[k] = IF k = j THEN keySpent[k] + 1 ELSE keySpent[k]
    BY <1>4, <2>1 DEF DeviceLookup, TypeOK
  <2> SUFFICES ASSUME NEW k \in LoginKey
               PROVE  /\ IsFiniteSet(DeviceLogins(k)')
                      /\ keyIssued'[k] = keySpent'[k] + Cardinality(DeviceLogins(k)')
                             + (IF loginKeys'[k] # Absent THEN 1 ELSE 0)
    BY DEF KeysInv
  <2>4. /\ IsFiniteSet(DeviceLogins(k)) /\ Cardinality(DeviceLogins(k)) \in Nat
        /\ keyIssued[k] = keySpent[k] + Cardinality(DeviceLogins(k))
                             + (IF loginKeys[k] # Absent THEN 1 ELSE 0)
        /\ keySpent[k] \in Nat
    BY FS_CardinalityType DEF KeysInv, TypeOK
  <2>5. CASE k = j
    <3>1. DeviceLogins(k)' = DeviceLogins(k) \ {r} /\ r \in DeviceLogins(k)
      BY <2>1, <2>2, <2>5 DEF DeviceLogins
    <3>2. IsFiniteSet(DeviceLogins(k)') /\ Cardinality(DeviceLogins(k)') = Cardinality(DeviceLogins(k)) - 1
      BY <2>4, <3>1, FS_RemoveElement
    <3>3. QED
      BY <2>1, <2>3, <2>4, <2>5, <3>2
  <2>6. CASE k # j
    <3>1. DeviceLogins(k)' = DeviceLogins(k)
      BY <2>1, <2>2, <2>6 DEF DeviceLogins
    <3>2. QED
      BY <2>1, <2>3, <2>4, <2>6, <3>1
  <2>7. QED
    BY <2>5, <2>6
<1>5. ASSUME NEW now \in Stamps, CleanupLoginKeys(now)
      PROVE  KeysInv'
  <2> DEFINE gone == {k \in LoginKey : loginKeys[k] # Absent /\ Expired(loginKeys[k], now)}
  <2>1. \A k \in LoginKey : DeviceLogins(k)' = DeviceLogins(k) /\ keyIssued'[k] = keyIssued[k]
    BY <1>5 DEF CleanupLoginKeys, DeviceLogins
  <2>2. \A k \in gone : k \in LoginKey /\ loginKeys[k] # Absent /\ Expired(loginKeys[k], clock)
    BY TokensAssumption, StampShape DEF Expired, Record, TypeOK
  <2>3. \A k \in LoginKey :
            /\ loginKeys'[k] = IF k \in gone THEN Absent ELSE loginKeys[k]
            /\ keySpent'[k] = IF k \in gone THEN keySpent[k] + 1 ELSE keySpent[k]
    BY <1>5, <2>2 DEF CleanupLoginKeys
  <2> HIDE DEF gone
  <2>4. \A k \in LoginKey : Cardinality(DeviceLogins(k)) \in Nat /\ keySpent[k] \in Nat
    BY FS_CardinalityType DEF KeysInv, TypeOK
  <2>5. QED
    BY <2>1, <2>2, <2>3, <2>4 DEF KeysInv
<1>6. ASSUME NEW now \in Stamps, NEW r \in Request, NEW j \in LoginKey,
             IssueLoginKey(r, j, now)
      PROVE  KeysInv'
  <2>1. \A k \in LoginKey : DeviceLogins(k)' = DeviceLogins(k) /\ keySpent'[k] = keySpent[k]
    BY <1>6 DEF IssueLoginKey, DeviceLogins, Goto, Idle, TypeOK
  <2>2. [subject |-> request[r].subject, expiresAt |-> now + LoginTTL] # Absent
    BY <1>6, TokensAssumption, RequestShape, StampShape DEF IssueLoginKey
  <2>3. \A k \in LoginKey :
            /\ keyIssued'[k] = IF k = j THEN keyIssued[k] + 1 ELSE keyIssued[k]
            /\ k = j => loginKeys[k] = Absent /\ loginKeys'[k] # Absent
            /\ k # j => loginKeys'[k] = loginKeys[k]
    BY <1>6, <2>2 DEF IssueLoginKey, TypeOK
  <2>4. \A k \in LoginKey : Cardinality(DeviceLogins(k)) \in Nat /\ keySpent[k] \in Nat
    BY FS_CardinalityType DEF KeysInv, TypeOK
  <2>5. QED
    BY <2>1, <2>3, <2>4 DEF KeysInv
<1>7. ASSUME NEW now \in Stamps, NEW r \in Request, NEW j \in LoginKey,
             ConsumeLoginKey(r, j, now)
      PROVE  KeysInv'
  <2>1. /\ request[r].pc = "idle" /\ loginKeys[j] # Absent /\ keyIssued' = keyIssued
        /\ \A k \in LoginKey : loginKeys'[k] = IF k = j THEN Absent ELSE loginKeys[k]
    BY <1>7 DEF ConsumeLoginKey, Idle, TypeOK
  <2>2. \A k \in LoginKey : /\ IsFiniteSet(DeviceLogins(k)) /\ Cardinality(DeviceLogins(k)) \in Nat
                            /\ keySpent[k] \in Nat
    BY FS_CardinalityType DEF KeysInv, TypeOK
  <2>3. CASE Expired(loginKeys[j], now)
    <3>1. \A k \in LoginKey :
              /\ DeviceLogins(k)' = DeviceLogins(k)
              /\ keySpent'[k] = IF k = j THEN keySpent[k] + 1 ELSE keySpent[k]
      BY <1>7, <2>3 DEF ConsumeLoginKey, DeviceLogins, TypeOK
    <3>2. QED
      BY <2>1, <2>2, <3>1 DEF KeysInv
  <2>4. CASE ~Expired(loginKeys[j], now)
    <3>1. /\ request'[r].pc = "device" /\ request'[r].key = j /\ keySpent' = keySpent
          /\ \A q \in Request : q # r => request'[q] = request[q]
      BY <1>7, <2>4 DEF ConsumeLoginKey, Goto, TypeOK
    <3>2. \A k \in LoginKey : k # j => DeviceLogins(k)' = DeviceLogins(k)
      BY <2>1, <3>1 DEF DeviceLogins
    <3>3. DeviceLogins(j)' = DeviceLogins(j) \cup {r} /\ r \notin DeviceLogins(j)
      BY <2>1, <3>1 DEF DeviceLogins
    <3>4. /\ IsFiniteSet(DeviceLogins(j)')
          /\ Cardinality(DeviceLogins(j)') = Cardinality(DeviceLogins(j)) + 1
      BY <2>2, <3>3, FS_AddElement
    <3>5. QED
      BY <2>1, <2>2, <3>1, <3>2, <3>4 DEF KeysInv
  <2>5. QED
    BY <2>3, <2>4
<1>8. QED
  BY <1>1, <1>2, <1>3, <1>4, <1>5, <1>6, <1>7 DEF Next

\* Every issue of a login key is good for one login attempt: Consume deletes it before
\* it looks at anything else, Issue never overwrites one, and a sweep spends it only
\* when it has expired; however many device logins and sweeps race.
THEOREM LoginKeysAreGoodForOne == Spec => []LoginKeyGoodForOneAttempt
<1>1. KeysInv => LoginKeyGoodForOneAttempt
  BY DEF KeysInv, LoginKeyGoodForOneAttempt
<1>2. ChainInv => TypeOK
  BY DEF ChainInv
<1>3. QED
  BY <1>1, <1>2, KeysInit, KeysStep, ChainInvariant, PTL DEF Spec
=============================================================================
