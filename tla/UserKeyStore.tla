---------------------------- MODULE UserKeyStore ----------------------------
(***************************************************************************)
(* controlplane.UserKeyStore: the entitlement of each user key, with two    *)
(* secondary indexes, by subject and by original transaction id.            *)
(*                                                                          *)
(* Every method is one critical section under s.mu.  A write moves up to    *)
(* two index entries, and the uniqueness checks read the indexes and never  *)
(* the items: an index entry left behind or missing would refuse a good     *)
(* write, answer for the wrong key, or let two keys share a subject.        *)
(*                                                                          *)
(* Data abstraction: Usable stands for Active, MaxSessions, ProductID and   *)
(* ExpiresAt together, what isEntitlementUsable answers.  Keys are compared *)
(* by hash, so a key is its hash.  Input NormalizeEntitlement refuses       *)
(* changes nothing and is no step.                                          *)
(***************************************************************************)

CONSTANTS
    Key,      \* user keys
    Subject,  \* account identifiers
    Tx,       \* original transaction ids
    NoTx,     \* the empty transaction id
    Absent    \* "no entry in the map"

ASSUME StoreAssumption ==
    /\ NoTx \notin Tx
    /\ Absent \notin Key
    /\ Absent \notin [subject : Subject, tx : Tx \cup {NoTx}, usable : BOOLEAN]

VARIABLES
    items,          \* key -> entitlement, or Absent
    subjectToID,    \* subject -> key, or Absent
    originalTxToID  \* transaction id -> key, or Absent

storeVars == <<items, subjectToID, originalTxToID>>

UserEntitlement == [subject : Subject, tx : Tx \cup {NoTx}, usable : BOOLEAN]

StoreInit ==
    /\ items = [k \in Key |-> Absent]
    /\ subjectToID = [s \in Subject |-> Absent]
    /\ originalTxToID = [t \in Tx |-> Absent]

-----------------------------------------------------------------------------
\* Mutant of Conflict: only the transaction id is checked.
ConflictInTx(k, e) == e.tx # NoTx /\ originalTxToID[e.tx] \notin {Absent, k}

\* "duplicate subject" and "duplicate original transaction id".
Conflict(k, e) ==
    \/ subjectToID[e.subject] \notin {Absent, k}
    \/ e.tx # NoTx /\ originalTxToID[e.tx] \notin {Absent, k}

\* Mutant of SubjectsKept: the entry of the old subject stays.
SubjectsAllKept(k, e) == subjectToID

\* The index entries of the key's old entitlement go where they differ ...
SubjectsKept(k, e) ==
    [s \in Subject |-> IF items[k] # Absent /\ items[k].subject = s /\ s # e.subject
                       THEN Absent ELSE subjectToID[s]]

TxKept(k, e) ==
    [t \in Tx |-> IF items[k] # Absent /\ items[k].tx = t /\ t # e.tx
                  THEN Absent ELSE originalTxToID[t]]

\* ... and those of the new one come.
upsertLocked(k, e) ==
    /\ ~Conflict(k, e)
    /\ items' = [items EXCEPT ![k] = e]
    /\ subjectToID' = [SubjectsKept(k, e) EXCEPT ![e.subject] = k]
    /\ originalTxToID' = IF e.tx = NoTx THEN TxKept(k, e)
                         ELSE [TxKept(k, e) EXCEPT ![e.tx] = k]

\* Seeding at start-up; "duplicate user key" is refused.
Add(k, e) == items[k] = Absent /\ upsertLocked(k, e)

Upsert(k, e) == upsertLocked(k, e)

\* The entitlement's own transaction id wins over the one looked up: the key may
\* move to another id.
UpsertByOriginalTransactionID(t, e) ==
    /\ originalTxToID[t] # Absent
    /\ upsertLocked(originalTxToID[t], IF e.tx = NoTx THEN [e EXCEPT !.tx = t] ELSE e)

Lookup(k) == items[k]

LookupBySubject(s) ==
    IF subjectToID[s] = Absent THEN Absent ELSE items[subjectToID[s]]

LookupByOriginalTransactionID(t) ==
    IF originalTxToID[t] = Absent THEN Absent ELSE items[originalTxToID[t]]

StoreNext ==
    \E e \in UserEntitlement :
        \/ \E k \in Key : Add(k, e) \/ Upsert(k, e)
        \/ \E t \in Tx : UpsertByOriginalTransactionID(t, e)

StoreSpec == StoreInit /\ [][StoreNext]_storeVars

-----------------------------------------------------------------------------
\* The shape of the three maps.
StoreTypeOK ==
    /\ items \in [Key -> UserEntitlement \cup {Absent}]
    /\ subjectToID \in [Subject -> Key \cup {Absent}]
    /\ originalTxToID \in [Tx -> Key \cup {Absent}]

\* Both indexes say exactly what the items say, after any sequence of writes: no
\* entry is left behind when a key changes subject or transaction, none is
\* missing, and so no two keys share a subject or a transaction.
IndexesMatchItems ==
    /\ \A s \in Subject, k \in Key :
        subjectToID[s] = k <=> items[k] # Absent /\ items[k].subject = s
    /\ \A t \in Tx, k \in Key :
        originalTxToID[t] = k <=> items[k] # Absent /\ items[k].tx = t

StoreInv == StoreTypeOK /\ IndexesMatchItems

TakeoverStep ==
    \A s \in Subject :
        subjectToID[s] # Absent =>
            \/ subjectToID'[s] = subjectToID[s]
            \/ /\ subjectToID'[s] = Absent
               /\ items'[subjectToID[s]].subject # s

\* A subject never passes from one key to another in one write: its key has to
\* give it up first, by moving to another subject.
NoSubjectTakeover == [][TakeoverStep]_storeVars
=============================================================================
