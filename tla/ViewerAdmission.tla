-------------------------- MODULE ViewerAdmission --------------------------
(***************************************************************************)
(* The way of a viewer to an agent: /attach looks the agent session up and   *)
(* issues a signaling token, and HandleWebSocket later validates the token,  *)
(* consumes its ID, looks the session up again, upgrades and registers.      *)
(*                                                                           *)
(* GrantReplay has the first two steps of a request; the registry, with      *)
(* whatever its other callers do, is an instance of AgentRegistry on the     *)
(* same clock.  None of the steps holds a lock over the next, so the session *)
(* can be terminated, swept or registered anew between any two.              *)
(*                                                                           *)
(* A token that is used before it was issued does not exist; the one of      *)
(* an agent comes from /connect (AgentHandlers) and is there from its nbf on.*)
(***************************************************************************)
EXTENDS GrantReplay

CONSTANTS
    Subject, Session, MaxSessions, StaleAfter, TombstoneRetention, LockDelay,
    SubjectOf, SessionOf,  \* the sub and session_id claims of each token
    ViewerToken            \* the tokens with the viewer role; the others are agents'

ASSUME ClaimsAssumption ==
    /\ SubjectOf \in [Token -> Subject]
    /\ SessionOf \in [Token -> Session]
    /\ ViewerToken \subseteq Token
    /\ StaleAfter \in Nat
    /\ TombstoneRetention \in Nat
    /\ LockDelay \in Nat

VARIABLES
    items, terminated, wroteAt, killedAt,  \* of the registry
    attaching, \* viewer tokens whose /attach has found the agent
    issued,    \* tokens that were handed out
    door       \* how far a request is after its token was consumed

Registry == INSTANCE AgentRegistry

registryState == <<items, terminated, wroteAt, killedAt>>
admissionVars == <<replayVars, registryState, attaching, issued, door>>

Outside == [pc |-> "outside"]

\* The request consumed token t at the time `since`.
At(label, t, since) == [pc |-> label, token |-> t, since |-> since]

AdmissionInit ==
    /\ Init
    /\ Registry!RegistryInit
    /\ attaching = {}
    /\ issued = Token \ ViewerToken
    /\ door = [r \in Request |-> Outside]

-----------------------------------------------------------------------------
\* AgentRegistry.Lookup with the heartbeat timeout.
Lookup(t, now) ==
    LET seen_at == items[SubjectOf[t]][SessionOf[t]] IN
    seen_at # Absent /\ ~Registry!IsStale(seen_at, now)

\* POST /v1/agents/attach up to the call of issueICE ...
AttachLookup(t, now) ==
    /\ t \in ViewerToken \ (attaching \cup issued)
    /\ clock <= NotBefore[t]
    /\ Lookup(t, now)
    /\ attaching' = attaching \cup {t}
    /\ UNCHANGED <<replayVars, registryState, issued, door>>

\* ... and its 200; where issueICE or the signing fails no token comes of it.
AttachIssue(t) ==
    /\ t \in attaching
    /\ clock = NotBefore[t]
    /\ attaching' = attaching \ {t}
    /\ issued' = issued \cup {t}
    /\ UNCHANGED <<replayVars, registryState, door>>

\* HandleWebSocket, one action for each call it makes.
ValidateToken(r, t) ==
    /\ t \in issued
    /\ Validate(r, t)
    /\ UNCHANGED <<registryState, attaching, issued, door>>

\* Consumed: before it is known whether there is an agent.
ConsumeToken(r, t) ==
    /\ Accept(r, t)
    /\ door' = [door EXCEPT ![r] = At(IF t \in ViewerToken THEN "lookup" ELSE "upgrade", t, clock)]
    /\ UNCHANGED <<registryState, attaching, issued>>

RefuseReplay(r, t) ==
    /\ Refuse(r, t)
    /\ UNCHANGED <<registryState, attaching, issued, door>>

\* Mutant of FindAgent: the token is taken for proof that there is an agent.
FindAgentByToken(r, now) ==
    /\ door[r].pc = "lookup"
    /\ door' = [door EXCEPT ![r].pc = "upgrade"]
    /\ UNCHANGED <<replayVars, registryState, attaching, issued>>

FindAgent(r, now) ==
    /\ door[r].pc = "lookup"
    /\ Lookup(door[r].token, now)
    /\ door' = [door EXCEPT ![r].pc = "upgrade"]
    /\ UNCHANGED <<replayVars, registryState, attaching, issued>>

\* The 404; the token is gone with it.
NoAgent(r, now) ==
    /\ door[r].pc = "lookup"
    /\ ~Lookup(door[r].token, now)
    /\ door' = [door EXCEPT ![r].pc = "refused"]
    /\ UNCHANGED <<replayVars, registryState, attaching, issued>>

\* Upgrade succeeds and the peer is registered with the hub, or it fails.
Upgrade(r) ==
    /\ door[r].pc = "upgrade"
    /\ \E result \in {"open", "failed"} : door' = [door EXCEPT ![r].pc = result]
    /\ UNCHANGED <<replayVars, registryState, attaching, issued>>

\* The other endpoints (AgentHandlers) and the sweep.
RegistryChanges ==
    /\ \E now \in Registry!Stamps :
        \/ Registry!Cleanup(now)
        \/ \E s \in Subject :
            \/ Registry!TerminateAll(s, now)
            \/ \E x \in Session :
                \/ Registry!UpsertLimited(s, x, now)
                \/ Registry!Touch(s, x, now)
                \/ Registry!Remove(s, x)
    /\ UNCHANGED <<replayVars, attaching, issued, door>>

TimePasses ==
    /\ Tick
    /\ UNCHANGED <<registryState, attaching, issued, door>>

Step(r) ==
    \/ \E t \in Token : ValidateToken(r, t) \/ ConsumeToken(r, t) \/ RefuseReplay(r, t)
    \/ \E now \in Registry!Stamps : FindAgent(r, now) \/ NoAgent(r, now)
    \/ Upgrade(r)

AdmissionNext ==
    \/ TimePasses
    \/ RegistryChanges
    \/ \E t \in Token, now \in Registry!Stamps : AttachLookup(t, now)
    \/ \E t \in Token : AttachIssue(t)
    \/ \E r \in Request : Step(r)

AdmissionSpec == AdmissionInit /\ [][AdmissionNext]_admissionVars

-----------------------------------------------------------------------------
\* The shape of what is added to store and registry.
AdmissionTypeOK ==
    /\ TypeOK
    /\ attaching \subseteq ViewerToken
    /\ issued \subseteq Token
    /\ door \in [Request -> {Outside} \cup
            [pc : {"lookup", "upgrade", "open", "refused", "failed"}, token : Token, since : Nat]]

OpenStep ==
    \A r \in Request :
        LET t == door'[r].token
            killed == killedAt[SubjectOf[t]][SessionOf[t]]
        IN  door[r].pc = "upgrade" /\ door'[r].pc = "open" /\ t \in ViewerToken /\ killed # Absent =>
                \/ door'[r].since <= killed
                \/ clock - killed + LockDelay > TombstoneRetention

\* A token of a terminated session opens nothing, whether it was handed out before the
\* termination or by an /attach that had found the agent by then:
\* a viewer that comes in later than the termination was already at the door when
\* it happened, unless the tombstone has expired and the id was registered anew.
TerminatedAdmitsNoViewer == [][OpenStep]_admissionVars

TurnedAwayStep ==
    \A r \in Request :
        door[r].pc = "lookup" /\ door'[r].pc = "refused" =>
            ~Registry!RecentlySeen(SubjectOf[door[r].token], SessionOf[door[r].token])

\* A viewer with a good token is not turned away, at the price of the token, from an
\* agent heard of within the heartbeat timeout (less the lock delay).
LiveAgentIsReachable == [][TurnedAwayStep]_admissionVars
=============================================================================
