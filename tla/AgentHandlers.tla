---------------------------- MODULE AgentHandlers ----------------------------
(***************************************************************************)
(* The control plane's agent endpoints over the AgentRegistry:              *)
(* cmd/shellin-control-plane/agent_connect_handlers.go and                  *)
(* agent_registry_handlers.go, and the server's cleanup loop.               *)
(*                                                                          *)
(* net/http runs every request on a goroutine of its own.  /connect is the  *)
(* one handler that holds registry state across a call that can take        *)
(* seconds and fail: it claims a session slot, asks the TURN service for    *)
(* credentials, and gives the slot back if that or the signing of the       *)
(* token fails.  The other handlers make one registry call, so each is one  *)
(* action.  A request that is refused (401, 400, 404, 409, 410) changes     *)
(* nothing and is no step.  /attach, /agents and /status only read.         *)
(***************************************************************************)
EXTENDS AgentRegistry

CONSTANT Handler  \* BOUND: the /connect requests that can be in flight at once

VARIABLES
    connect,    \* the /connect request each handler goroutine is serving
    confirmed   \* history: listed sessions that some request answered 200 for
                \* since they were last created

handlerVars == <<items, terminated, clock, wroteAt, killedAt, connect, confirmed>>

Idle == [pc |-> "idle"]

Issuing(s, x, created) ==
    [pc |-> "issuing", subject |-> s, session |-> x, created |-> created]

Init ==
    /\ RegistryInit
    /\ connect = [h \in Handler |-> Idle]
    /\ confirmed = {}

\* What is left of the confirmations k once this step's items are in place.
StillListed(k) == {p \in k : items'[p[1]][p[2]] # Absent}

-----------------------------------------------------------------------------
\* POST /v1/agents/connect up to the call of issueICE.
ConnectClaim(h, s, x, now) ==
    /\ connect[h] = Idle
    /\ UpsertLimited(s, x, now)
    /\ connect' = [connect EXCEPT ![h] = Issuing(s, x, items[s][x] = Absent)]
    /\ UNCHANGED confirmed

\* ... its 200.  Whether the session is still listed is not looked at again.
ConnectSucceed(h) ==
    /\ connect[h] # Idle
    /\ connect' = [connect EXCEPT ![h] = Idle]
    /\ UNCHANGED registryVars
    /\ confirmed' = StillListed(confirmed \cup {<<connect[h].subject, connect[h].session>>})

\* Mutant of ConnectFail: an early return skips the roll-back.
ConnectFailKeepsSlot(h) ==
    /\ connect[h] # Idle
    /\ connect' = [connect EXCEPT ![h] = Idle]
    /\ UNCHANGED <<items, terminated, clock, wroteAt, killedAt, confirmed>>

\* ... its 502 (issueICE) or 500 (issueSignedToken).  The same roll-back follows
\* both, and nothing changes between the two calls.
ConnectFail(h) ==
    /\ connect[h] # Idle
    /\ connect' = [connect EXCEPT ![h] = Idle]
    /\ LET s == connect[h].subject
           x == connect[h].session
       IN  IF connect[h].created /\ items[s][x] # Absent
           THEN Remove(s, x)
           ELSE UNCHANGED registryVars
    /\ confirmed' = StillListed(confirmed)

\* POST /v1/agents/register
HandleRegister(s, x, now) ==
    /\ UpsertLimited(s, x, now)
    /\ confirmed' = StillListed(confirmed \cup {<<s, x>>})
    /\ UNCHANGED connect

\* POST /v1/agents/heartbeat
HandleHeartbeat(s, x, now) ==
    /\ Touch(s, x, now)
    /\ UNCHANGED <<connect, confirmed>>

\* POST /v1/agents/unregister
HandleUnregister(s, x) ==
    /\ Remove(s, x)
    /\ confirmed' = StillListed(confirmed)
    /\ UNCHANGED connect

\* POST /v1/agents/terminate-all
HandleTerminateAll(s, now) ==
    /\ TerminateAll(s, now)
    /\ confirmed' = StillListed(confirmed)
    /\ UNCHANGED connect

\* startCleanupLoop: the registry's part of one tick.
CleanupLoop(now) ==
    /\ Cleanup(now)
    /\ confirmed' = StillListed(confirmed)
    /\ UNCHANGED connect

TimePasses == Tick /\ UNCHANGED <<connect, confirmed>>

Next ==
    \/ TimePasses
    \/ \E h \in Handler : ConnectSucceed(h) \/ ConnectFail(h)
    \/ \E now \in Stamps :
        \/ CleanupLoop(now)
        \/ \E s \in Subject :
            \/ HandleTerminateAll(s, now)
            \/ \E x \in Session :
                \/ \E h \in Handler : ConnectClaim(h, s, x, now)
                \/ HandleRegister(s, x, now)
                \/ HandleHeartbeat(s, x, now)
                \/ HandleUnregister(s, x)

Spec == Init /\ [][Next]_handlerVars

-----------------------------------------------------------------------------
ConnectRequest ==
    {Idle} \cup {Issuing(s, x, c) : s \in Subject, x \in Session, c \in BOOLEAN}

\* The shape of the handlers' state.
TypeOK ==
    /\ RegistryTypeOK
    /\ connect \in [Handler -> ConnectRequest]
    /\ confirmed \subseteq Subject \X Session

\* No interleaving of connects, registrations and roll-backs lists more sessions
\* for a subject than its entitlement allows.
SessionLimit ==
    \A s \in Subject : Cardinality(SubjectItems(s)) <= MaxSessions[s]

\* h has claimed the slot of the session and has not answered yet.
HoldsClaim(h, s, x) == connect[h] = Issuing(s, x, TRUE)

\* No slot leaks: a listed session was either answered for, or belongs to a
\* connect that is still in flight and will give it back if it fails.
NoLeakedSlot ==
    \A s \in Subject, x \in Session :
        items[s][x] # Absent /\ <<s, x>> \notin confirmed =>
            \E h \in Handler : HoldsClaim(h, s, x)
=============================================================================
