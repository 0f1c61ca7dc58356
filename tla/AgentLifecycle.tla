--------------------------- MODULE AgentLifecycle ---------------------------
(***************************************************************************)
(* One `shellin` process from start to exit against the control plane:       *)
(* runInteractiveSession with its two goroutines, the registry heartbeat and *)
(* the WebRTC bridge, as clients of AgentHandlers.  The other sessions of    *)
(* the account are arbitrary clients of the same endpoints.                  *)
(*                                                                           *)
(* All three threads write the listing of the one session: the bridge by     *)
(* /connect whenever it (re)connects, the heartbeat by /heartbeat and        *)
(* /register, the main goroutine by /register and /unregister.               *)
(*                                                                           *)
(* Network: a request takes effect while its client waits for it, or never   *)
(* (it, or its refusal, is lost); the answer to one that took effect can be  *)
(* lost too.  A /connect handler may outlive the client that timed out.      *)
(* What the bridge does with a connection is in AgentBridge, the renewal of  *)
(* tokens in AuthRecovery: here an authorisation either works or is beyond   *)
(* recovery.                                                                 *)
(***************************************************************************)
EXTENDS AgentHandlers

CONSTANTS
    Owner,  \* the subject the process is authorised for
    Me,     \* its session id
    None    \* no handler

ASSUME ProcessAssumption == Owner \in Subject /\ Me \in Session /\ None \notin Handler

VARIABLES
    shell,        \* how far runInteractiveSession is
    heartbeat,    \* agentRegistryHeartbeat.run
    bridge,       \* webrtcAgentBridge.run
    serving,      \* the handler the bridge waits for, or None
    unregistered  \* history: unregistered, and no /connect since

processVars == <<shell, heartbeat, bridge, serving, unregistered>>
lifecycleVars == <<handlerVars, processVars>>

LifecycleInit ==
    /\ Init
    /\ shell = "preflight"
    /\ heartbeat = "off"
    /\ bridge = "off"
    /\ serving = None
    /\ unregistered = FALSE

-----------------------------------------------------------------------------
\* runInteractiveSession

\* ListBySubject, as /v1/status counts it.
ActiveSessions == {x \in SubjectItems(Owner) : ~IsStale(items[Owner][x], clock)}

\* validateControlPlanePreflightStatus passes: shell and bridge start.
Preflight ==
    /\ shell = "preflight"
    /\ Cardinality(ActiveSessions) < MaxSessions[Owner]
    /\ shell' = "waiting"
    /\ bridge' = "loop"
    /\ UNCHANGED <<handlerVars, heartbeat, serving, unregistered>>

\* os.Exit and the end of main: goroutines go without a word, nothing is deferred.
Exit ==
    /\ shell' = "exited"
    /\ heartbeat' = "off"
    /\ bridge' = "off"
    /\ serving' = None

\* fatalStartupError: refused, not authorised, or not connected in time.
GiveUp ==
    /\ shell \in {"preflight", "waiting"}
    /\ Exit
    /\ UNCHANGED <<handlerVars, unregistered>>

\* Connected() is what waitForBridgeConnected polls.
BridgeConnected ==
    /\ shell = "waiting"
    /\ bridge \in {"live", "recover"}
    /\ shell' = "register"
    /\ UNCHANGED <<handlerVars, heartbeat, bridge, serving, unregistered>>

\* agentRegistryHeartbeat.Start registers; unless its answer is lost the goroutine runs.
RegisterListing(now) ==
    /\ shell = "register"
    /\ HandleRegister(Owner, Me, now)
    /\ shell' = "running"
    /\ heartbeat' \in {"idle", "off"}
    /\ UNCHANGED <<bridge, serving, unregistered>>

\* ... or fails, for whatever reason, the 410 of a terminated session included: a
\* warning, and the session goes on without a heartbeat.
RegisterFails ==
    /\ shell = "register"
    /\ shell' = "running"
    /\ UNCHANGED <<handlerVars, heartbeat, bridge, serving, unregistered>>

\* The shell process ended by itself or by runtimeFatal.  fatalCLIError leaves
\* without the deferred calls; otherwise Stop comes first, then Close.
ShellEnds ==
    /\ shell = "running"
    /\ IF heartbeat = "fatal"
       THEN Exit
       ELSE /\ shell' = IF heartbeat = "off" THEN "closing" ELSE "stopping"
            /\ UNCHANGED <<heartbeat, bridge, serving>>
    /\ UNCHANGED <<handlerVars, unregistered>>

UnregisterListing ==
    IF items[Owner][Me] = Absent THEN UNCHANGED handlerVars ELSE HandleUnregister(Owner, Me)

\* Mutant of Unregister: the heartbeat goroutine is not waited for.
UnregisterAtOnce ==
    /\ shell = "stopping"
    /\ UnregisterListing
    /\ shell' = "closing"
    /\ unregistered' = TRUE
    /\ UNCHANGED <<heartbeat, bridge, serving>>

\* The rest of Stop, once the goroutine is gone ...
Unregister ==
    /\ shell = "stopping"
    /\ heartbeat \in {"ended", "fatal"}
    /\ UnregisterListing
    /\ shell' = "closing"
    /\ unregistered' = TRUE
    /\ UNCHANGED <<heartbeat, bridge, serving>>

\* ... and if the request fails.
UnregisterFails ==
    /\ shell = "stopping"
    /\ heartbeat \in {"ended", "fatal"}
    /\ shell' = "closing"
    /\ UNCHANGED <<handlerVars, heartbeat, bridge, serving, unregistered>>

\* A signal, a crash, a power failure.
Crash ==
    /\ shell \in {"register", "running", "stopping", "closing"}
    /\ Exit
    /\ UNCHANGED <<handlerVars, unregistered>>

-----------------------------------------------------------------------------
\* agentRegistryHeartbeat.run, of which Heartbeat's 401s are in AuthRecovery

Heartbeat(now) ==
    /\ heartbeat = "idle"
    /\ HandleHeartbeat(Owner, Me, now)
    /\ UNCHANGED processVars

\* Mutant of HeartbeatMissing: the 404 is an error like another, tried again later.
HeartbeatMissingRetries ==
    /\ heartbeat = "idle"
    /\ items[Owner][Me] = Absent
    /\ UNCHANGED lifecycleVars

\* heartbeatOrRegisterAgentSession: the 404.
HeartbeatMissing ==
    /\ heartbeat = "idle"
    /\ items[Owner][Me] = Absent
    /\ heartbeat' = "register"
    /\ UNCHANGED <<handlerVars, shell, bridge, serving, unregistered>>

Reregister(now) ==
    /\ heartbeat = "register"
    /\ HandleRegister(Owner, Me, now)
    /\ heartbeat' = "idle"
    /\ UNCHANGED <<shell, bridge, serving, unregistered>>

\* Mutant of ReregisterGone: the 410 is tried again.
ReregisterGoneRetries ==
    /\ heartbeat = "register"
    /\ IsTerminated(Owner, Me)
    /\ heartbeat' = "idle"
    /\ UNCHANGED <<handlerVars, shell, bridge, serving, unregistered>>

\* terminatedSessionRuntimeError: onFatal kills the shell.
ReregisterGone ==
    /\ heartbeat = "register"
    /\ IsTerminated(Owner, Me)
    /\ heartbeat' = "fatal"
    /\ UNCHANGED <<handlerVars, shell, bridge, serving, unregistered>>

\* The 409, and every request or refusal that is lost.
ReregisterFails ==
    /\ heartbeat = "register"
    /\ heartbeat' = "idle"
    /\ UNCHANGED <<handlerVars, shell, bridge, serving, unregistered>>

\* The authorisation is beyond recovery.
HeartbeatUnauthorized ==
    /\ heartbeat = "idle"
    /\ heartbeat' = "fatal"
    /\ UNCHANGED <<handlerVars, shell, bridge, serving, unregistered>>

\* close(h.stop), which the select prefers to nothing.
HeartbeatStops ==
    /\ heartbeat = "idle"
    /\ shell = "stopping"
    /\ heartbeat' = "ended"
    /\ UNCHANGED <<handlerVars, shell, bridge, serving, unregistered>>

-----------------------------------------------------------------------------
\* webrtcAgentBridge.run

\* The top of the loop looks at closeCh and sends its request, whatever happens to the
\* shell before that arrives.
BridgeRequests ==
    /\ bridge = "loop"
    /\ shell # "closing"
    /\ bridge' = "request"
    /\ UNCHANGED <<handlerVars, shell, heartbeat, serving, unregistered>>

\* requestConnect is let in: the loop's, or that of recoverLiveSignaling, which does
\* not look at closeCh.
BridgeConnects(h, now) ==
    /\ \/ bridge = "request" /\ bridge' = "await"
       \/ bridge = "live" /\ bridge' = "recover"
    /\ ConnectClaim(h, Owner, Me, now)
    /\ serving' = h
    /\ unregistered' = FALSE
    /\ UNCHANGED <<shell, heartbeat>>

\* The answer of h; setupWebRTCAgent or ReconnectSignaling may fail on a good one.
ConnectAnswered(h) ==
    /\ \/ ConnectSucceed(h) /\ bridge' \in IF serving = h THEN {"live", "loop"} ELSE {bridge}
       \/ ConnectFail(h) /\ bridge' = IF serving = h THEN "loop" ELSE bridge
    /\ serving' = IF serving = h THEN None ELSE serving
    /\ UNCHANGED <<shell, heartbeat, unregistered>>

\* The request is refused or lost, its answer is lost, or httpClient's timeout.
BridgeTimesOut ==
    /\ bridge = "request" \/ serving # None
    /\ bridge' = "loop"
    /\ serving' = None
    /\ UNCHANGED <<handlerVars, shell, heartbeat, unregistered>>

\* reconnectNow, or signaling lost and a /connect refused or lost.
BridgeReconnects ==
    /\ bridge = "live"
    /\ bridge' = "loop"
    /\ UNCHANGED <<handlerVars, shell, heartbeat, serving, unregistered>>

\* closeCh is seen by the loop, a sleep or the event loop; Close returns, main ends.
BridgeCloses ==
    /\ shell = "closing"
    /\ bridge \in {"loop", "live"}
    /\ Exit
    /\ UNCHANGED <<handlerVars, unregistered>>

-----------------------------------------------------------------------------
\* `shellin cleanup` from any device of the account.
CleanupCommand(now) == HandleTerminateAll(Owner, now) /\ UNCHANGED processVars

\* The minute ticker and the clock of the server.
Sweep == \E now \in Stamps : CleanupLoop(now) /\ UNCHANGED processVars
TimeGoesOn == TimePasses /\ UNCHANGED processVars

OtherSession(x, now) ==
    /\ \/ \E h \in Handler : ConnectClaim(h, Owner, x, now)
       \/ HandleRegister(Owner, x, now)
       \/ HandleHeartbeat(Owner, x, now)
       \/ HandleUnregister(Owner, x)
    /\ UNCHANGED processVars

ServerNext ==
    \/ TimeGoesOn
    \/ Sweep
    \/ \E h \in Handler : ConnectAnswered(h)
    \/ \E now \in Stamps :
        \/ CleanupCommand(now)
        \/ \E x \in Session \ {Me} : OtherSession(x, now)

MainNext ==
    \/ Preflight \/ GiveUp \/ BridgeConnected
    \/ (\E now \in Stamps : RegisterListing(now)) \/ RegisterFails
    \/ ShellEnds \/ Unregister \/ UnregisterFails \/ Crash

HeartbeatNext ==
    \/ \E now \in Stamps : Heartbeat(now) \/ Reregister(now)
    \/ HeartbeatMissing \/ ReregisterGone \/ ReregisterFails
    \/ HeartbeatUnauthorized \/ HeartbeatStops

BridgeNext ==
    \/ \E h \in Handler, now \in Stamps : BridgeConnects(h, now)
    \/ BridgeRequests \/ BridgeTimesOut \/ BridgeReconnects \/ BridgeCloses

LifecycleNext == ServerNext \/ MainNext \/ HeartbeatNext \/ BridgeNext

LifecycleSpec == LifecycleInit /\ [][LifecycleNext]_lifecycleVars

\* Time passes, the server sweeps and answers; the ticker of the heartbeat fires, a
\* killed shell ends, a timeout fires.  A request sent again and again gets through
\* in the end, and select does not for ever prefer other cases to a closed channel:
\* strong fairness.  The user never has to end the shell.
LifecycleFairSpec ==
    /\ LifecycleSpec
    /\ WF_lifecycleVars(TimeGoesOn)
    /\ WF_lifecycleVars(Sweep)
    /\ \A h \in Handler : WF_lifecycleVars(ConnectAnswered(h))
    /\ WF_lifecycleVars(HeartbeatMissing)
    /\ SF_lifecycleVars(\E now \in Stamps : Reregister(now))
    /\ SF_lifecycleVars(ReregisterGone)
    /\ SF_lifecycleVars(HeartbeatStops)
    /\ WF_lifecycleVars(ReregisterFails)
    /\ WF_lifecycleVars(heartbeat = "fatal" /\ ShellEnds)
    /\ WF_lifecycleVars(Unregister \/ UnregisterFails)
    /\ WF_lifecycleVars(BridgeTimesOut)
    /\ SF_lifecycleVars(BridgeCloses)

-----------------------------------------------------------------------------
\* The shape of the process.
LifecycleTypeOK ==
    /\ TypeOK
    /\ shell \in {"preflight", "waiting", "register", "running", "stopping", "closing", "exited"}
    /\ heartbeat \in {"off", "idle", "register", "fatal", "ended"}
    /\ bridge \in {"off", "loop", "request", "await", "live", "recover"}
    /\ serving \in Handler \cup {None}
    /\ unregistered \in BOOLEAN

HasHeartbeat == shell = "running" /\ heartbeat # "off"

\* What Stop promises: once the session is unregistered, no heartbeat lists it
\* again.  Only a bridge that reconnects before it is closed can.
UnregisterIsFinal == unregistered => items[Owner][Me] = Absent

\* The session a cleanup terminated shuts down, whatever requests are lost and
\* whatever the bridge does meanwhile; except the one whose first registration
\* failed, which never learns of it.
TerminatedShellEnds ==
    HasHeartbeat /\ IsTerminated(Owner, Me) ~> shell = "exited"

\* A running session that lost its listing, to a sweep, a restored slot limit or the
\* roll-back of a /connect that outlived its client, is listed again.
RunningAgentIsListed ==
    HasHeartbeat ~>
        \/ items[Owner][Me] # Absent
        \/ IsTerminated(Owner, Me)
        \/ LimitReached(Owner, Me)
        \/ shell # "running"

Outlived == \E h \in Handler : connect[h] # Idle /\ connect[h].session = Me

\* However the process ended, its slot is free in the end and stays free, as far as
\* the horizon lets its last stamp expire.
ExitedShellIsForgotten ==
    \A t \in {u \in 0..MaxClock : u + StaleAfter + LockDelay < MaxClock} :
        shell = "exited" /\ ~Outlived /\ clock = t ~> [](items[Owner][Me] = Absent)
=============================================================================
