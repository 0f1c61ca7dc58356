----------------------------- MODULE AgentBridge -----------------------------
(***************************************************************************)
(* The agent's side of a WebRTC session: webrtcAgentBridge.run, the          *)
(* liveWebRTCSession it builds and replaces, the two goroutines of the       *)
(* session's signalPump, the webrtcNegotiator they drive, and the main       *)
(* goroutine that waits for the first connection and closes the bridge.      *)
(*                                                                           *)
(* Everything a peer can do is arbitrary: the control plane answers or       *)
(* refuses (AuthRecovery has how), the socket drops, the viewer sends any    *)
(* signal in any order, the peer connection fails.                           *)
(*                                                                           *)
(* Left out: time (back-off, deadlines), the terminal data itself, and the   *)
(* P2P half of the status line, which nothing reads but the HUD.             *)
(***************************************************************************)
EXTENDS Integers

CONSTANTS
    SignalQueue,  \* capacity of live.signalOut, 128 in the code
    IceCandidate, \* the candidates a viewer may send
    NoPump        \* a nil *signalPump

ASSUME BridgeAssumption == SignalQueue \in Nat \ {0}

VARIABLES
    main,           \* the main goroutine; "exited" is the end of the process
    closeRequested, \* b.closeCh is closed
    run,            \* where webrtcAgentBridge.run is
    connected,      \* b.connected
    lastErr,        \* b.lastErr: "none", "retryable" or "final"
    live,           \* b.liveSession # nil
    session,        \* a peer connection exists, published as b.liveSession or not
    pump,           \* s.signal of the session and its goroutines, or NoPump
    signalOut,      \* how many messages wait in live.signalOut
    signalingLost,  \* the token in live.signalingLost
    reconnectNow,   \* the token in live.reconnectNow
    signalState,    \* the signal half of the status line
    negotiation,    \* pc.SignalingState(): "stable" or "have-local-offer"
    remote,         \* pc.RemoteDescription() # nil
    pending,        \* n.pendingCandidates
    asked,          \* history: this round's offer went into signalOut
    received,       \* history: the candidates received since this round began
    given           \* history: those of them that pion was given

bridgeVars == <<main, closeRequested, run, connected, lastErr, live, session, pump,
                signalOut, signalingLost, reconnectNow, signalState, negotiation,
                remote, pending, asked, received, given>>

candidateVars == <<pending, received, given>>
peerVars == <<negotiation, remote, asked, candidateVars>>
sessionVars == <<session, pump, signalOut, signalingLost, reconnectNow, peerVars>>
mainVars == <<main, closeRequested>>

\* signalPump: its channels, its socket, its flags and where its goroutines are.
PumpState == [stop : BOOLEAN, open : BOOLEAN, suppress : BOOLEAN, reported : BOOLEAN,
              reader : {"read", "offer1", "queue1", "offer2", "queue2", "losing", "exited"},
              writer : {"idle", "losing", "exited"}]

ASSUME NoPumpAssumption == NoPump \notin PumpState

NewPump == [stop |-> FALSE, open |-> TRUE, suppress |-> FALSE, reported |-> FALSE,
            reader |-> "read", writer |-> "idle"]

Init ==
    /\ main = "starting"
    /\ closeRequested = FALSE
    /\ run = "top"
    /\ connected = FALSE
    /\ lastErr = "none"
    /\ live = FALSE
    /\ session = FALSE
    /\ pump = NoPump
    /\ signalOut = 0
    /\ signalingLost = FALSE
    /\ reconnectNow = FALSE
    /\ signalState = "connecting"
    /\ negotiation = "stable"
    /\ remote = FALSE
    /\ pending = {}
    /\ asked = FALSE
    /\ received = {}
    /\ given = {}

-----------------------------------------------------------------------------
(* webrtcAgentBridge.run *)

RunAt(label) == main # "exited" /\ run = label

\* The loop's first select, and the request that follows it.
Top ==
    /\ RunAt("top")
    /\ IF closeRequested
       THEN run' = "shut" /\ UNCHANGED signalState
       ELSE run' = "connect" /\ signalState' = "connecting"
    /\ UNCHANGED <<mainVars, connected, lastErr, live, sessionVars>>

Connected ==
    /\ RunAt("connect")
    /\ run' = "setup"
    /\ UNCHANGED <<mainVars, connected, lastErr, live, signalState, sessionVars>>

\* Both error branches: the request failed, or no session could be set up.  A
\* session whose dial failed closes its peer connection.
NotConnected(err) ==
    /\ RunAt("connect") \/ (RunAt("setup") /\ err = "retryable")
          \/ (RunAt("dial") /\ err = "retryable")
    /\ run' = "backoff"
    /\ connected' = FALSE
    /\ lastErr' = err
    /\ signalState' = "failed"
    /\ session' = FALSE
    /\ UNCHANGED <<mainVars, live, pump, signalOut, signalingLost, reconnectNow, peerVars>>

\* sleepWithClose; a close leaves the loop at once.
BackedOff ==
    /\ RunAt("backoff")
    /\ \/ closeRequested /\ run' = "done"
       \/ run' = "top"
    /\ UNCHANGED <<mainVars, connected, lastErr, live, signalState, sessionVars>>

\* What was received before a round began is not its own.
NoCandidates == pending' = {} /\ received' = {} /\ given' = {}

\* setupWebRTCAgent up to its dial: a new peer connection, channels and negotiator.
Setup ==
    /\ RunAt("setup")
    /\ run' = "dial"
    /\ session' = TRUE
    /\ signalOut' = 0
    /\ signalingLost' = FALSE
    /\ reconnectNow' = FALSE
    /\ signalState' = "normal"
    /\ negotiation' = "stable"
    /\ remote' = FALSE
    /\ asked' = FALSE
    /\ NoCandidates
    /\ UNCHANGED <<mainVars, connected, lastErr, live, pump>>

\* ReconnectSignaling after its dial, the previous pump being gone: the pump is
\* installed, the status line set and the two goroutines started.
Dialled ==
    /\ RunAt("dial") \/ (RunAt("retire") /\ pump = NoPump)
    /\ run' = IF run = "dial" THEN "publish" ELSE "recovered"
    /\ pump' = NewPump
    /\ signalState' = "normal"
    /\ UNCHANGED <<mainVars, connected, lastErr, live, session, signalOut, signalingLost,
                   reconnectNow, peerVars>>

Publish ==
    /\ RunAt("publish")
    /\ run' = "announce"
    /\ live' = TRUE
    /\ UNCHANGED <<mainVars, connected, lastErr, signalState, sessionVars>>

Announce ==
    /\ RunAt("announce")
    /\ run' = "wait"
    /\ connected' = TRUE
    /\ lastErr' = "none"
    /\ UNCHANGED <<mainVars, live, signalState, sessionVars>>

\* Mutant of WaitClosing: the loop returns without closeLiveSession.
WaitClosingLeaks ==
    /\ RunAt("wait")
    /\ closeRequested
    /\ run' = "done"
    /\ UNCHANGED <<mainVars, connected, lastErr, live, signalState, sessionVars>>

\* waitForSessionEvents: the three cases of its select.
WaitClosing ==
    /\ RunAt("wait")
    /\ closeRequested
    /\ run' = "shut"
    /\ UNCHANGED <<mainVars, connected, lastErr, live, signalState, sessionVars>>

WaitLost ==
    /\ RunAt("wait")
    /\ signalingLost
    /\ signalingLost' = FALSE
    /\ run' = "recover"
    /\ signalState' = "connecting"
    /\ UNCHANGED <<mainVars, connected, lastErr, live, session, pump, signalOut,
                   reconnectNow, peerVars>>

WaitReconnect ==
    /\ RunAt("wait")
    /\ reconnectNow
    /\ reconnectNow' = FALSE
    /\ run' = "replace"
    /\ connected' = FALSE
    /\ UNCHANGED <<mainVars, lastErr, live, session, pump, signalOut, signalingLost,
                   signalState, peerVars>>

\* recoverLiveSignaling: the request, the dial, and what makes it give up.
RecoverRequested ==
    /\ RunAt("recover")
    /\ run' = "redial"
    /\ UNCHANGED <<mainVars, connected, lastErr, live, signalState, sessionVars>>

\* Mutant of RecoverFails: the loop goes on waiting with a dead pump.
RecoverFailsQuietly(err) ==
    /\ RunAt("recover") \/ (RunAt("redial") /\ err = "retryable")
    /\ run' = "wait"
    /\ lastErr' = err
    /\ signalState' = "failed"
    /\ UNCHANGED <<mainVars, connected, live, sessionVars>>

RecoverFails(err) ==
    /\ RunAt("recover") \/ (RunAt("redial") /\ err = "retryable")
    /\ run' = "replace"
    /\ connected' = FALSE
    /\ lastErr' = err
    /\ signalState' = "failed"
    /\ UNCHANGED <<mainVars, live, sessionVars>>

Recovered ==
    /\ RunAt("recovered")
    /\ run' = "wait"
    /\ lastErr' = "none"
    /\ UNCHANGED <<mainVars, connected, live, signalState, sessionVars>>

\* StopAndWait up to its wait.
Stopped(p) == IF p = NoPump THEN NoPump
              ELSE [p EXCEPT !.suppress = TRUE, !.stop = TRUE, !.open = FALSE]

\* closeLiveSession without a session, before a reconnect or for good.
NothingToClose ==
    /\ main # "exited"
    /\ run \in {"replace", "shut"}
    /\ ~live
    /\ run' = IF run = "replace" THEN "top" ELSE "done"
    /\ UNCHANGED <<mainVars, connected, lastErr, live, signalState, sessionVars>>

\* ReconnectSignaling dialled and stops the previous pump; or closeLiveSession stops
\* the pump of the session it took away.
StopPump ==
    /\ \/ RunAt("redial") /\ run' = "retire" /\ UNCHANGED live
       \/ RunAt("replace") /\ live /\ run' = "drain" /\ live' = FALSE
       \/ RunAt("shut") /\ live /\ run' = "drainForGood" /\ live' = FALSE
    /\ pump' = Stopped(pump)
    /\ UNCHANGED <<mainVars, connected, lastErr, session, signalOut, signalingLost,
                   reconnectNow, signalState, peerVars>>

\* <-p.done: both goroutines returned.
PumpDone == pump # NoPump /\ pump.reader = "exited" /\ pump.writer = "exited"

Retired ==
    /\ RunAt("retire")
    /\ PumpDone
    /\ pump' = NoPump
    /\ UNCHANGED <<mainVars, run, connected, lastErr, live, session, signalOut,
                   signalingLost, reconnectNow, signalState, peerVars>>

\* The rest of liveWebRTCSession.Close, pc.Close included.
Drained ==
    /\ RunAt("drain") \/ RunAt("drainForGood")
    /\ pump = NoPump \/ PumpDone
    /\ run' = IF run = "drain" THEN "top" ELSE "done"
    /\ pump' = NoPump
    /\ session' = FALSE
    /\ UNCHANGED <<mainVars, connected, lastErr, live, signalOut, signalingLost,
                   reconnectNow, signalState, peerVars>>

RunStep ==
    \/ Top \/ BackedOff \/ Setup \/ Dialled \/ Publish \/ Announce
    \/ WaitLost \/ WaitReconnect \/ Recovered \/ NothingToClose \/ StopPump
    \/ Retired \/ Drained
    \/ Connected \/ RecoverRequested
    \/ \E err \in {"retryable", "final"} : NotConnected(err) \/ RecoverFails(err)

-----------------------------------------------------------------------------
(* The signal pump's goroutines, and the negotiator its reader drives *)

PumpRuns == main # "exited" /\ pump # NoPump
ReaderAt(label) == PumpRuns /\ pump.reader = label
WriterAt(label) == PumpRuns /\ pump.writer = label
Reader(label) == pump' = [pump EXCEPT !.reader = label]
Writer(label) == pump' = [pump EXCEPT !.writer = label]

\* reportLost up to lostOnce: a pump that is being stopped reports nothing.
Losing(goroutine) ==
    pump' = [pump EXCEPT ![goroutine] = IF pump.suppress THEN "exited" ELSE "losing"]

ReadFails ==
    /\ ReaderAt("read")
    /\ ~pump.open
    /\ Losing("reader")
    /\ UNCHANGED <<mainVars, run, connected, lastErr, live, session, signalOut, signalingLost,
                   reconnectNow, signalState, peerVars>>

\* The writer's select: stop, or a message to write.  A write fails once the
\* connection is gone; the message is gone too.
WriterStops ==
    /\ WriterAt("idle")
    /\ pump.stop
    /\ Writer("exited")
    /\ UNCHANGED <<mainVars, run, connected, lastErr, live, session, signalOut, signalingLost,
                   reconnectNow, signalState, peerVars>>

WriterWrites ==
    /\ WriterAt("idle")
    /\ signalOut > 0
    /\ signalOut' = signalOut - 1
    /\ IF pump.open THEN UNCHANGED pump ELSE Losing("writer")
    /\ UNCHANGED <<mainVars, run, connected, lastErr, live, session, signalingLost,
                   reconnectNow, signalState, peerVars>>

\* Mutant of ReportLost: no lostOnce, each goroutine reports.
ReportLostTwice(goroutine) ==
    /\ PumpRuns
    /\ pump[goroutine] = "losing"
    /\ pump' = [pump EXCEPT ![goroutine] = "exited", !.reported = TRUE,
                            !.stop = TRUE, !.open = FALSE]
    /\ signalState' = "closed"
    /\ signalingLost' = TRUE
    /\ UNCHANGED <<mainVars, run, connected, lastErr, live, session, signalOut, reconnectNow,
                   peerVars>>

\* lostOnce: whichever goroutine is first stops the other and tells the loop.
ReportLost(goroutine) ==
    /\ PumpRuns
    /\ pump[goroutine] = "losing"
    /\ IF pump.reported
       THEN /\ pump' = [pump EXCEPT ![goroutine] = "exited"]
            /\ UNCHANGED <<signalingLost, signalState>>
       ELSE /\ pump' = [pump EXCEPT ![goroutine] = "exited", !.reported = TRUE,
                                    !.stop = TRUE, !.open = FALSE]
            /\ signalState' = "closed"
            /\ signalingLost' = TRUE
    /\ UNCHANGED <<mainVars, run, connected, lastErr, live, session, signalOut, reconnectNow,
                   peerVars>>

\* The reader's handlers.  What was received before the connection went can still be
\* read from its buffer after it, so none of them asks whether it is open.

\* handleAnswer: only a pending offer takes an answer, and with it the candidates
\* kept.  pion may refuse the answer.
Answer ==
    /\ ReaderAt("read")
    /\ negotiation = "have-local-offer"
    /\ negotiation' = "stable"
    /\ remote' = TRUE
    /\ pending' = {}
    /\ given' = given \cup pending
    /\ UNCHANGED <<mainVars, run, connected, lastErr, live, session, pump, signalOut,
                   signalingLost, reconnectNow, signalState, asked, received>>

\* Mutant of Candidate: a remote description is enough, if it is of the round before.
CandidateAsksForRemoteOnly(c) ==
    /\ ReaderAt("read")
    /\ received' = received \cup {c}
    /\ IF ~remote
       THEN pending' = pending \cup {c} /\ UNCHANGED given
       ELSE given' = given \cup {c} /\ UNCHANGED pending
    /\ UNCHANGED <<mainVars, run, connected, lastErr, live, session, pump, signalOut,
                   signalingLost, reconnectNow, signalState, negotiation, remote, asked>>

\* handleCandidate: kept for an answer that is due, given to pion after it.
Candidate(c) ==
    /\ ReaderAt("read")
    /\ received' = received \cup {c}
    /\ IF ~remote \/ negotiation = "have-local-offer"
       THEN pending' = pending \cup {c} /\ UNCHANGED given
       ELSE given' = given \cup {c} /\ UNCHANGED pending
    /\ UNCHANGED <<mainVars, run, connected, lastErr, live, session, pump, signalOut,
                   signalingLost, reconnectNow, signalState, negotiation, remote, asked>>

\* handleViewerReady up to its first sendOffer.
ViewerReady ==
    /\ ReaderAt("read")
    /\ Reader("offer1")
    /\ signalState' = "viewer_connected"
    /\ UNCHANGED <<mainVars, run, connected, lastErr, live, session, signalOut, signalingLost,
                   reconnectNow, peerVars>>

\* Mutant of Detached: requestReconnect waits for room in the channel.
DetachedBlocks ==
    /\ ReaderAt("read")
    /\ signalState' = "normal"
    /\ negotiation' = "stable"
    /\ asked' = FALSE
    /\ IF reconnectNow THEN Reader("blocked") ELSE UNCHANGED pump
    /\ reconnectNow' = TRUE
    /\ UNCHANGED <<mainVars, run, connected, lastErr, live, session, signalOut,
                   signalingLost, remote, candidateVars>>

\* resetPendingOffer: pion rolls the pending offer back, or refuses to.
RollBack ==
    \/ negotiation' = "stable" /\ asked' = FALSE
    \/ negotiation = "have-local-offer" /\ UNCHANGED <<negotiation, asked>>

\* handleViewerDetach, for detach and viewer_replaced: the pending offer is rolled
\* back and the loop asked to replace the session.
Detached ==
    /\ ReaderAt("read")
    /\ signalState' = "normal"
    /\ RollBack
    /\ reconnectNow' = TRUE
    /\ UNCHANGED <<mainVars, run, connected, lastErr, live, session, pump, signalOut,
                   signalingLost, remote, candidateVars>>

Offering == pump # NoPump /\ pump.reader \in {"offer1", "offer2", "queue1", "queue2"}

\* handleViewerReady tries twice and then asks for another session.
OfferFails ==
    IF pump.reader \in {"offer1", "queue1"}
    THEN Reader("offer2") /\ UNCHANGED reconnectNow
    ELSE Reader("read") /\ reconnectNow' = TRUE

\* sendOffer up to its wait for candidates: a pending offer is rolled back, the
\* candidates kept for it dropped, a new one made.  pion may refuse the roll-back,
\* which leaves everything as it was, or to make the offer.
MakeOffer ==
    /\ ReaderAt("offer1") \/ ReaderAt("offer2")
    /\ \/ /\ negotiation = "have-local-offer"
          /\ OfferFails
          /\ UNCHANGED <<negotiation, asked, candidateVars>>
       \/ /\ negotiation' = "have-local-offer"
          /\ asked' = FALSE
          /\ NoCandidates
          /\ Reader(IF pump.reader = "offer1" THEN "queue1" ELSE "queue2")
          /\ UNCHANGED reconnectNow
       \/ /\ negotiation' = "stable"
          /\ asked' = FALSE
          /\ NoCandidates
          /\ OfferFails
    /\ UNCHANGED <<mainVars, run, connected, lastErr, live, session, signalOut, signalingLost,
                   signalState, remote>>

\* Mutant of QueueOffer: a full queue drops the offer, as it drops a candidate.
QueueOfferDrops ==
    /\ ReaderAt("queue1") \/ ReaderAt("queue2")
    /\ signalOut' = IF signalOut < SignalQueue THEN signalOut + 1 ELSE signalOut
    /\ asked' = (signalOut < SignalQueue)
    /\ Reader("read")
    /\ UNCHANGED <<mainVars, run, connected, lastErr, live, session, signalingLost,
                   reconnectNow, signalState, negotiation, remote, candidateVars>>

\* The end of sendOffer: into the queue, or an error if it is full.
QueueOffer ==
    /\ ReaderAt("queue1") \/ ReaderAt("queue2")
    /\ IF signalOut < SignalQueue
       THEN /\ signalOut' = signalOut + 1
            /\ asked' = TRUE
            /\ Reader("read")
            /\ UNCHANGED reconnectNow
       ELSE OfferFails /\ UNCHANGED <<signalOut, asked>>
    /\ UNCHANGED <<mainVars, run, connected, lastErr, live, session, signalingLost,
                   signalState, negotiation, remote, candidateVars>>

PumpStep == \/ ReadFails \/ WriterStops \/ WriterWrites
            \/ MakeOffer \/ QueueOffer
            \/ \E g \in {"reader", "writer"} : ReportLost(g)

-----------------------------------------------------------------------------
(* What the network, pion and the viewer do *)

\* The signaling socket drops, or its relay closed it.
ConnectionDrops ==
    /\ PumpRuns
    /\ pump.open
    /\ pump' = [pump EXCEPT !.open = FALSE]
    /\ UNCHANGED <<mainVars, run, connected, lastErr, live, session, signalOut, signalingLost,
                   reconnectNow, signalState, peerVars>>

\* handleConnectionStateChange for a failed or closed peer connection.
PeerFails ==
    /\ main # "exited"
    /\ session
    /\ reconnectNow' = TRUE
    /\ UNCHANGED <<mainVars, run, connected, lastErr, live, session, pump, signalOut,
                   signalingLost, signalState, peerVars>>

\* handleICECandidate and handleTerminalOpen: a message for the viewer, dropped
\* if the queue is full.
PeerSignals ==
    /\ main # "exited"
    /\ session
    /\ signalOut < SignalQueue
    /\ signalOut' = signalOut + 1
    /\ UNCHANGED <<mainVars, run, connected, lastErr, live, session, pump, signalingLost,
                   reconnectNow, signalState, peerVars>>

Environment ==
    \/ ConnectionDrops \/ PeerFails \/ PeerSignals
    \/ Answer \/ (\E c \in IceCandidate : Candidate(c)) \/ ViewerReady \/ Detached

-----------------------------------------------------------------------------
(* The main goroutine *)

\* waitForBridgeConnected: connected, or an error that ends the process at once.
\* A retryable error is waited out until the timeout.
Waited ==
    /\ main = "starting"
    /\ \/ connected /\ main' = "running"
       \/ lastErr = "final" /\ main' = "exited"
       \/ ~connected /\ main' = "exited"
    /\ UNCHANGED <<closeRequested, run, connected, lastErr, live, signalState, sessionVars>>

\* The shell ends and webrtcAgentBridge.Close is called ...
CloseBridge ==
    /\ main = "running"
    /\ main' = "closing"
    /\ closeRequested' = TRUE
    /\ UNCHANGED <<run, connected, lastErr, live, signalState, sessionVars>>

\* ... and waits for the loop.
BridgeClosed ==
    /\ main = "closing"
    /\ run = "done"
    /\ main' = "exited"
    /\ UNCHANGED <<closeRequested, run, connected, lastErr, live, signalState, sessionVars>>

Exited == main = "exited" /\ UNCHANGED bridgeVars

Next == \/ RunStep \/ WaitClosing \/ PumpStep \/ Environment
        \/ Waited \/ CloseBridge \/ BridgeClosed \/ Exited

Spec == Init /\ [][Next]_bridgeVars

\* Every goroutine is scheduled: its calls return, for the HTTP client, the dialer
\* and the write deadlines time out.  A select with several ready cases picks one
\* at random, so it does not overlook the close for ever; what a closed connection
\* has buffered is read to its end, so its reader fails in the end.  Nothing is
\* assumed of the viewer, the network or the shell.
FairSpec == /\ Spec
            /\ WF_bridgeVars(RunStep)
            /\ SF_bridgeVars(WaitClosing)
            /\ SF_bridgeVars(ReadFails)
            /\ WF_bridgeVars(MakeOffer)
            /\ WF_bridgeVars(QueueOffer)
            /\ WF_bridgeVars(WriterStops)
            /\ \A g \in {"reader", "writer"} : WF_bridgeVars(ReportLost(g))
            /\ WF_bridgeVars(BridgeClosed)

-----------------------------------------------------------------------------
(* Properties *)

RunLabel == {"top", "connect", "setup", "dial", "publish", "announce", "wait", "recover",
             "redial", "retire", "recovered", "replace", "drain", "shut", "drainForGood",
             "backoff", "done"}

\* The types of the bridge's fields, of the channels and of every program counter.
BridgeTypeOK ==
    /\ main \in {"starting", "running", "closing", "exited"}
    /\ closeRequested \in BOOLEAN
    /\ run \in RunLabel
    /\ connected \in BOOLEAN
    /\ lastErr \in {"none", "retryable", "final"}
    /\ live \in BOOLEAN
    /\ session \in BOOLEAN
    /\ pump \in PumpState \cup {NoPump}
    /\ signalOut \in 0..SignalQueue
    /\ signalingLost \in BOOLEAN
    /\ reconnectNow \in BOOLEAN
    /\ signalState \in {"connecting", "normal", "viewer_connected", "closed", "failed"}
    /\ negotiation \in {"stable", "have-local-offer"}
    /\ remote \in BOOLEAN
    /\ asked \in BOOLEAN
    /\ pending \subseteq IceCandidate
    /\ received \subseteq IceCandidate
    /\ given \subseteq IceCandidate

\* A lost-signaling token the loop can still act on was left by the pump it has:
\* a pump that was replaced cannot make the loop tear down or recover its
\* successor (lostOnce and <-p.done together).
LossIsOfTheCurrentPump ==
    signalingLost /\ run \in {"publish", "announce", "wait", "recovered"}
        => pump # NoPump /\ pump.reported

\* Until the bridge is closed, Connected() is true only while there is a published
\* session that Enqueue can send on.
ConnectedMeansLive == connected /\ ~closeRequested => live

\* When Close returns, the loop left no pump, no published session and no peer
\* connection behind, whatever it was doing when it was asked.
NothingLeftBehind == run = "done" => ~live /\ ~session /\ pump = NoPump

\* An offer that waits for an answer was handed to the pump, or the session is
\* about to be replaced: a full queue never leaves the viewer waiting for an
\* offer the agent believes it made.
OfferAskedOrReplaced ==
    session /\ negotiation = "have-local-offer" /\ ~Offering
        => asked \/ reconnectNow \/ run \in {"replace", "drain", "shut", "drainForGood"}

\* pion adds a candidate to the remote description it has.  So while an offer waits
\* for its answer, pion is given none and every candidate received since the offer was
\* begun is kept, whether or not an earlier round was answered; and once it is answered
\* pion has them all.  A candidate from before the offer is not among them; one that
\* comes late from an earlier round is: whether it is stale is left to pion.
CandidatesMeetTheirAnswer ==
    session =>
        /\ negotiation = "have-local-offer" => given = {} /\ pending = received
        /\ negotiation = "stable" /\ remote /\ asked => given = received

\* While the loop waits on a pump that works, the status line says so: no late
\* write of a lost or retired pump, or of a failed attempt, survives recovery.
StatusOfAWorkingPump ==
    run = "wait" /\ ~pump.reported => signalState \in {"normal", "viewer_connected"}

\* Close always returns: no goroutine the loop waits for waits for the loop.
CloseCompletes == closeRequested ~> run = "done"

\* A pump that reported its loss does not stay: the loop recovers it or replaces
\* the session (unless the process ends), and does not go back to waiting on it.
LostPumpGoes ==
    (pump # NoPump /\ pump.reported) ~> (pump = NoPump \/ ~pump.reported \/ main = "exited")

\* What -answer-timeout promises: "How long to wait for a viewer answer before
\* returning to local-only mode" (interactive_config.go:23): an offer that was
\* sent is answered, withdrawn or followed by another, never waited for for ever.
OfferIsGivenUp ==
    (session /\ negotiation = "have-local-offer" /\ asked)
        ~> (~session \/ negotiation = "stable" \/ ~asked \/ main = "exited")
=============================================================================
