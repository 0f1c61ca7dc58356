-------------------------- MODULE AgentBridgeProofs --------------------------
(***************************************************************************)
(* The safety properties of AgentBridge hold for every queue capacity: one   *)
(* inductive invariant, which says what the loop still holds at each of its  *)
(* labels.                                                                   *)
(***************************************************************************)
EXTENDS AgentBridge, TLAPS

\* The labels at which the loop has a pump, a peer connection, a published
\* session, and at which it recovers the signaling of one.
HasPump == {"publish", "announce", "wait", "recover", "redial", "recovered"}
MayHavePump == HasPump \cup {"retire", "replace", "drain", "shut", "drainForGood"}
MayHaveSession == MayHavePump \cup {"dial"}
Published == {"announce", "wait", "recover", "redial", "retire", "recovered"}
MayBePublished == Published \cup {"replace", "shut"}
Recovering == {"recover", "redial", "retire"}
Working == {"publish", "announce", "wait", "recovered"}

\* What the loop holds, by label.
Holdings ==
    /\ pump # NoPump => run \in MayHavePump
    /\ run \in HasPump => pump # NoPump
    /\ session => run \in MayHaveSession
    /\ live => run \in MayBePublished
    /\ run \in Published => live
    /\ run = "shut" /\ ~live => ~session /\ pump = NoPump
    /\ run = "replace" => live
    /\ connected /\ ~closeRequested => run \in Published
    /\ run \in {"shut", "drainForGood", "done"} => closeRequested

\* Whose token is in signalingLost.
Losses ==
    /\ run \in Recovering => ~signalingLost /\ (pump = NoPump \/ pump.reported)
    /\ run = "dial" => ~signalingLost
    /\ signalingLost /\ pump # NoPump => pump.reported

StatusInv ==
    run \in Working /\ ~pump.reported => signalState \in {"normal", "viewer_connected"}

\* An offer is queued while it waits for its answer, by a reader that reads no answer
\* meanwhile.
Offers ==
    pump # NoPump /\ pump.reader \in {"queue1", "queue2"} => negotiation = "have-local-offer"

BridgeInv ==
    /\ BridgeTypeOK
    /\ Holdings
    /\ Losses
    /\ StatusInv
    /\ OfferAskedOrReplaced
    /\ Offers
    /\ CandidatesMeetTheirAnswer

-----------------------------------------------------------------------------
\* The two Boolean values are in BOOLEAN (for the flags the actions assign).
LEMMA BooleanValues == \A x : x = FALSE \/ x = TRUE => x \in BOOLEAN
  BY Zenon

\* The state the bridge is created in satisfies the invariant.
LEMMA BridgeInit == Init => BridgeInv
  BY BridgeAssumption, BooleanValues
     DEF Init, BridgeInv, BridgeTypeOK, Holdings, Losses, StatusInv, OfferAskedOrReplaced,
         Offers, CandidatesMeetTheirAnswer, Offering, RunLabel, HasPump, MayHavePump,
         MayHaveSession, Published, MayBePublished, Recovering, Working

\* Every step of the loop, of the pump, of its peers and of main preserves it.
LEMMA BridgeStep == BridgeInv /\ [Next]_bridgeVars => BridgeInv'
  <1> SUFFICES ASSUME BridgeInv, [Next]_bridgeVars
               PROVE  BridgeInv'
      OBVIOUS
  <1> USE BridgeAssumption, NoPumpAssumption, BooleanValues
      DEF BridgeInv, BridgeTypeOK, Holdings, Losses, StatusInv, OfferAskedOrReplaced, Offers,
          CandidatesMeetTheirAnswer, candidateVars, NoCandidates,
          Offering, PumpState, RunLabel, HasPump, MayHavePump, MayHaveSession, Published,
          MayBePublished, Recovering, Working, mainVars, sessionVars, peerVars
  <1>1. CASE Top
      BY <1>1 DEF Top, RunAt
  <1>2. CASE BackedOff
      BY <1>2 DEF BackedOff, RunAt
  <1>3. CASE Setup
      BY <1>3 DEF Setup, RunAt
  <1>4. CASE Dialled
      BY <1>4 DEF Dialled, RunAt, NewPump
  <1>5. CASE Publish
      BY <1>5 DEF Publish, RunAt
  <1>6. CASE Announce
      BY <1>6 DEF Announce, RunAt
  <1>7. CASE WaitLost
      BY <1>7 DEF WaitLost, RunAt
  <1>8. CASE WaitReconnect
      BY <1>8 DEF WaitReconnect, RunAt
  <1>9. CASE Recovered
      BY <1>9 DEF Recovered, RunAt
  <1>10. CASE StopPump
      BY <1>10 DEF StopPump, RunAt, Stopped
  <1>11. CASE Retired
      BY <1>11 DEF Retired, RunAt, PumpDone
  <1>12. CASE Drained
      BY <1>12 DEF Drained, RunAt, PumpDone
  <1>13. CASE Connected
      BY <1>13 DEF Connected, RunAt
  <1>14. CASE RecoverRequested
      BY <1>14 DEF RecoverRequested, RunAt
  <1>15. CASE WaitClosing
      BY <1>15 DEF WaitClosing, RunAt
  <1>16. CASE ReadFails
      BY <1>16 DEF ReadFails, ReaderAt, PumpRuns, Losing
  <1>17. CASE WriterStops
      BY <1>17 DEF WriterStops, WriterAt, PumpRuns, Writer
  <1>18. CASE WriterWrites
      BY <1>18 DEF WriterWrites, WriterAt, PumpRuns, Losing
  <1>19. CASE MakeOffer
      BY <1>19 DEF MakeOffer, ReaderAt, PumpRuns, Reader, OfferFails
  <1>20. CASE QueueOffer
      BY <1>20 DEF QueueOffer, ReaderAt, PumpRuns, Reader, OfferFails
  <1>21. CASE ConnectionDrops
      BY <1>21 DEF ConnectionDrops, PumpRuns
  <1>22. CASE PeerFails
      BY <1>22 DEF PeerFails
  <1>23. CASE PeerSignals
      BY <1>23 DEF PeerSignals
  <1>24. CASE Answer
      BY <1>24 DEF Answer, ReaderAt, PumpRuns
  <1>25. CASE \E c \in IceCandidate : Candidate(c)
    <2>1. PICK c \in IceCandidate : Candidate(c)
        BY <1>25
    <2>2. CASE ~remote \/ negotiation = "have-local-offer"
        BY <2>1, <2>2 DEF Candidate, ReaderAt, PumpRuns
    <2>3. CASE remote /\ negotiation = "stable"
        BY <2>1, <2>3 DEF Candidate, ReaderAt, PumpRuns
    <2>4. QED
        BY <2>2, <2>3
  <1>26. CASE ViewerReady
      BY <1>26 DEF ViewerReady, ReaderAt, PumpRuns, Reader
  <1>27. CASE Detached
      BY <1>27 DEF Detached, RollBack, ReaderAt, PumpRuns
  <1>28. CASE Waited
      BY <1>28 DEF Waited
  <1>29. CASE CloseBridge
      BY <1>29 DEF CloseBridge
  <1>30. CASE BridgeClosed
      BY <1>30 DEF BridgeClosed
  <1>31. ASSUME NEW err \in {"retryable", "final"}, NotConnected(err)
        PROVE  BridgeInv'
      BY <1>31 DEF NotConnected, RunAt
  <1>32. ASSUME NEW err \in {"retryable", "final"}, RecoverFails(err)
        PROVE  BridgeInv'
      BY <1>32 DEF RecoverFails, RunAt
  <1>33. CASE ReportLost("reader")
    <2>1. /\ pump \in PumpState
          /\ pump' = IF pump.reported
                     THEN [pump EXCEPT !.reader = "exited"]
                     ELSE [pump EXCEPT !.reader = "exited", !.reported = TRUE,
                                       !.stop = TRUE, !.open = FALSE]
        BY <1>33 DEF ReportLost, PumpRuns
    <2>2. CASE pump.reported
        BY <1>33, <2>1, <2>2 DEF ReportLost, PumpRuns
    <2>3. CASE ~pump.reported
      <3>1. pump' \in PumpState /\ pump'.reported /\ pump'.reader = "exited"
          BY <2>1, <2>3
      <3>2. /\ signalState' = "closed"
            /\ signalingLost' = TRUE
            /\ UNCHANGED <<mainVars, run, connected, lastErr, live, session, signalOut,
                           reconnectNow, peerVars>>
          BY <1>33, <2>3, Zenon DEF ReportLost
      <3>3. pump # NoPump
          BY <2>1
      <3>4. QED
          BY <2>1, <2>3, <3>1, <3>2, <3>3
    <2>4. QED
        BY <2>2, <2>3
  <1>34. CASE ReportLost("writer")
    <2>1. /\ pump \in PumpState
          /\ pump' = IF pump.reported
                     THEN [pump EXCEPT !.writer = "exited"]
                     ELSE [pump EXCEPT !.writer = "exited", !.reported = TRUE,
                                       !.stop = TRUE, !.open = FALSE]
        BY <1>34 DEF ReportLost, PumpRuns
    <2>2. CASE pump.reported
        BY <1>34, <2>1, <2>2 DEF ReportLost, PumpRuns
    <2>3. CASE ~pump.reported
      <3>1. pump' \in PumpState /\ pump'.reported /\ pump'.reader = pump.reader
          BY <2>1, <2>3
      <3>2. /\ signalState' = "closed"
            /\ signalingLost' = TRUE
            /\ UNCHANGED <<mainVars, run, connected, lastErr, live, session, signalOut,
                           reconnectNow, peerVars>>
          BY <1>34, <2>3, Zenon DEF ReportLost
      <3>3. pump # NoPump
          BY <2>1
      <3>4. QED
          BY <2>1, <2>3, <3>1, <3>2, <3>3
    <2>4. QED
        BY <2>2, <2>3
  <1>35. CASE NothingToClose
      BY <1>35 DEF NothingToClose
  <1>36. CASE Exited \/ UNCHANGED bridgeVars
      BY <1>36 DEF Exited, bridgeVars
  <1> QED
      BY <1>1, <1>2, <1>3, <1>4, <1>5, <1>6, <1>7, <1>8, <1>9, <1>10, <1>11, <1>12,
         <1>13, <1>14, <1>15, <1>16, <1>17, <1>18, <1>19, <1>20, <1>21, <1>22, <1>23, <1>24,
         <1>25, <1>26, <1>27, <1>28, <1>29, <1>30, <1>31, <1>32, <1>33, <1>34, <1>35, <1>36
         DEF Next, RunStep, PumpStep, Environment

\* What the loop holds, whose loss it sees, the offer's fate, the candidates and the
\* status line, at every label and for a signalOut of any capacity.
THEOREM BridgeInvariant == Spec => []BridgeInv
  BY BridgeInit, BridgeStep, PTL DEF Spec

\* recoverLiveSignaling and the wait of run act on the loss of the pump they have,
\* never on a token an earlier pump left in signalingLost.
THEOREM LossesAreCurrent == Spec => []LossIsOfTheCurrentPump
  <1>1. BridgeInv => LossIsOfTheCurrentPump
      BY DEF BridgeInv, BridgeTypeOK, Holdings, Losses, LossIsOfTheCurrentPump, HasPump,
             MayHavePump, Recovering, PumpState
  <1>2. QED
      BY <1>1, BridgeInvariant, PTL

\* When run returns, Close finds no published session, no peer connection and no pump.
THEOREM BridgeLeavesNothing == Spec => []NothingLeftBehind
  <1>1. BridgeInv => NothingLeftBehind
      BY DEF BridgeInv, BridgeTypeOK, Holdings, NothingLeftBehind, HasPump, MayHavePump,
             MayHaveSession, Published, MayBePublished
  <1>2. QED
      BY <1>1, BridgeInvariant, PTL

\* sendOffer never leaves the negotiator waiting for the answer to an offer that did
\* not fit into signalOut.
THEOREM OffersAreAskedOrReplaced == Spec => []OfferAskedOrReplaced
  BY BridgeInvariant, PTL DEF BridgeInv

\* Through every roll-back, refusal, repeated viewer_ready and replaced session, however
\* many candidates come: handleAnswer gives pion the candidates received since the
\* pending offer was begun, all of them and no others, and nobody gives it one before.
THEOREM CandidatesWaitForTheirAnswer == Spec => []CandidatesMeetTheirAnswer
  BY BridgeInvariant, PTL DEF BridgeInv

\* Connected, which waitForBridgeConnected polls, and the status line say what is so.
THEOREM StatusIsTrue == Spec => [](ConnectedMeansLive /\ StatusOfAWorkingPump)
  <1>1. BridgeInv => ConnectedMeansLive /\ StatusOfAWorkingPump
      BY DEF BridgeInv, BridgeTypeOK, Holdings, StatusInv, ConnectedMeansLive,
             StatusOfAWorkingPump, HasPump, Published, MayBePublished, Working, PumpState
  <1>2. QED
      BY <1>1, BridgeInvariant, PTL
=============================================================================
