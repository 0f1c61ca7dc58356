--------------------------- MODULE SignalHubProofs ---------------------------
(***************************************************************************)
(* Proofs about SignalHub, for any number of connections, any capacity of   *)
(* the outbound channel and any number of messages.                         *)
(*                                                                          *)
(* The hub implements the safety part of SessionSeats, and a peer whose     *)
(* connection was closed forwards at most the message it had read.  Both    *)
(* rest on HubInv: the two seats are held by connections that are between   *)
(* the critical sections of Register and Unregister, and a handler has      *)
(* calls to make only at the labels at which it makes them.                 *)
(*                                                                          *)
(* No departed viewer goes unreported (DetachInv): whatever a handler does  *)
(* to its calls, to the channels and to owed balances.                      *)
(***************************************************************************)
EXTENDS SignalHub, SequenceTheorems, FiniteSetTheorems, FunctionTheorems, TLAPS

\* The labels at which a handler makes the calls it decided on under h.mu.
Calling == {"registering", "sending", "unregistering"}

HubShape ==
    /\ agent \in AgentPeer \cup {NoPeer}
    /\ viewer \in ViewerPeer \cup {NoPeer}
    /\ pc \in [Peer -> PC]
    /\ calls \in [Peer -> Seq(Call)]
    /\ closed \in [Peer -> BOOLEAN]
    /\ lateForwards \in [Peer -> Nat]

\* Who holds a seat has registered and not yet unregistered.
SeatsHeld ==
    /\ agent # NoPeer => Registered(agent)
    /\ viewer # NoPeer => Registered(viewer)

CallsInPlace == \A p \in Peer : calls[p] # <<>> => pc[p] \in Calling

\* A peer that has forwarded late is on its way out.
ForwardsLateOnce ==
    \A p \in Peer :
        /\ lateForwards[p] <= 1
        /\ lateForwards[p] = 1 =>
              /\ closed[p]
              /\ pc[p] \in {"sending", "unregister", "unregistering", "closing", "done"}

HubInv == HubShape /\ SeatsHeld /\ CallsInPlace /\ ForwardsLateOnce

-----------------------------------------------------------------------------
\* NewSignalHub: nobody is connected.
LEMMA HubInit == Init => HubInv
  BY PeersAssumption
  DEF Init, HubInv, HubShape, SeatsHeld, CallsInPlace, ForwardsLateOnce, PC

\* The calls the hub's methods decide on are calls to peers.
LEMMA CallShape ==
  ASSUME NEW p \in Peer
  PROVE  /\ \A m \in Message : Send(p, m) \in Call
         /\ Close(p) \in Call
         /\ HangUp(p) \in Call
  BY DEF Call, Send, Close, HangUp

\* The next call of a handler, and what is left after it.
LEMMA NextCall ==
  ASSUME HubShape, NEW p \in Peer, calls[p] # <<>>
  PROVE  /\ calls[p] \in Seq(Call)
         /\ Head(calls[p]) \in Call
         /\ Head(calls[p]).to \in Peer
         /\ Tail(calls[p]) \in Seq(Call)
         /\ Len(calls[p]) = 1 <=> Tail(calls[p]) = <<>>
<1>1. calls[p] \in Seq(Call)
  BY DEF HubShape
<1>2. /\ Head(calls[p]) \in Call
      /\ Tail(calls[p]) \in Seq(Call)
      /\ Len(Tail(calls[p])) = Len(calls[p]) - 1
  BY <1>1, HeadTailProperties
<1>3. Head(calls[p]).to \in Peer
  BY <1>2 DEF Call
<1>4. Len(Tail(calls[p])) = 0 <=> Tail(calls[p]) = <<>>
  BY <1>2, EmptySeq
<1>5. Len(calls[p]) \in Nat
  BY <1>1, LenProperties
<1>6. Len(calls[p]) = 1 <=> Tail(calls[p]) = <<>>
  BY <1>2, <1>4, <1>5
<1>7. QED
  BY <1>1, <1>2, <1>3, <1>6

\* The handler makes a call that closes or sends: wherever it was, it stays there,
\* or, after the last one, goes where AfterCalls says.
LEMMA CallMadeInv ==
  ASSUME HubInv, NEW p \in Peer, calls[p] # <<>>, CallMade(p, closed),
         UNCHANGED <<agent, viewer, closed, lateForwards>>
  PROVE  HubInv'
<1> USE DEF HubInv
<1>1. /\ pc[p] \in Calling
      /\ \A q \in Peer : q # p => pc'[q] = pc[q] /\ calls'[q] = calls[q]
      /\ calls'[p] = Tail(calls[p])
      /\ pc'[p] = IF Len(calls[p]) = 1 /\ pc[p] # "registering"
                  THEN AfterCalls(p, closed[p]) ELSE pc[p]
  BY DEF CallMade, CallsInPlace, HubShape
<1>2. HubShape'
  BY NextCall DEF CallMade, HubShape, AfterCalls, PC
<1>3. SeatsHeld'
  BY <1>1, PeersAssumption DEF SeatsHeld, HubShape, Registered, AfterCalls, Calling, Peer
<1>4. CallsInPlace'
  BY <1>1, NextCall DEF CallsInPlace
<1>5. ForwardsLateOnce'
  BY <1>1 DEF ForwardsLateOnce, AfterCalls, HubShape
<1>6. QED
  BY <1>2, <1>3, <1>4, <1>5

\* Every step of a handler, of a writer and of the network.
LEMMA HubStep == HubInv /\ [Next]_hubVars => HubInv'
<1> SUFFICES ASSUME HubInv, [Next]_hubVars
             PROVE  HubInv'
  OBVIOUS
<1> USE PeersAssumption DEF HubInv
<1>1. CASE UNCHANGED hubVars
  BY <1>1 DEF hubVars, HubShape, SeatsHeld, CallsInPlace, ForwardsLateOnce, Registered
<1>2. ASSUME NEW p \in Peer, Register(p)
      PROVE  HubInv'
  <2>1. /\ pc' = [pc EXCEPT ![p] = "registering"]
        /\ UNCHANGED <<closed, lateForwards>>
        /\ pc[p] = "new"
    BY <1>2 DEF Register
  <2>2. \E c \in Seq(Call) : calls' = [calls EXCEPT ![p] = c]
    <3>1. CASE p \in AgentPeer
      <4>1. IfPeer(agent, <<Close(agent)>>) \in Seq(Call)
        BY CallShape DEF IfPeer, HubShape, Peer
      <4>2. QED
        BY <1>2, <3>1, <4>1 DEF Register
    <3>2. CASE p \in ViewerPeer
      <4>1. agent # NoPeer => Send(agent, Detach) \in Call
        BY CallShape DEF HubShape, Peer, Message
      <4>2. IfPeer(agent, <<Send(agent, Detach)>>) \in Seq(Call)
        BY <4>1 DEF IfPeer
      <4>3. viewer # NoPeer => /\ Send(viewer, ViewerReplaced) \in Call
                               /\ Close(viewer) \in Call
        BY CallShape DEF HubShape, Peer, Message
      <4>4. viewer # NoPeer => <<Send(viewer, ViewerReplaced), Close(viewer)>> \in Seq(Call)
        BY <4>3
      <4>5. IfPeer(viewer, <<Send(viewer, ViewerReplaced), Close(viewer)>>
                     \o IfPeer(agent, <<Send(agent, Detach)>>)) \in Seq(Call)
        BY <4>2, <4>4, ConcatProperties DEF IfPeer
      <4>6. QED
        BY <1>2, <3>2, <4>5 DEF Register
    <3>3. QED
      BY <3>1, <3>2 DEF Peer
  <2>3. \/ p \in AgentPeer /\ agent' = p /\ viewer' = viewer
        \/ p \in ViewerPeer /\ viewer' = p /\ agent' = agent
    BY <1>2 DEF Register
  <2>4. HubShape'
    BY <2>1, <2>2, <2>3 DEF HubShape, PC
  <2>5. SeatsHeld'
    BY <2>1, <2>3 DEF SeatsHeld, HubShape, Registered, Peer
  <2>6. CallsInPlace'
    BY <2>1, <2>2 DEF CallsInPlace, HubShape, Calling
  <2>7. ForwardsLateOnce'
    BY <2>1 DEF ForwardsLateOnce, HubShape
  <2>8. QED
    BY <2>4, <2>5, <2>6, <2>7
<1>3. ASSUME NEW p \in Peer, Serve(p) \/ ReadMessage(p) \/ ReadFails(p)
      PROVE  HubInv'
  <2>1. /\ UNCHANGED <<agent, viewer, calls, closed, lateForwards>>
        /\ \E l \in {"unregister", "reading", "forwarding"} : pc' = [pc EXCEPT ![p] = l]
        /\ pc[p] \in {"registering", "reading"}
        /\ calls[p] = <<>>
    BY <1>3 DEF Serve, ReadMessage, ReadFails, AfterCalls, CallsInPlace, Calling
  <2>2. HubShape' /\ SeatsHeld'
    BY <2>1 DEF HubShape, PC, SeatsHeld, Registered, Peer
  <2>3. CallsInPlace' /\ ForwardsLateOnce'
    BY <2>1 DEF CallsInPlace, ForwardsLateOnce, HubShape
  <2>4. QED
    BY <2>2, <2>3
<1>4. ASSUME NEW p \in Peer, Forward(p)
      PROVE  HubInv'
  <2> DEFINE target == IF p \in AgentPeer THEN viewer ELSE agent
  <2>0. target \in Peer \cup {NoPeer}
    BY DEF HubShape, Peer
  <2>1. /\ UNCHANGED <<agent, viewer, closed>>
        /\ pc[p] = "forwarding"
        /\ pc' = [pc EXCEPT ![p] = IF target = NoPeer THEN AfterCalls(p, closed[p])
                                   ELSE "sending"]
        /\ calls' = [calls EXCEPT ![p] = IfPeer(target, <<Send(target, Signal)>>)]
        /\ lateForwards' = [lateForwards EXCEPT ![p] = IF closed[p] THEN @ + 1 ELSE @]
    BY <1>4 DEF Forward
  <2> HIDE DEF target
  <2>2. IfPeer(target, <<Send(target, Signal)>>) \in Seq(Call)
    BY <2>0, CallShape DEF IfPeer, Message
  <2>3. HubShape'
    BY <2>1, <2>2 DEF HubShape, PC, AfterCalls
  <2>4. SeatsHeld'
    BY <2>1 DEF HubShape, SeatsHeld, Registered, AfterCalls, Peer
  <2>5. CallsInPlace'
    BY <2>1 DEF CallsInPlace, HubShape, IfPeer, Calling
  <2>6. lateForwards[p] = 0
    BY <2>1 DEF ForwardsLateOnce, HubShape
  <2>7. ForwardsLateOnce'
    BY <2>1, <2>6 DEF ForwardsLateOnce, HubShape, AfterCalls
  <2>8. QED
    BY <2>3, <2>4, <2>5, <2>7
<1>5. ASSUME NEW p \in Peer, Unregister(p)
      PROVE  HubInv'
  <2>1. /\ UNCHANGED <<closed, lateForwards>>
        /\ pc[p] = "unregister"
        /\ pc' = [pc EXCEPT ![p] = "unregistering"]
    BY <1>5 DEF Unregister
  <2>2. \E c \in Seq(Call) : calls' = [calls EXCEPT ![p] = c]
    <3>1. <<Close(p)>> \in Seq(Call)
      BY CallShape
    <3>2. IfPeer(viewer, <<Close(viewer)>>) \in Seq(Call)
      BY CallShape DEF IfPeer, HubShape, Peer
    <3>3. IfPeer(agent, <<Send(agent, Detach)>>) \in Seq(Call)
      BY CallShape DEF IfPeer, HubShape, Peer, Message
    <3>4. /\ IfPeer(viewer, <<Close(viewer)>>) \o <<Close(p)>> \in Seq(Call)
          /\ IfPeer(agent, <<Send(agent, Detach)>>) \o <<Close(p)>> \in Seq(Call)
      BY <3>1, <3>2, <3>3, ConcatProperties
    <3>5. QED
      BY <1>5, <3>1, <3>4 DEF Unregister
  <2>3. \/ p = agent /\ agent' = NoPeer /\ viewer' = NoPeer
        \/ p = viewer /\ viewer' = NoPeer /\ agent' = agent
        \/ p \notin {agent, viewer} /\ UNCHANGED <<agent, viewer>>
    BY <1>5 DEF Unregister
  <2>4. HubShape'
    BY <2>1, <2>2, <2>3 DEF HubShape, PC
  <2>5. SeatsHeld'
    BY <2>1, <2>3 DEF HubShape, SeatsHeld, Registered, Peer
  <2>6. CallsInPlace' /\ ForwardsLateOnce'
    BY <2>1, <2>2 DEF CallsInPlace, ForwardsLateOnce, HubShape, Calling
  <2>7. QED
    BY <2>4, <2>5, <2>6
<1>6. ASSUME NEW p \in Peer, Enqueue(p) \/ Dropped(p) \/ HangUpConn(p) \/ CloseAgain(p)
      PROVE  HubInv'
  BY <1>6, CallMadeInv DEF Enqueue, Dropped, HangUpConn, CloseAgain
<1>7. ASSUME NEW p \in Peer, CloseConn(p)
      PROVE  HubInv'
  <2> DEFINE q == Head(calls[p]).to
  <2>1. /\ UNCHANGED <<agent, viewer, pc, lateForwards>>
        /\ calls[p] # <<>>
        /\ closed' = [closed EXCEPT ![q] = TRUE]
        /\ calls' = [calls EXCEPT ![p] = <<HangUp(q)>> \o Tail(calls[p])]
    BY <1>7 DEF CloseConn
  <2>2. q \in Peer /\ Tail(calls[p]) \in Seq(Call) /\ pc[p] \in Calling
    BY <2>1, NextCall DEF CallsInPlace
  <2> HIDE DEF q
  <2>3. <<HangUp(q)>> \o Tail(calls[p]) \in Seq(Call)
    <3>1. <<HangUp(q)>> \in Seq(Call)
      BY <2>2, CallShape
    <3>2. QED
      BY <2>2, <3>1, ConcatProperties
  <2>4. HubShape' /\ SeatsHeld'
    BY <2>1, <2>2, <2>3 DEF HubShape, SeatsHeld, Registered
  <2>5. CallsInPlace' /\ ForwardsLateOnce'
    BY <2>1, <2>2 DEF CallsInPlace, ForwardsLateOnce, HubShape
  <2>6. QED
    BY <2>4, <2>5
<1>8. ASSUME NEW p \in Peer, HandlerReturns(p)
      PROVE  HubInv'
  BY <1>8 DEF HandlerReturns, HubShape, SeatsHeld, CallsInPlace, ForwardsLateOnce, Registered,
              PC, Calling, Peer
<1>9. ASSUME NEW p \in Peer, WriteMessage(p) \/ WriterStops(p) \/ WriteFails(p) \/ ConnectionLost(p)
      PROVE  HubInv'
  BY <1>9 DEF WriteMessage, WriterStops, WriteFails, ConnectionLost, HubShape, SeatsHeld,
              CallsInPlace, ForwardsLateOnce, Registered
<1>10. QED
  BY <1>1, <1>2, <1>3, <1>4, <1>5, <1>6, <1>7, <1>8, <1>9 DEF Next, HandlerStep

\* Seats, pending calls and late forwards are as HubInv says, in every state.
THEOREM HubInvariant == Spec => []HubInv
  BY HubInit, HubStep, PTL DEF Spec

\* A replaced or closed peer cannot keep talking to the other side: after closeConn
\* its handler forwards at most the one message that it had read.
THEOREM ClosedPeersFallSilent == Spec => []ClosedPeerForwardsOnce
<1>1. HubInv => ClosedPeerForwardsOnce
  BY DEF HubInv, ForwardsLateOnce, ClosedPeerForwardsOnce
<1>2. QED
  BY <1>1, HubInvariant, PTL

-----------------------------------------------------------------------------
(***************************************************************************)
(* The hub implements the safety part of SessionSeats.  Only the critical   *)
(* sections of Register and Unregister change the seats or a connection's   *)
(* life; every other step moves a handler within one of its phases.         *)
(***************************************************************************)

\* The life of every connection, as SessionSeats sees it.
Lives == [p \in Peer |-> Life(p)]

\* The phase of a handler that the seats do not tell.
Phase(label) ==
    IF label = "new" THEN "new"
    ELSE IF label \in {"registering", "reading", "forwarding", "sending", "unregister"}
    THEN "registered" ELSE "gone"

LEMMA LifeByPhase ==
  ASSUME NEW p \in Peer
  PROVE  Life(p) = IF Phase(pc[p]) # "registered" THEN Phase(pc[p])
                   ELSE IF p \in {agent, viewer} THEN "seated" ELSE "unseated"
  BY DEF Life, Phase, Registered

\* The same of the next state.
LEMMA LifeByPhaseNext ==
  ASSUME NEW p \in Peer
  PROVE  Life(p)' = IF Phase(pc'[p]) # "registered" THEN Phase(pc'[p])
                    ELSE IF p \in {agent', viewer'} THEN "seated" ELSE "unseated"
  BY DEF Life, Phase, Registered

\* A step that leaves the seats alone and every handler in its phase.
LEMMA SamePhases ==
  ASSUME UNCHANGED <<agent, viewer>>,
         \A q \in Peer : Phase(pc'[q]) = Phase(pc[q])
  PROVE  UNCHANGED <<agent, viewer, Lives>>
<1>1. \A q \in Peer : Life(q)' = Life(q)
  BY LifeByPhase, LifeByPhaseNext
<1>2. QED
  BY <1>1 DEF Lives

\* Register seats the newcomer; whoever held the seat is unseated.
LEMMA RegisterSits ==
  ASSUME HubInv, NEW p \in Peer, Register(p)
  PROVE  Seats!Next
<1> USE PeersAssumption DEF HubInv
<1>1. /\ pc[p] = "new"
      /\ p \notin {agent, viewer}
      /\ \A q \in Peer : Phase(pc'[q]) = IF q = p THEN "registered" ELSE Phase(pc[q])
  BY DEF Register, HubShape, SeatsHeld, Registered, Phase
<1>2. Life(p) = "new" /\ p \in Peer
  BY <1>1, LifeByPhase DEF Phase
<1>3. CASE p \in AgentPeer
  <2>1. agent' = p /\ viewer' = viewer /\ p # viewer
    BY <1>1, <1>3 DEF Register
  <2>2. \A q \in Peer : Life(q)' = IF q = p THEN "seated"
                                   ELSE IF q = agent THEN "unseated" ELSE Life(q)
    <3> SUFFICES ASSUME NEW q \in Peer
                 PROVE  Life(q)' = IF q = p THEN "seated"
                                   ELSE IF q = agent THEN "unseated" ELSE Life(q)
      OBVIOUS
    <3>1. q = agent => Phase(pc[q]) = "registered" /\ q # viewer
      BY DEF SeatsHeld, HubShape, Registered, Phase, Peer
    <3>2. QED
      BY <1>1, <2>1, <3>1, LifeByPhase, LifeByPhaseNext
  <2>3. Seats!AgentSits(p)
    BY <1>2, <2>1, <2>2 DEF Seats!AgentSits, Seats!Peer, Peer
  <2>4. QED
    BY <1>3, <2>3 DEF Seats!Next
<1>4. CASE p \in ViewerPeer
  <2>1. viewer' = p /\ agent' = agent /\ p # agent
    BY <1>1, <1>4 DEF Register
  <2>2. \A q \in Peer : Life(q)' = IF q = p THEN "seated"
                                   ELSE IF q = viewer THEN "unseated" ELSE Life(q)
    <3> SUFFICES ASSUME NEW q \in Peer
                 PROVE  Life(q)' = IF q = p THEN "seated"
                                   ELSE IF q = viewer THEN "unseated" ELSE Life(q)
      OBVIOUS
    <3>1. q = viewer => Phase(pc[q]) = "registered" /\ q # agent
      BY DEF SeatsHeld, HubShape, Registered, Phase, Peer
    <3>2. QED
      BY <1>1, <2>1, <3>1, LifeByPhase, LifeByPhaseNext
  <2>3. Seats!ViewerSits(p)
    BY <1>2, <2>1, <2>2 DEF Seats!ViewerSits, Seats!Peer, Peer
  <2>4. QED
    BY <1>4, <2>3 DEF Seats!Next
<1>5. QED
  BY <1>3, <1>4 DEF Peer

\* Unregister empties the seat its caller holds, the viewer's too when the caller
\* is the agent, and touches no seat when the caller has lost its own.
LEMMA UnregisterRises ==
  ASSUME HubInv, NEW p \in Peer, Unregister(p)
  PROVE  Seats!Next
<1> USE PeersAssumption DEF HubInv
<1>1. /\ Phase(pc[p]) = "registered"
      /\ \A q \in Peer : Phase(pc'[q]) = IF q = p THEN "gone" ELSE Phase(pc[q])
  BY DEF Unregister, HubShape, Phase
<1>2. \A q \in Peer : q \in {agent, viewer} => Phase(pc[q]) = "registered"
  BY DEF SeatsHeld, HubShape, Registered, Phase
<1>3. CASE p = agent /\ agent' = NoPeer /\ viewer' = NoPeer
  <2>1. \A q \in Peer : Life(q)' = IF q = agent THEN "gone"
                                   ELSE IF q = viewer THEN "unseated" ELSE Life(q)
    BY <1>1, <1>2, <1>3, LifeByPhase, LifeByPhaseNext
  <2>2. Seats!AgentRises
    BY <1>3, <2>1 DEF Seats!AgentRises, Seats!Peer, Peer
  <2>3. QED
    BY <2>2 DEF Seats!Next
<1>4. CASE p = viewer /\ viewer' = NoPeer /\ agent' = agent
  <2>1. \A q \in Peer : Life(q)' = IF q = viewer THEN "gone" ELSE Life(q)
    BY <1>1, <1>2, <1>4, LifeByPhase, LifeByPhaseNext
  <2>2. Lives' = [Lives EXCEPT ![viewer] = "gone"]
    BY <1>4, <2>1 DEF Lives
  <2>3. Seats!ViewerRises
    BY <1>4, <2>2 DEF Seats!ViewerRises, Lives
  <2>4. QED
    BY <2>3 DEF Seats!Next
<1>5. CASE p \notin {agent, viewer} /\ UNCHANGED <<agent, viewer>>
  <2>1. \A q \in Peer : Life(q)' = IF q = p THEN "gone" ELSE Life(q)
    BY <1>1, <1>5, LifeByPhase, LifeByPhaseNext
  <2>2. Life(p) = "unseated"
    BY <1>1, <1>5, LifeByPhase
  <2>3. Seats!Goes(p)
    BY <1>5, <2>1, <2>2 DEF Seats!Goes, Lives
  <2>4. QED
    BY <2>3 DEF Seats!Next, Seats!Peer, Peer
<1>6. QED
  BY <1>3, <1>4, <1>5 DEF Unregister

\* What a handler, a writer or the network does outside the two critical sections
\* is a stuttering step of SessionSeats.
LEMMA OtherStepsStutter ==
  ASSUME HubInv, Next, \A p \in Peer : ~Register(p) /\ ~Unregister(p)
  PROVE  UNCHANGED <<agent, viewer, Lives>>
<1> USE DEF HubInv
<1> PICK p \in Peer : \/ ReadMessage(p) \/ HandlerStep(p)
                      \/ WriteMessage(p) \/ WriterStops(p) \/ WriteFails(p) \/ ConnectionLost(p)
  BY DEF Next
<1>1. UNCHANGED <<agent, viewer>>
  BY DEF HandlerStep, ReadMessage, Serve, ReadFails, Forward, Enqueue, Dropped, CloseConn,
         HangUpConn, CloseAgain, HandlerReturns, WriteMessage, WriterStops, WriteFails,
         ConnectionLost
<1>2. CASE CallMade(p, closed) /\ calls[p] # <<>>
  <2>1. pc[p] \in Calling
    BY <1>2 DEF CallsInPlace
  <2>2. \A q \in Peer : Phase(pc'[q]) = Phase(pc[q])
    BY <1>2, <2>1 DEF CallMade, HubShape, Calling, Phase, AfterCalls
  <2>3. QED
    BY <1>1, <2>2, SamePhases
<1>3. CASE Serve(p) \/ ReadMessage(p) \/ ReadFails(p) \/ HandlerReturns(p)
  <2>1. \A q \in Peer : Phase(pc'[q]) = Phase(pc[q])
    BY <1>3 DEF Serve, ReadMessage, ReadFails, HandlerReturns, HubShape, Phase, AfterCalls
  <2>2. QED
    BY <1>1, <2>1, SamePhases
<1>4. CASE Forward(p)
  <2>1. \A q \in Peer : Phase(pc'[q]) = Phase(pc[q])
    BY <1>4 DEF Forward, HubShape, Phase, AfterCalls
  <2>2. QED
    BY <1>1, <2>1, SamePhases
<1>5. CASE UNCHANGED pc
  BY <1>1, <1>5, SamePhases
<1>6. QED
  BY <1>2, <1>3, <1>4, <1>5
  DEF HandlerStep, Enqueue, Dropped, CloseConn, HangUpConn, CloseAgain, WriteMessage,
      WriterStops, WriteFails, ConnectionLost

\* SignalHub keeps the safety promise of SessionSeats, whatever the order in which
\* the calls decided on under h.mu reach the other peers.
THEOREM HubImplementsSeats == Spec => Seats!SafeSpec
<1>1. Init => Seats!Init
  <2> SUFFICES ASSUME Init
               PROVE  Seats!Init
    OBVIOUS
  <2>1. \A p \in Peer : Life(p) = "new"
    BY LifeByPhase DEF Init, Phase
  <2>2. QED
    BY <2>1 DEF Init, Seats!Init, Seats!Peer, Peer
<1>2. HubInv /\ [Next]_hubVars => [Seats!Next]_(Seats!seatVars)
  <2> SUFFICES ASSUME HubInv, [Next]_hubVars
               PROVE  Seats!Next \/ UNCHANGED Seats!seatVars
    OBVIOUS
  <2>1. CASE UNCHANGED hubVars
    <3>1. UNCHANGED <<agent, viewer>> /\ pc' = pc
      BY <2>1 DEF hubVars
    <3>2. QED
      BY <3>1, SamePhases DEF Seats!seatVars, Lives
  <2>2. CASE Next /\ \A p \in Peer : ~Register(p) /\ ~Unregister(p)
    BY <2>2, OtherStepsStutter DEF Seats!seatVars, Lives
  <2>3. CASE \E p \in Peer : Register(p) \/ Unregister(p)
    BY <2>3, RegisterSits, UnregisterRises
  <2>4. QED
    BY <2>1, <2>2, <2>3
<1>3. QED
  BY <1>1, <1>2, HubInvariant, PTL DEF Spec, Seats!SafeSpec

-----------------------------------------------------------------------------
(***************************************************************************)
(* Every departed viewer is accounted for.  What a step does to owed, to the *)
(* channels and to the calls of the one handler that moves must balance.     *)
(***************************************************************************)

Mark(b) == IF b THEN 1 ELSE 0

\* A list of calls has a detach for a, and none twice.
Has(c, a) == \E i \in DOMAIN c : c[i] = Send(a, Detach)
OneDetach(c) == \A i, j \in DOMAIN c : IsDetach(c[i]) /\ IsDetach(c[j]) => i = j

\* The detaches in a channel.
Queued(seq) == {i \in DOMAIN seq : seq[i] = Detach}

DetachInv ==
    /\ outbound \in [Peer -> Seq(Message)]
    /\ owed \in [AgentPeer -> Nat]
    /\ \A a \in AgentPeer : IsFiniteSet(DetachSenders(a))
    /\ DetachesAccounted

LEMMA QueuedIsFinite ==
  ASSUME NEW seq \in Seq(Message)
  PROVE  IsFiniteSet(Queued(seq)) /\ Cardinality(Queued(seq)) \in Nat
<1>1. DOMAIN seq = 1..Len(seq) /\ Len(seq) \in Nat
  BY LenProperties
<1>2. IsFiniteSet(1..Len(seq))
  BY <1>1, FS_Interval
<1>3. Queued(seq) \subseteq 1..Len(seq)
  BY <1>1 DEF Queued
<1>4. IsFiniteSet(Queued(seq))
  BY <1>2, <1>3, FS_Subset
<1>5. QED
  BY <1>4, FS_CardinalityType

\* Sending into a channel.
LEMMA QueuedAfterAppend ==
  ASSUME NEW seq \in Seq(Message), NEW m \in Message
  PROVE  Cardinality(Queued(Append(seq, m))) = Cardinality(Queued(seq)) + Mark(m = Detach)
<1>1. /\ DOMAIN seq = 1..Len(seq) /\ Len(seq) \in Nat
      /\ DOMAIN Append(seq, m) = 1..(Len(seq) + 1)
      /\ \A i \in 1..Len(seq) : Append(seq, m)[i] = seq[i]
      /\ Append(seq, m)[Len(seq) + 1] = m
  BY LenProperties, AppendProperties
<1>2. Len(seq) + 1 \notin Queued(seq)
  BY <1>1 DEF Queued
<1>3. CASE m = Detach
  <2>1. Queued(Append(seq, m)) = Queued(seq) \cup {Len(seq) + 1}
    BY <1>1, <1>3 DEF Queued
  <2>2. QED
    BY <1>2, <1>3, <2>1, QueuedIsFinite, FS_AddElement DEF Mark
<1>4. CASE m # Detach
  <2>1. Queued(Append(seq, m)) = Queued(seq)
    BY <1>1, <1>4 DEF Queued
  <2>2. QED
    BY <1>4, <2>1, QueuedIsFinite DEF Mark
<1>5. QED
  BY <1>3, <1>4

\* Taking the first message out of a channel.
LEMMA QueuedAfterTail ==
  ASSUME NEW seq \in Seq(Message), seq # <<>>
  PROVE  Cardinality(Queued(seq)) = Cardinality(Queued(Tail(seq))) + Mark(Head(seq) = Detach)
<1> DEFINE rest == Queued(seq) \ {1}
           shift == [i \in rest |-> i - 1]
<1>1. /\ DOMAIN seq = 1..Len(seq) /\ Len(seq) \in Nat \ {0}
      /\ Tail(seq) \in Seq(Message)
      /\ DOMAIN Tail(seq) = 1..(Len(seq) - 1)
      /\ \A i \in 1..(Len(seq) - 1) : Tail(seq)[i] = seq[i + 1]
      /\ Head(seq) = seq[1]
  BY LenProperties, HeadTailProperties, EmptySeq
<1>2. shift \in Bijection(rest, Queued(Tail(seq)))
  <2>1. \A i \in rest : i - 1 \in Queued(Tail(seq))
    BY <1>1 DEF Queued
  <2>2. \A k \in Queued(Tail(seq)) : k + 1 \in rest /\ (k + 1) - 1 = k
    BY <1>1 DEF Queued
  <2>3. \A i, k \in rest : i - 1 = k - 1 => i = k
    BY <1>1 DEF Queued
  <2>4. QED
    BY <2>1, <2>2, <2>3 DEF Bijection, Injection, Surjection, IsInjective
<1>3. IsFiniteSet(rest) /\ Cardinality(rest) = Cardinality(Queued(seq)) - Mark(Head(seq) = Detach)
  <2>1. 1 \in Queued(seq) <=> Head(seq) = Detach
    BY <1>1 DEF Queued
  <2>2. QED
    BY <2>1, QueuedIsFinite, FS_RemoveElement DEF Mark
<1>4. Cardinality(Queued(Tail(seq))) = Cardinality(rest)
  BY <1>2, <1>3, FS_Bijection DEF ExistsBijection
<1>5. QED
  BY <1>3, <1>4, QueuedIsFinite DEF Mark

\* What is left of a handler's calls after the first.
LEMMA HasAfterTail ==
  ASSUME NEW c \in Seq(Call), c # <<>>, OneDetach(c)
  PROVE  /\ OneDetach(Tail(c))
         /\ \A a \in AgentPeer : Mark(Has(c, a)) = Mark(Has(Tail(c), a)) + Mark(Head(c) = Send(a, Detach))
<1>1. /\ DOMAIN c = 1..Len(c) /\ Len(c) \in Nat \ {0}
      /\ Tail(c) \in Seq(Call)
      /\ DOMAIN Tail(c) = 1..(Len(c) - 1)
      /\ \A i \in 1..(Len(c) - 1) : Tail(c)[i] = c[i + 1]
      /\ Head(c) = c[1]
  BY LenProperties, HeadTailProperties, EmptySeq
<1>2. OneDetach(Tail(c))
  <2> SUFFICES ASSUME NEW i \in DOMAIN Tail(c), NEW j \in DOMAIN Tail(c),
                      IsDetach(Tail(c)[i]), IsDetach(Tail(c)[j])
               PROVE  i = j
    BY DEF OneDetach
  <2>1. i + 1 \in DOMAIN c /\ j + 1 \in DOMAIN c /\ IsDetach(c[i + 1]) /\ IsDetach(c[j + 1])
    BY <1>1
  <2>2. i + 1 = j + 1
    BY <2>1 DEF OneDetach
  <2>3. QED
    BY <1>1, <2>2
<1>3. ASSUME NEW a \in AgentPeer
      PROVE  Mark(Has(c, a)) = Mark(Has(Tail(c), a)) + Mark(Head(c) = Send(a, Detach))
  <2>1. Has(c, a) <=> Has(Tail(c), a) \/ Head(c) = Send(a, Detach)
    <3>1. ASSUME NEW i \in DOMAIN c, c[i] = Send(a, Detach), i # 1
          PROVE  Has(Tail(c), a)
      <4>1. i - 1 \in DOMAIN Tail(c) /\ Tail(c)[i - 1] = c[i]
        BY <1>1, <3>1
      <4>2. QED
        BY <3>1, <4>1 DEF Has
    <3>2. ASSUME NEW i \in DOMAIN Tail(c), Tail(c)[i] = Send(a, Detach)
          PROVE  Has(c, a)
      <4>1. i + 1 \in DOMAIN c /\ c[i + 1] = Tail(c)[i]
        BY <1>1
      <4>2. QED
        BY <3>2, <4>1 DEF Has
    <3>3. 1 \in DOMAIN c
      BY <1>1
    <3>4. QED
      BY <1>1, <3>1, <3>2, <3>3 DEF Has
  <2>2. ASSUME Has(Tail(c), a), Head(c) = Send(a, Detach)
        PROVE  FALSE
    <3>1. PICK i \in DOMAIN Tail(c) : Tail(c)[i] = Send(a, Detach)
      BY <2>2 DEF Has
    <3>2. /\ i + 1 \in DOMAIN c /\ 1 \in DOMAIN c /\ i + 1 # 1
          /\ c[i + 1] = Send(a, Detach) /\ c[1] = Send(a, Detach)
      BY <1>1, <2>2, <3>1
    <3>3. QED
      BY <3>2 DEF OneDetach, IsDetach
  <2>3. QED
    BY <2>1, <2>2 DEF Mark
<1>4. QED
  BY <1>2, <1>3

\* The senders of detaches, after handler p got other calls to make.
LEMMA SendersChange ==
  ASSUME HubShape, NEW p \in Peer, NEW c \in Seq(Call), calls' = [calls EXCEPT ![p] = c],
         NEW a \in AgentPeer, IsFiniteSet(DetachSenders(a))
  PROVE  /\ IsFiniteSet(DetachSenders(a)')
         /\ Cardinality(DetachSenders(a)) \in Nat /\ Cardinality(DetachSenders(a)') \in Nat
         /\ Cardinality(DetachSenders(a)') + Mark(Has(calls[p], a))
                = Cardinality(DetachSenders(a)) + Mark(Has(c, a))
<1> DEFINE S == DetachSenders(a)
           T == DetachSenders(a)'
<1>1. calls'[p] = c /\ \A q \in Peer : q # p => calls'[q] = calls[q]
  BY DEF HubShape
<1>2. /\ p \in S <=> Has(calls[p], a)
      /\ p \in T <=> Has(c, a)
      /\ S \ {p} = T \ {p}
  BY <1>1 DEF DetachSenders, Has
<1>3. T = IF Has(c, a) THEN S \cup {p} ELSE S \ {p}
  BY <1>2 DEF DetachSenders
<1>4. Cardinality(S) \in Nat
  BY FS_CardinalityType
<1> HIDE DEF S, T
<1>5. IsFiniteSet(S)
  BY DEF S
<1>6. IsFiniteSet(T) /\ Cardinality(T) + Mark(Has(calls[p], a)) = Cardinality(S) + Mark(Has(c, a))
  <2>1. CASE Has(c, a)
    <3>1. T = S \cup {p}
      BY <1>3, <2>1
    <3>2. IsFiniteSet(T) /\ Cardinality(T) = IF p \in S THEN Cardinality(S) ELSE Cardinality(S) + 1
      BY <1>5, <3>1, FS_AddElement
    <3>3. QED
      BY <1>2, <1>4, <2>1, <3>2 DEF Mark
  <2>2. CASE ~Has(c, a)
    <3>1. T = S \ {p}
      BY <1>3, <2>2
    <3>2. IsFiniteSet(T) /\ Cardinality(T) = IF p \in S THEN Cardinality(S) - 1 ELSE Cardinality(S)
      BY <1>5, <3>1, FS_RemoveElement
    <3>3. QED
      BY <1>2, <1>4, <2>2, <3>2 DEF Mark
  <2>3. QED
    BY <2>1, <2>2
<1>7. Cardinality(T) \in Nat
  BY <1>6, FS_CardinalityType
<1>8. QED
  BY <1>4, <1>6, <1>7 DEF S, T

\* The lists of calls the hub's methods make.
Clean(c) == \A i \in DOMAIN c : ~IsDetach(c[i])

LEMMA ShortLists ==
  /\ <<>> \in Seq(Call) /\ Clean(<<>>) /\ OneDetach(<<>>)
  /\ \A x \in Call : /\ <<x>> \in Seq(Call) /\ OneDetach(<<x>>)
                     /\ ~IsDetach(x) => Clean(<<x>>)
                     /\ \A a \in AgentPeer : Has(<<x>>, a) <=> x = Send(a, Detach)
  BY EmptySeq DEF Clean, OneDetach, Has

LEMMA CleanHasNone ==
  ASSUME NEW c, Clean(c)
  PROVE  OneDetach(c) /\ \A a \in AgentPeer : ~Has(c, a)
  BY DEF Clean, OneDetach, Has, IsDetach

LEMMA ListsJoin ==
  ASSUME NEW s \in Seq(Call), NEW t \in Seq(Call), OneDetach(s), OneDetach(t), Clean(s) \/ Clean(t)
  PROVE  /\ s \o t \in Seq(Call) /\ OneDetach(s \o t)
         /\ Clean(s) /\ Clean(t) => Clean(s \o t)
         /\ \A a \in AgentPeer : Has(s \o t, a) <=> Has(s, a) \/ Has(t, a)
<1>1. /\ Len(s) \in Nat /\ DOMAIN s = 1..Len(s) /\ Len(t) \in Nat /\ DOMAIN t = 1..Len(t)
      /\ s \o t \in Seq(Call)
      /\ DOMAIN (s \o t) = 1..(Len(s) + Len(t))
      /\ \A i \in 1..(Len(s) + Len(t)) : (s \o t)[i] = IF i <= Len(s) THEN s[i] ELSE t[i - Len(s)]
  BY LenProperties, ConcatProperties
<1>2. \A i \in DOMAIN (s \o t) : \/ i \in DOMAIN s /\ (s \o t)[i] = s[i]
                                 \/ i - Len(s) \in DOMAIN t /\ (s \o t)[i] = t[i - Len(s)]
  BY <1>1
<1>3. /\ \A i \in DOMAIN s : i \in DOMAIN (s \o t) /\ (s \o t)[i] = s[i]
      /\ \A i \in DOMAIN t : i + Len(s) \in DOMAIN (s \o t) /\ (s \o t)[i + Len(s)] = t[i]
  BY <1>1
<1>4. OneDetach(s \o t)
  <2> SUFFICES ASSUME NEW i \in DOMAIN (s \o t), NEW j \in DOMAIN (s \o t),
                      IsDetach((s \o t)[i]), IsDetach((s \o t)[j])
               PROVE  i = j
    BY DEF OneDetach
  <2>1. CASE Clean(s)
    <3>1. /\ i - Len(s) \in DOMAIN t /\ IsDetach(t[i - Len(s)])
          /\ j - Len(s) \in DOMAIN t /\ IsDetach(t[j - Len(s)])
      BY <1>2, <2>1 DEF Clean
    <3>2. i - Len(s) = j - Len(s)
      BY <3>1 DEF OneDetach
    <3>3. QED
      BY <1>1, <3>2
  <2>2. CASE Clean(t)
    BY <1>2, <2>2 DEF Clean, OneDetach
  <2>3. QED
    BY <2>1, <2>2
<1>5. Clean(s) /\ Clean(t) => Clean(s \o t)
  BY <1>2 DEF Clean
<1>6. \A a \in AgentPeer : Has(s \o t, a) <=> Has(s, a) \/ Has(t, a)
  BY <1>2, <1>3 DEF Has
<1>7. QED
  BY <1>1, <1>4, <1>5, <1>6

\* Which calls are detaches.
LEMMA CallKinds ==
  ASSUME NEW q
  PROVE  /\ ~IsDetach(Close(q)) /\ ~IsDetach(HangUp(q))
         /\ ~IsDetach(Send(q, ViewerReplaced)) /\ ~IsDetach(Send(q, Signal))
         /\ \A a \in AgentPeer, m \in Message : Send(q, m) = Send(a, Detach) <=> q = a /\ m = Detach
<1>1. ~IsDetach(Close(q)) /\ ~IsDetach(HangUp(q))
  <2>1. \A a \in AgentPeer : Send(a, Detach).op = "send"
    BY DEF Send
  <2>2. Close(q).op = "close" /\ HangUp(q).op = "hangup"
    BY DEF Close, HangUp
  <2>3. QED
    BY <2>1, <2>2 DEF IsDetach
<1>2. \A a, m, n : Send(q, m) = Send(a, n) <=> q = a /\ m = n
  <2>1. \A r, m : Send(r, m).to = r /\ Send(r, m).msg = m
    BY DEF Send
  <2>2. QED
    BY <2>1
<1>3. ~IsDetach(Send(q, ViewerReplaced)) /\ ~IsDetach(Send(q, Signal))
  BY <1>2 DEF IsDetach, ViewerReplaced, Signal, Detach
<1>4. QED
  BY <1>1, <1>2, <1>3

\* A handler p whose calls become c: what it still owes changes with what is
\* queued and with what it has to send.
Balanced(p, c) ==
  /\ c \in Seq(Call)
  /\ calls' = [calls EXCEPT ![p] = c]
  /\ OneDetach(c)
  /\ outbound' \in [Peer -> Seq(Message)]
  /\ owed' \in [AgentPeer -> Int]
  /\ \A a \in AgentPeer :
        owed'[a] + Cardinality(Queued(outbound[a])) + Mark(Has(calls[p], a))
            = owed[a] + Cardinality(Queued(outbound'[a])) + Mark(Has(c, a))

\* What one handler does to its calls, to owed and to the channels balances.
LEMMA Balances ==
  ASSUME HubShape, DetachInv, NEW p \in Peer, NEW c, Balanced(p, c)
  PROVE  DetachInv'
<1> USE DEF Balanced
<1>1. \A q \in Peer : \A i, j \in DOMAIN calls'[q] :
         IsDetach(calls'[q][i]) /\ IsDetach(calls'[q][j]) => i = j
  BY DEF DetachInv, DetachesAccounted, OneDetach, HubShape
<1>2. ASSUME NEW a \in AgentPeer
      PROVE  /\ IsFiniteSet(DetachSenders(a)')
             /\ owed'[a] \in Nat
             /\ owed'[a] = Cardinality(DetachSenders(a)') + Cardinality(DetachesQueued(a)')
  <2>1. a \in Peer /\ outbound[a] \in Seq(Message) /\ outbound'[a] \in Seq(Message)
    BY DEF DetachInv, Peer
  <2>2. /\ Cardinality(Queued(outbound[a])) \in Nat
        /\ Cardinality(Queued(outbound'[a])) \in Nat
    BY <2>1, QueuedIsFinite
  <2>3. owed[a] = Cardinality(DetachSenders(a)) + Cardinality(Queued(outbound[a]))
    BY DEF DetachInv, DetachesAccounted, DetachesQueued, Queued
  <2>4. /\ IsFiniteSet(DetachSenders(a)')
        /\ Cardinality(DetachSenders(a)) \in Nat /\ Cardinality(DetachSenders(a)') \in Nat
        /\ Cardinality(DetachSenders(a)') + Mark(Has(calls[p], a))
               = Cardinality(DetachSenders(a)) + Mark(Has(c, a))
    BY SendersChange DEF DetachInv
  <2>5. Mark(Has(c, a)) \in {0, 1} /\ Mark(Has(calls[p], a)) \in {0, 1} /\ owed'[a] \in Int
    BY DEF Mark
  <2>6. owed'[a] = Cardinality(DetachSenders(a)') + Cardinality(Queued(outbound'[a]))
    <3> DEFINE n == owed'[a]
               x == Mark(Has(calls[p], a))
               y == Mark(Has(c, a))
               s == Cardinality(DetachSenders(a))
               t == Cardinality(DetachSenders(a)')
               q == Cardinality(Queued(outbound[a]))
               r == Cardinality(Queued(outbound'[a]))
    <3>1. /\ n + q + x = owed[a] + r + y
          /\ owed[a] = s + q /\ t + x = s + y
      BY <2>3, <2>4
    <3>2. {n, x, y, s, t, q, r} \subseteq Int
      BY <2>2, <2>4, <2>5
    <3> HIDE DEF n, x, y, s, t, q, r
    <3>3. n = t + r
      BY <3>1, <3>2
    <3>4. QED
      BY <3>3 DEF n, t, r
  <2>7. DetachesQueued(a)' = Queued(outbound'[a])
    BY DEF DetachesQueued, Queued
  <2>8. QED
    BY <2>2, <2>4, <2>6, <2>7
<1>3. owed' \in [AgentPeer -> Nat]
  BY <1>2
<1>4. QED
  BY <1>1, <1>2, <1>3 DEF DetachInv, DetachesAccounted, IsDetach

\* A viewer takes its seat, and its agent's old one leaves.
LEMMA RegisterBalances ==
  ASSUME HubInv, DetachInv, NEW p \in Peer, Register(p)
  PROVE  DetachInv'
<1> USE DEF HubInv
<1>1. calls[p] = <<>> /\ outbound' = outbound
  BY DEF Register, CallsInPlace, Calling
<1>2. outbound \in [Peer -> Seq(Message)] /\ owed \in [AgentPeer -> Nat]
  BY DEF DetachInv
<1>3. CASE p \in AgentPeer /\ agent' = p
  <2>1. PICK c \in Seq(Call) : calls' = [calls EXCEPT ![p] = c] /\ Clean(c)
    <3>1. IfPeer(agent, <<Close(agent)>>) \in Seq(Call) /\ Clean(IfPeer(agent, <<Close(agent)>>))
      BY CallShape, ShortLists, CallKinds DEF IfPeer, HubShape, Peer
    <3>2. calls' = [calls EXCEPT ![p] = IfPeer(agent, <<Close(agent)>>)]
      BY <1>3, PeersAssumption DEF Register
    <3>3. QED
      BY <3>1, <3>2
  <2>2. owed' = owed
    BY <1>3, PeersAssumption DEF Register
  <2>3. \A a \in AgentPeer : ~Has(c, a) /\ ~Has(calls[p], a)
    BY <1>1, <2>1, CleanHasNone, ShortLists
  <2>4. \A a \in AgentPeer : Cardinality(Queued(outbound[a])) \in Nat
    BY <1>2, QueuedIsFinite DEF Peer
  <2>5. OneDetach(c) /\ owed' \in [AgentPeer -> Int] /\ outbound' \in [Peer -> Seq(Message)]
    BY <1>1, <1>2, <2>1, <2>2, CleanHasNone
  <2>6. Balanced(p, c)
    BY <1>1, <1>2, <2>1, <2>2, <2>3, <2>4, <2>5 DEF Mark, Balanced
  <2>7. QED
    BY <2>6, Balances
<1>4. CASE p \in ViewerPeer
  <2> DEFINE last == IfPeer(agent, <<Send(agent, Detach)>>)
             first == <<Send(viewer, ViewerReplaced), Close(viewer)>>
             c == IfPeer(viewer, first \o last)
  <2>1. /\ calls' = [calls EXCEPT ![p] = c]
        /\ owed' = IF viewer # NoPeer /\ agent # NoPeer
                   THEN [owed EXCEPT ![agent] = @ + 1] ELSE owed
    BY <1>4, PeersAssumption DEF Register, ViewerDeparts
  <2>2. /\ last \in Seq(Call) /\ OneDetach(last)
        /\ \A a \in AgentPeer : Has(last, a) <=> agent = a
    <3>1. CASE agent = NoPeer
      BY <3>1, ShortLists, CleanHasNone, PeersAssumption DEF IfPeer, Peer
    <3>2. CASE agent # NoPeer
      <4>1. agent \in Peer /\ Send(agent, Detach) \in Call /\ last = <<Send(agent, Detach)>>
        BY <3>2, CallShape DEF IfPeer, HubShape, Peer, Message
      <4>2. \A a \in AgentPeer : Send(agent, Detach) = Send(a, Detach) <=> agent = a
        BY CallKinds DEF Message
      <4>3. QED
        BY <4>1, <4>2, ShortLists
    <3>3. QED
      BY <3>1, <3>2
  <2>3. CASE viewer = NoPeer
    <3>1. c = <<>> /\ owed' = owed
      BY <2>1, <2>3 DEF IfPeer
    <3>2. \A a \in AgentPeer : ~Has(c, a) /\ ~Has(calls[p], a)
      BY <1>1, <3>1, CleanHasNone, ShortLists
    <3>3. \A a \in AgentPeer : Cardinality(Queued(outbound[a])) \in Nat
      BY <1>2, QueuedIsFinite DEF Peer
    <3> HIDE DEF c
    <3>4. /\ c \in Seq(Call) /\ OneDetach(c)
          /\ owed' \in [AgentPeer -> Int] /\ outbound' \in [Peer -> Seq(Message)]
      BY <1>1, <1>2, <3>1, ShortLists
    <3>5. Balanced(p, c)
      BY <1>1, <1>2, <2>1, <3>1, <3>2, <3>3, <3>4 DEF Mark, Balanced
    <3>6. QED
      BY <3>5, Balances
  <2>4. CASE viewer # NoPeer
    <3>1. first \in Seq(Call) /\ Clean(first)
      <4>1. viewer \in Peer /\ Send(viewer, ViewerReplaced) \in Call /\ Close(viewer) \in Call
        BY <2>4, CallShape DEF HubShape, Peer, Message
      <4>2. \A i \in DOMAIN first : first[i] \in {Send(viewer, ViewerReplaced), Close(viewer)}
        OBVIOUS
      <4>3. Clean(first)
        BY <4>2, CallKinds DEF Clean
      <4>4. QED
        BY <4>1, <4>3
    <3> HIDE DEF first, last
    <3>2. /\ c \in Seq(Call) /\ OneDetach(c)
          /\ \A a \in AgentPeer : Has(c, a) <=> Has(last, a)
      BY <2>2, <2>4, <3>1, CleanHasNone, ListsJoin DEF IfPeer
    <3> HIDE DEF c
    <3>3. \A a \in AgentPeer : (Has(c, a) <=> agent = a) /\ ~Has(calls[p], a)
      BY <1>1, <2>2, <3>2, CleanHasNone, ShortLists
    <3>4. \A a \in AgentPeer : Cardinality(Queued(outbound[a])) \in Nat
      BY <1>2, QueuedIsFinite DEF Peer
    <3>5. /\ owed' \in [AgentPeer -> Nat]
          /\ \A a \in AgentPeer : owed'[a] = owed[a] + Mark(agent = a)
      BY <1>2, <2>1, <2>4, PeersAssumption DEF HubShape, Mark, Peer
    <3>6. \A a \in AgentPeer :
             owed'[a] + Cardinality(Queued(outbound[a])) + Mark(Has(calls[p], a))
                 = owed[a] + Cardinality(Queued(outbound'[a])) + Mark(Has(c, a))
      BY <1>1, <1>2, <3>3, <3>4, <3>5 DEF Mark
    <3>7. owed' \in [AgentPeer -> Int] /\ outbound' \in [Peer -> Seq(Message)]
      BY <1>1, <1>2, <3>5
    <3>8. Balanced(p, c)
      BY <2>1, <3>2, <3>6, <3>7 DEF Balanced
    <3>9. QED
      BY <3>8, Balances
  <2>5. QED
    BY <2>3, <2>4
<1>5. QED
  BY <1>3, <1>4 DEF Register

\* A viewer that leaves owes its agent a detach; an agent that leaves is owed no more.
LEMMA UnregisterBalances ==
  ASSUME HubInv, DetachInv, NEW p \in Peer, Unregister(p)
  PROVE  DetachInv'
<1> USE DEF HubInv
<1>1. calls[p] = <<>> /\ outbound' = outbound
  BY DEF Unregister, CallsInPlace, Calling
<1>2. /\ outbound \in [Peer -> Seq(Message)] /\ owed \in [AgentPeer -> Nat]
      /\ \A a \in AgentPeer : Cardinality(Queued(outbound[a])) \in Nat
  BY QueuedIsFinite DEF DetachInv, Peer
<1>3. /\ <<Close(p)>> \in Seq(Call) /\ Clean(<<Close(p)>>) /\ OneDetach(<<Close(p)>>)
      /\ IfPeer(viewer, <<Close(viewer)>>) \in Seq(Call)
      /\ Clean(IfPeer(viewer, <<Close(viewer)>>)) /\ OneDetach(IfPeer(viewer, <<Close(viewer)>>))
  BY CallShape, ShortLists, CallKinds DEF IfPeer, HubShape, Peer
<1>4. CASE /\ owed' = owed
           /\ \E c \in Seq(Call) : calls' = [calls EXCEPT ![p] = c] /\ Clean(c)
  <2>1. PICK c \in Seq(Call) : calls' = [calls EXCEPT ![p] = c] /\ Clean(c)
    BY <1>4
  <2>2. \A a \in AgentPeer : ~Has(c, a) /\ ~Has(calls[p], a)
    BY <1>1, <2>1, CleanHasNone, ShortLists
  <2>3. OneDetach(c) /\ owed' \in [AgentPeer -> Int] /\ outbound' \in [Peer -> Seq(Message)]
    BY <1>1, <1>2, <1>4, <2>1, CleanHasNone
  <2>4. Balanced(p, c)
    BY <1>1, <1>2, <1>4, <2>1, <2>2, <2>3 DEF Mark, Balanced
  <2>5. QED
    BY <2>4, Balances
<1>5. CASE p = viewer
  <2> DEFINE first == IfPeer(agent, <<Send(agent, Detach)>>)
             c == first \o <<Close(p)>>
  <2>1. /\ calls' = [calls EXCEPT ![p] = c]
        /\ owed' = IF agent # NoPeer THEN [owed EXCEPT ![agent] = @ + 1] ELSE owed
    BY <1>5, PeersAssumption DEF Unregister, ViewerDeparts, HubShape, Peer
  <2>2. /\ first \in Seq(Call) /\ OneDetach(first)
        /\ \A a \in AgentPeer : Has(first, a) <=> agent = a
    <3>1. CASE agent = NoPeer
      BY <3>1, ShortLists, CleanHasNone, PeersAssumption DEF IfPeer, Peer
    <3>2. CASE agent # NoPeer
      <4>1. agent \in Peer /\ Send(agent, Detach) \in Call /\ first = <<Send(agent, Detach)>>
        BY <3>2, CallShape DEF IfPeer, HubShape, Peer, Message
      <4>2. \A a \in AgentPeer : Send(agent, Detach) = Send(a, Detach) <=> agent = a
        BY CallKinds DEF Message
      <4>3. QED
        BY <4>1, <4>2, ShortLists
    <3>3. QED
      BY <3>1, <3>2
  <2> HIDE DEF first
  <2>3. /\ c \in Seq(Call) /\ OneDetach(c)
        /\ \A a \in AgentPeer : Has(c, a) <=> Has(first, a)
    BY <1>3, <2>2, CleanHasNone, ListsJoin
  <2> HIDE DEF c
  <2>4. \A a \in AgentPeer : (Has(c, a) <=> agent = a) /\ ~Has(calls[p], a)
    BY <1>1, <2>2, <2>3, CleanHasNone, ShortLists
  <2>5. /\ owed' \in [AgentPeer -> Nat]
        /\ \A a \in AgentPeer : owed'[a] = owed[a] + Mark(agent = a)
    BY <1>2, <2>1, PeersAssumption DEF HubShape, Mark, Peer
  <2>6. \A a \in AgentPeer :
           owed'[a] + Cardinality(Queued(outbound[a])) + Mark(Has(calls[p], a))
               = owed[a] + Cardinality(Queued(outbound'[a])) + Mark(Has(c, a))
    BY <1>1, <1>2, <2>4, <2>5 DEF Mark
  <2>7. owed' \in [AgentPeer -> Int] /\ outbound' \in [Peer -> Seq(Message)]
    BY <1>1, <1>2, <2>5
  <2>8. Balanced(p, c)
    BY <2>1, <2>3, <2>6, <2>7 DEF Balanced
  <2>9. QED
    BY <2>8, Balances
<1>6. p # viewer => /\ owed' = owed
                    /\ \E c \in Seq(Call) : calls' = [calls EXCEPT ![p] = c] /\ Clean(c)
  <2> SUFFICES ASSUME p # viewer
               PROVE  /\ owed' = owed
                      /\ \E c \in Seq(Call) : calls' = [calls EXCEPT ![p] = c] /\ Clean(c)
    OBVIOUS
  <2>1. CASE p = agent
    <3>1. /\ IfPeer(viewer, <<Close(viewer)>>) \o <<Close(p)>> \in Seq(Call)
          /\ Clean(IfPeer(viewer, <<Close(viewer)>>) \o <<Close(p)>>)
      BY <1>3, ListsJoin
    <3>2. QED
      BY <2>1, <3>1 DEF Unregister
  <2>2. CASE p # agent
    BY <1>3, <2>2 DEF Unregister
  <2>3. QED
    BY <2>1, <2>2
<1>7. QED
  BY <1>4, <1>5, <1>6

\* Nothing is sent, written or dropped, and nobody gets other calls to make.
LEMMA QuietBalances ==
  ASSUME DetachInv, UNCHANGED <<calls, outbound, owed>>
  PROVE  DetachInv'
<1>1. \A a : DetachSenders(a)' = DetachSenders(a) /\ DetachesQueued(a)' = DetachesQueued(a)
  BY DEF DetachSenders, DetachesQueued
<1>2. DetachesAccounted'
  BY <1>1 DEF DetachInv, DetachesAccounted, IsDetach
<1>3. QED
  BY <1>1, <1>2 DEF DetachInv

LEMMA ForwardBalances ==
  ASSUME HubInv, DetachInv, NEW p \in Peer, Forward(p)
  PROVE  DetachInv'
<1> USE DEF HubInv
<1>1. calls[p] = <<>> /\ outbound' = outbound /\ owed' = owed
  BY DEF Forward, CallsInPlace, Calling
<1>2. \A a \in AgentPeer : Cardinality(Queued(outbound[a])) \in Nat
  BY QueuedIsFinite DEF DetachInv, Peer
<1>3. PICK c \in Seq(Call) : calls' = [calls EXCEPT ![p] = c] /\ Clean(c)
  <2> DEFINE target == IF p \in AgentPeer THEN viewer ELSE agent
  <2>1. calls' = [calls EXCEPT ![p] = IfPeer(target, <<Send(target, Signal)>>)]
    BY DEF Forward
  <2>2. CASE target = NoPeer
    BY <2>1, <2>2, ShortLists DEF IfPeer
  <2>3. CASE target # NoPeer
    <3>1. target \in Peer
      BY <2>3 DEF HubShape, Peer
    <3> HIDE DEF target
    <3>2. Send(target, Signal) \in Call /\ ~IsDetach(Send(target, Signal))
      BY <3>1, CallShape, CallKinds DEF Message
    <3>3. <<Send(target, Signal)>> \in Seq(Call) /\ Clean(<<Send(target, Signal)>>)
      BY <3>2, ShortLists
    <3>4. QED
      BY <2>1, <2>3, <3>3 DEF IfPeer
  <2>4. QED
    BY <2>2, <2>3
<1>4. \A a \in AgentPeer : ~Has(c, a) /\ ~Has(calls[p], a)
  BY <1>1, <1>3, CleanHasNone, ShortLists
<1>5. OneDetach(c) /\ owed' \in [AgentPeer -> Int] /\ outbound' \in [Peer -> Seq(Message)]
  BY <1>1, <1>3, CleanHasNone DEF DetachInv
<1>6. Balanced(p, c)
  BY <1>1, <1>2, <1>3, <1>4, <1>5 DEF Mark, Balanced
<1>7. QED
  BY <1>6, Balances

\* The calls of a handler that has some, and what stays when it made the first.
LEMMA FirstCall ==
  ASSUME HubShape, DetachInv, NEW p \in Peer, calls[p] # <<>>
  PROVE  /\ calls[p] \in Seq(Call) /\ Head(calls[p]) \in Call /\ Tail(calls[p]) \in Seq(Call)
         /\ OneDetach(calls[p]) /\ OneDetach(Tail(calls[p]))
         /\ \A a \in AgentPeer : Mark(Has(calls[p], a)) = Mark(Has(Tail(calls[p]), a))
                                                            + Mark(Head(calls[p]) = Send(a, Detach))
<1>1. calls[p] \in Seq(Call)
  BY DEF HubShape
<1>2. Head(calls[p]) \in Call /\ Tail(calls[p]) \in Seq(Call)
  BY <1>1, HeadTailProperties
<1>3. OneDetach(calls[p])
  BY DEF DetachInv, DetachesAccounted, OneDetach
<1>4. QED
  BY <1>1, <1>2, <1>3, HasAfterTail

\* A message that is written or lost.
LEMMA SettledOwes ==
  ASSUME owed \in [AgentPeer -> Nat], NEW q, NEW m, Settled(q, m)
  PROVE  /\ owed' \in [AgentPeer -> Int]
         /\ \A a \in AgentPeer :
               owed'[a] = IF a = q /\ m = Detach THEN owed[a] - 1 ELSE owed[a]
<1>1. CASE m = Detach /\ q \in AgentPeer
  BY <1>1 DEF Settled
<1>2. CASE m # Detach \/ q \notin AgentPeer
  <2>1. owed' = owed
    BY <1>2 DEF Settled
  <2>2. QED
    BY <1>2, <2>1
<1>3. QED
  BY <1>1, <1>2

\* A send into the channel moves the detach from the calls to the channel.
LEMMA EnqueueBalances ==
  ASSUME HubInv, DetachInv, NEW p \in Peer, Enqueue(p)
  PROVE  DetachInv'
<1> USE DEF HubInv
<1> DEFINE c == Tail(calls[p])
<1>1. PICK q \in Peer, m \in Message :
         Head(calls[p]) = Send(q, m) /\ Head(calls[p]).to = q /\ Head(calls[p]).msg = m
  <2>1. Head(calls[p]) \in Call /\ Head(calls[p]).op = "send"
    BY FirstCall DEF Enqueue
  <2>2. QED
    BY <2>1 DEF Call, Send
<1>2. /\ calls[p] # <<>> /\ calls' = [calls EXCEPT ![p] = c] /\ owed' = owed
      /\ outbound' = [outbound EXCEPT ![q] = Append(@, m)]
  BY <1>1 DEF Enqueue, CallMade
<1>3. outbound[q] \in Seq(Message) /\ Append(outbound[q], m) \in Seq(Message)
  BY AppendProperties DEF DetachInv
<1>4. \A a \in AgentPeer :
         /\ Cardinality(Queued(outbound[a])) \in Nat
         /\ Cardinality(Queued(outbound'[a])) = Cardinality(Queued(outbound[a]))
                                                  + Mark(Head(calls[p]) = Send(a, Detach))
  <2> TAKE a \in AgentPeer
  <2>1. a \in Peer /\ Cardinality(Queued(outbound[a])) \in Nat
    BY QueuedIsFinite DEF DetachInv, Peer
  <2>2. Head(calls[p]) = Send(a, Detach) <=> q = a /\ m = Detach
    BY <1>1, CallKinds
  <2>3. CASE a = q
    <3>1. outbound'[a] = Append(outbound[q], m)
      BY <1>2, <2>1, <2>3 DEF DetachInv
    <3>2. QED
      BY <1>3, <2>1, <2>2, <2>3, <3>1, QueuedAfterAppend
  <2>4. CASE a # q
    <3>1. outbound'[a] = outbound[a]
      BY <1>2, <2>1, <2>4 DEF DetachInv
    <3>2. QED
      BY <2>1, <2>2, <2>4, <3>1 DEF Mark
  <2>5. QED
    BY <2>3, <2>4
<1>5. /\ c \in Seq(Call) /\ OneDetach(c)
      /\ \A a \in AgentPeer : Mark(Has(calls[p], a)) = Mark(Has(c, a)) + Mark(Head(calls[p]) = Send(a, Detach))
  BY <1>2, FirstCall
<1>6. owed' \in [AgentPeer -> Int] /\ outbound' \in [Peer -> Seq(Message)]
  BY <1>2, <1>3 DEF DetachInv
<1> HIDE DEF c
<1>7. Balanced(p, c)
  BY <1>2, <1>4, <1>5, <1>6 DEF Mark, Balanced, DetachInv
<1>8. QED
  BY <1>7, Balances

\* A dropped send gives up the detach with what was owed.
LEMMA DroppedBalances ==
  ASSUME HubInv, DetachInv, NEW p \in Peer, Dropped(p)
  PROVE  DetachInv'
<1> USE DEF HubInv
<1> DEFINE c == Tail(calls[p])
<1>1. PICK q \in Peer, m \in Message :
         Head(calls[p]) = Send(q, m) /\ Head(calls[p]).to = q /\ Head(calls[p]).msg = m
  <2>1. Head(calls[p]) \in Call /\ Head(calls[p]).op = "send"
    BY FirstCall DEF Dropped
  <2>2. QED
    BY <2>1 DEF Call, Send
<1>2. /\ calls[p] # <<>> /\ calls' = [calls EXCEPT ![p] = c] /\ outbound' = outbound
      /\ Settled(q, m)
  BY <1>1 DEF Dropped, CallMade
<1>3. \A a \in AgentPeer : Cardinality(Queued(outbound[a])) \in Nat
  BY QueuedIsFinite DEF DetachInv, Peer
<1>4. \A a \in AgentPeer : owed'[a] = owed[a] - Mark(Head(calls[p]) = Send(a, Detach))
  <2> TAKE a \in AgentPeer
  <2>1. Head(calls[p]) = Send(a, Detach) <=> q = a /\ m = Detach
    BY <1>1, CallKinds
  <2>2. QED
    BY <1>2, <2>1, SettledOwes DEF DetachInv, Mark
<1>5. /\ c \in Seq(Call) /\ OneDetach(c)
      /\ \A a \in AgentPeer : Mark(Has(calls[p], a)) = Mark(Has(c, a)) + Mark(Head(calls[p]) = Send(a, Detach))
  BY <1>2, FirstCall
<1>6. owed' \in [AgentPeer -> Int] /\ outbound' \in [Peer -> Seq(Message)]
  BY <1>2, SettledOwes DEF DetachInv
<1> HIDE DEF c
<1>7. Balanced(p, c)
  BY <1>2, <1>3, <1>4, <1>5, <1>6 DEF Mark, Balanced, DetachInv
<1>8. QED
  BY <1>7, Balances

\* A close, by whichever of its steps, moves no detach.
LEMMA CloseBalances ==
  ASSUME HubInv, DetachInv, NEW p \in Peer, CloseConn(p) \/ HangUpConn(p) \/ CloseAgain(p)
  PROVE  DetachInv'
<1> USE DEF HubInv
<1>1. calls[p] # <<>> /\ outbound' = outbound /\ owed' = owed
  BY DEF CloseConn, HangUpConn, CloseAgain
<1>2. \A a \in AgentPeer : Cardinality(Queued(outbound[a])) \in Nat
  BY QueuedIsFinite DEF DetachInv, Peer
<1>3. \A a \in AgentPeer : Has(calls[p], a) <=> Has(Tail(calls[p]), a)
  <2>1. Head(calls[p]).op \in {"close", "hangup"}
    BY DEF CloseConn, HangUpConn, CloseAgain
  <2>2. \A a \in AgentPeer : Head(calls[p]) # Send(a, Detach)
    BY <2>1 DEF Send
  <2>3. QED
    BY <1>1, <2>2, FirstCall DEF Mark
<1>4. PICK c \in Seq(Call) : /\ calls' = [calls EXCEPT ![p] = c]
                             /\ OneDetach(c)
                             /\ \A a \in AgentPeer : Has(c, a) <=> Has(Tail(calls[p]), a)
  <2>1. Tail(calls[p]) \in Seq(Call) /\ OneDetach(Tail(calls[p])) /\ Head(calls[p]) \in Call
    BY <1>1, FirstCall
  <2>2. CASE HangUpConn(p) \/ CloseAgain(p)
    BY <2>1, <2>2 DEF HangUpConn, CloseAgain, CallMade
  <2>3. CASE CloseConn(p)
    <3>1. PICK q \in Peer : calls' = [calls EXCEPT ![p] = <<HangUp(q)>> \o Tail(calls[p])]
      BY <2>1, <2>3 DEF CloseConn, Call
    <3>2. /\ <<HangUp(q)>> \in Seq(Call) /\ OneDetach(<<HangUp(q)>>) /\ Clean(<<HangUp(q)>>)
          /\ \A a \in AgentPeer : ~Has(<<HangUp(q)>>, a)
      BY CallShape, CallKinds, ShortLists, CleanHasNone
    <3>3. QED
      BY <2>1, <3>1, <3>2, ListsJoin
  <2>4. QED
    BY <2>2, <2>3
<1>5. owed' \in [AgentPeer -> Int] /\ outbound' \in [Peer -> Seq(Message)]
  BY <1>1 DEF DetachInv
<1>6. Balanced(p, c)
  BY <1>1, <1>2, <1>3, <1>4, <1>5 DEF Mark, Balanced
<1>7. QED
  BY <1>6, Balances

\* The writer takes a message out of its channel, to the socket or to its loss.
LEMMA WriteBalances ==
  ASSUME HubInv, DetachInv, NEW p \in Peer, WriteMessage(p) \/ WriteFails(p)
  PROVE  DetachInv'
<1> USE DEF HubInv
<1> DEFINE m == Head(outbound[p])
<1>1. /\ outbound[p] # <<>> /\ calls' = calls
      /\ outbound' = [outbound EXCEPT ![p] = Tail(outbound[p])]
      /\ Settled(p, m)
  BY DEF WriteMessage, WriteFails
<1>2. /\ outbound[p] \in Seq(Message) /\ Tail(outbound[p]) \in Seq(Message)
      /\ Cardinality(Queued(outbound[p])) = Cardinality(Queued(Tail(outbound[p]))) + Mark(m = Detach)
      /\ Cardinality(Queued(Tail(outbound[p]))) \in Nat
  <2>1. outbound[p] \in Seq(Message)
    BY DEF DetachInv
  <2>2. Tail(outbound[p]) \in Seq(Message)
    BY <1>1, <2>1, HeadTailProperties
  <2>3. QED
    BY <1>1, <2>1, <2>2, QueuedAfterTail, QueuedIsFinite
<1> HIDE DEF m
<1>3. \A a \in AgentPeer :
         /\ Cardinality(Queued(outbound[a])) \in Nat
         /\ owed'[a] + Cardinality(Queued(outbound[a])) = owed[a] + Cardinality(Queued(outbound'[a]))
  <2> TAKE a \in AgentPeer
  <2>1. a \in Peer /\ Cardinality(Queued(outbound[a])) \in Nat /\ owed[a] \in Nat
    BY QueuedIsFinite DEF DetachInv, Peer
  <2>2. CASE a = p
    <3>1. outbound'[a] = Tail(outbound[p]) /\ owed'[a] = owed[a] - Mark(m = Detach)
      BY <1>1, <2>1, <2>2, SettledOwes DEF DetachInv, Mark
    <3>2. QED
      BY <1>2, <2>1, <2>2, <3>1 DEF Mark
  <2>3. CASE a # p
    <3>1. outbound'[a] = outbound[a] /\ owed'[a] = owed[a]
      BY <1>1, <2>1, <2>3, SettledOwes DEF DetachInv
    <3>2. QED
      BY <2>1, <3>1
  <2>4. QED
    BY <2>2, <2>3
<1>4. /\ calls[p] \in Seq(Call) /\ OneDetach(calls[p])
      /\ calls' = [calls EXCEPT ![p] = calls[p]]
  BY <1>1 DEF HubShape, DetachInv, DetachesAccounted, OneDetach
<1>5. owed' \in [AgentPeer -> Int] /\ outbound' \in [Peer -> Seq(Message)]
  BY <1>1, <1>2, SettledOwes DEF DetachInv
<1>6. \A a \in AgentPeer :
         owed'[a] + Cardinality(Queued(outbound[a])) + Mark(Has(calls[p], a))
             = owed[a] + Cardinality(Queued(outbound'[a])) + Mark(Has(calls[p], a))
  BY <1>3
<1>7. Balanced(p, calls[p])
  BY <1>4, <1>5, <1>6 DEF Balanced
<1>8. QED
  BY <1>7, Balances

\* No detach is lost or sent twice: while a viewer's departure is not yet written
\* to its agent or dropped, exactly one handler or one place in the channel has it.
THEOREM DetachesAreAccounted == Spec => []DetachesAccounted
<1>1. Init => DetachInv
  <2> SUFFICES ASSUME Init
               PROVE  DetachInv
    OBVIOUS
  <2>1. \A a : DetachSenders(a) = {}
    BY DEF Init, DetachSenders
  <2>2. \A a \in AgentPeer : DetachesQueued(a) = {}
    BY DEF Init, DetachesQueued, Peer
  <2>3. IsFiniteSet({}) /\ Cardinality({}) = 0
    BY FS_EmptySet
  <2>4. DetachesAccounted
    <3>1. \A p \in Peer : DOMAIN calls[p] = {}
      BY EmptySeq DEF Init
    <3>2. ASSUME NEW a \in AgentPeer
          PROVE  owed[a] = Cardinality(DetachSenders(a)) + Cardinality(DetachesQueued(a))
      <4>1. owed[a] = 0 /\ DetachSenders(a) = {} /\ DetachesQueued(a) = {}
        BY <2>1, <2>2 DEF Init
      <4>2. QED
        BY <2>3, <4>1
    <3>3. QED
      BY <3>1, <3>2 DEF DetachesAccounted
  <2>5. outbound \in [Peer -> Seq(Message)] /\ owed \in [AgentPeer -> Nat]
    BY EmptySeq DEF Init
  <2>6. QED
    BY <2>1, <2>3, <2>4, <2>5 DEF DetachInv
<1>2. HubInv /\ DetachInv /\ [Next]_hubVars => DetachInv'
  <2> SUFFICES ASSUME HubInv, DetachInv, [Next]_hubVars
               PROVE  DetachInv'
    OBVIOUS
  <2>1. CASE UNCHANGED hubVars
    BY <2>1, QuietBalances DEF hubVars
  <2>2. ASSUME NEW p \in Peer, Register(p)
        PROVE  DetachInv'
    BY <2>2, RegisterBalances
  <2>3. ASSUME NEW p \in Peer, HandlerStep(p)
        PROVE  DetachInv'
    <3>1. CASE Serve(p) \/ ReadFails(p) \/ HandlerReturns(p)
      BY <3>1, QuietBalances DEF Serve, ReadFails, HandlerReturns
    <3>2. CASE Forward(p)
      BY <3>2, ForwardBalances
    <3>3. CASE Unregister(p)
      BY <3>3, UnregisterBalances
    <3>4. CASE Enqueue(p)
      BY <3>4, EnqueueBalances
    <3>5. CASE Dropped(p)
      BY <3>5, DroppedBalances
    <3>6. CASE CloseConn(p) \/ HangUpConn(p) \/ CloseAgain(p)
      BY <3>6, CloseBalances
    <3>7. QED
      BY <2>3, <3>1, <3>2, <3>3, <3>4, <3>5, <3>6 DEF HandlerStep
  <2>4. ASSUME NEW p \in Peer, WriteMessage(p) \/ WriteFails(p)
        PROVE  DetachInv'
    BY <2>4, WriteBalances
  <2>5. ASSUME NEW p \in Peer, ReadMessage(p) \/ WriterStops(p) \/ ConnectionLost(p)
        PROVE  DetachInv'
    BY <2>5, QuietBalances DEF ReadMessage, WriterStops, ConnectionLost
  <2>6. QED
    BY <2>1, <2>2, <2>3, <2>4, <2>5 DEF Next
<1>3. DetachInv => DetachesAccounted
  BY DEF DetachInv
<1>4. QED
  BY <1>1, <1>2, <1>3, HubInvariant, PTL DEF Spec
=============================================================================
