------------------------------ MODULE SignalHub ------------------------------
(***************************************************************************)
(* controlplane.SignalHub and the goroutines of signaling.HandleWebSocket   *)
(* that use it: the relay between an agent and a viewer.                    *)
(*                                                                          *)
(* The model has the connections of one (subject, session) key; the entries *)
(* of two keys share nothing but the mutex.  An entry exists exactly while  *)
(* it has an agent or a viewer.                                             *)
(*                                                                          *)
(* A connection has a handler goroutine (register, read loop, unregister)   *)
(* and a writer goroutine.  The hub's methods decide under h.mu and act on  *)
(* other peers after unlocking it: `calls` holds the Send and Close calls a *)
(* handler has still to make, and each is a step of its own.  Payloads,     *)
(* close codes and JSON are left out.                                       *)
(***************************************************************************)
EXTENDS Integers, FiniteSets, Sequences

CONSTANTS
    AgentPeer, ViewerPeer,  \* one number per WebSocket connection of the role,
                            \* in the order they come
    NoPeer,                 \* the nil peer
    SendBuffer,             \* capacity of the outbound channel, 128 in the code
    MaxReads,               \* BOUND: messages the clients send, in total
    MaxConnections          \* BOUND: connections made, in total

Peer == AgentPeer \cup ViewerPeer

ASSUME PeersAssumption ==
    /\ Peer \subseteq Nat
    /\ AgentPeer \cap ViewerPeer = {}
    /\ NoPeer \notin Peer
    /\ SendBuffer \in Nat \ {0}
    /\ MaxReads \in Nat
    /\ MaxConnections \in Nat

VARIABLES
    agent, viewer,  \* the hub's entry for the session
    pc,             \* where each connection's handler is
    calls,          \* the peer calls a handler has still to make
    outbound,       \* the outbound channel of each connection
    closed,         \* closeConn ran: the closed channel is closed
    conn,           \* the socket: "up", or "down" once either side ended it
    writer,         \* the writer goroutine: "none", "running" or "stopped"
    reads,          \* messages read so far
    owed,           \* history: viewers that left while the agent was registered,
                    \* less the detach messages written to it or dropped
    lateForwards    \* history: forwards a handler began after its closeConn

hubVars == <<agent, viewer, pc, calls, outbound, closed, conn, writer, reads,
             owed, lateForwards>>

Detach == "detach"
ViewerReplaced == "viewer_replaced"
Signal == "signal"     \* anything a client sends: offer, answer, candidate, ...
Message == {Detach, ViewerReplaced, Signal}

Send(p, m) == [op |-> "send", to |-> p, msg |-> m]
Close(p) == [op |-> "close", to |-> p]
HangUp(p) == [op |-> "hangup", to |-> p]  \* the rest of a close that has begun

Init ==
    /\ agent = NoPeer
    /\ viewer = NoPeer
    /\ pc = [p \in Peer |-> "new"]
    /\ calls = [p \in Peer |-> <<>>]
    /\ outbound = [p \in Peer |-> <<>>]
    /\ closed = [p \in Peer |-> FALSE]
    /\ conn = [p \in Peer |-> "up"]
    /\ writer = [p \in Peer |-> "none"]
    /\ reads = 0
    /\ owed = [a \in AgentPeer |-> 0]
    /\ lateForwards = [p \in Peer |-> 0]

-----------------------------------------------------------------------------
\* The calls to make for the peers that are there, in the code's order.
IfPeer(p, seq) == IF p = NoPeer THEN <<>> ELSE seq

\* Mutant of AfterCalls: the read loop does not look at the closed channel.
AfterCallsReadsOn(p, isClosed) ==
    IF pc[p] = "unregistering" THEN "closing" ELSE "reading"

\* Where the handler goes when it has made its calls.
AfterCalls(p, isClosed) ==
    IF pc[p] = "unregistering" THEN "closing"
    ELSE IF isClosed THEN "unregister" ELSE "reading"

\* The viewer's seat is vacated or taken over under a registered agent.
ViewerDeparts ==
    owed' = IF viewer # NoPeer /\ agent # NoPeer
            THEN [owed EXCEPT ![agent] = @ + 1] ELSE owed

\* Message m is written to q, or lost on the way to it.
Settled(q, m) == owed' = IF m = Detach THEN [owed EXCEPT ![q] = @ - 1] ELSE owed

\* Mutant of Register: the agent is not told that its viewer was replaced.
RegisterQuietly(p) ==
    /\ pc[p] = "new"
    /\ pc' = [pc EXCEPT ![p] = "registering"]
    /\ \/ p \in AgentPeer /\ agent' = p /\ UNCHANGED <<viewer, owed>>
       \/ p \in ViewerPeer /\ viewer' = p /\ ViewerDeparts /\ UNCHANGED agent
    /\ calls' = [calls EXCEPT ![p] =
                    LET other == IF p \in AgentPeer THEN agent ELSE viewer
                    IN  IfPeer(other, <<Close(other)>>)]
    /\ UNCHANGED <<outbound, closed, conn, writer, reads, lateForwards>>

\* SignalHub.Register, its critical section.
Register(p) ==
    /\ pc[p] = "new"
    /\ pc' = [pc EXCEPT ![p] = "registering"]
    /\ \/ /\ p \in AgentPeer
          /\ agent' = p
          /\ calls' = [calls EXCEPT ![p] = IfPeer(agent, <<Close(agent)>>)]
          /\ UNCHANGED <<viewer, owed>>
       \/ /\ p \in ViewerPeer
          /\ viewer' = p
          /\ calls' = [calls EXCEPT ![p] = IfPeer(viewer,
                          <<Send(viewer, ViewerReplaced), Close(viewer)>>
                             \o IfPeer(agent, <<Send(agent, Detach)>>))]
          /\ ViewerDeparts
          /\ UNCHANGED agent
    /\ UNCHANGED <<outbound, closed, conn, writer, reads, lateForwards>>

\* Register returned: the writer starts and the read loop begins.
Serve(p) ==
    /\ pc[p] = "registering"
    /\ calls[p] = <<>>
    /\ writer' = [writer EXCEPT ![p] = "running"]
    /\ pc' = [pc EXCEPT ![p] = AfterCalls(p, closed[p])]
    /\ UNCHANGED <<agent, viewer, calls, outbound, closed, conn, reads, lateForwards, owed>>

\* ReadMessage returns a message.  It may have been buffered before the socket
\* was closed; the closed channel was checked before the read began.
ReadMessage(p) ==
    /\ pc[p] = "reading"
    /\ reads < MaxReads
    /\ reads' = reads + 1
    /\ pc' = [pc EXCEPT ![p] = "forwarding"]
    /\ UNCHANGED <<agent, viewer, calls, outbound, closed, conn, writer, lateForwards, owed>>

\* ReadMessage fails: the loop ends.
ReadFails(p) ==
    /\ pc[p] = "reading"
    /\ conn[p] = "down"
    /\ pc' = [pc EXCEPT ![p] = "unregister"]
    /\ UNCHANGED <<agent, viewer, calls, outbound, closed, conn, writer, reads, lateForwards, owed>>

\* SignalHub.Forward, its critical section.  The target is the holder of the
\* other seat; whether p still holds its own is not asked.
Forward(p) ==
    LET target == IF p \in AgentPeer THEN viewer ELSE agent IN
    /\ pc[p] = "forwarding"
    /\ pc' = [pc EXCEPT ![p] = IF target = NoPeer THEN AfterCalls(p, closed[p]) ELSE "sending"]
    /\ calls' = [calls EXCEPT ![p] = IfPeer(target, <<Send(target, Signal)>>)]
    /\ lateForwards' = [lateForwards EXCEPT ![p] = IF closed[p] THEN @ + 1 ELSE @]
    /\ UNCHANGED <<agent, viewer, outbound, closed, conn, writer, reads, owed>>

\* Mutant of Unregister: the seat is emptied by role, whoever holds it.
UnregisterByRole(p) ==
    /\ pc[p] = "unregister"
    /\ pc' = [pc EXCEPT ![p] = "unregistering"]
    /\ agent' = IF p \in AgentPeer THEN NoPeer ELSE agent
    /\ viewer' = NoPeer
    /\ calls' = [calls EXCEPT ![p] = <<Close(p)>>]
    /\ ViewerDeparts
    /\ UNCHANGED <<outbound, closed, conn, writer, reads, lateForwards>>

\* SignalHub.Unregister, its critical section.  A peer that no longer holds its
\* seat leaves the entry alone.  The handler's own closeConn comes last.
Unregister(p) ==
    /\ pc[p] = "unregister"
    /\ pc' = [pc EXCEPT ![p] = "unregistering"]
    /\ \/ /\ p = agent
          /\ agent' = NoPeer
          /\ viewer' = NoPeer
          /\ calls' = [calls EXCEPT ![p] = IfPeer(viewer, <<Close(viewer)>>) \o <<Close(p)>>]
          /\ UNCHANGED owed
       \/ /\ p = viewer
          /\ viewer' = NoPeer
          /\ calls' = [calls EXCEPT ![p] = IfPeer(agent, <<Send(agent, Detach)>>) \o <<Close(p)>>]
          /\ ViewerDeparts
          /\ UNCHANGED agent
       \/ /\ p \notin {agent, viewer}
          /\ calls' = [calls EXCEPT ![p] = <<Close(p)>>]
          /\ UNCHANGED <<agent, viewer, owed>>
    /\ UNCHANGED <<outbound, closed, conn, writer, reads, lateForwards>>

\* The handler makes its next call and, after the last one of a forward or of
\* Unregister, moves on.
CallMade(p, closed2) ==
    /\ calls' = [calls EXCEPT ![p] = Tail(@)]
    /\ pc' = [pc EXCEPT ![p] = IF Len(calls[p]) = 1 /\ @ # "registering"
                               THEN AfterCalls(p, closed2[p]) ELSE @]

\* peer.Send: never blocks.  With the closed channel closed and room in the
\* outbound channel, select takes either case.
Enqueue(p) ==
    /\ calls[p] # <<>>
    /\ Head(calls[p]).op = "send"
    /\ LET q == Head(calls[p]).to IN
        /\ Len(outbound[q]) < SendBuffer
        /\ outbound' = [outbound EXCEPT ![q] = Append(@, Head(calls[p]).msg)]
    /\ CallMade(p, closed)
    /\ UNCHANGED <<agent, viewer, closed, conn, writer, reads, lateForwards, owed>>

Dropped(p) ==
    /\ calls[p] # <<>>
    /\ Head(calls[p]).op = "send"
    /\ LET q == Head(calls[p]).to IN
        /\ closed[q] \/ Len(outbound[q]) >= SendBuffer
        /\ Settled(q, Head(calls[p]).msg)
    /\ CallMade(p, closed)
    /\ UNCHANGED <<agent, viewer, outbound, closed, conn, writer, reads, lateForwards>>

\* peer.Close, the closeConn of q's handler: the closed channel is closed ...
CloseConn(p) ==
    /\ calls[p] # <<>>
    /\ Head(calls[p]).op = "close"
    /\ LET q == Head(calls[p]).to IN
        /\ ~closed[q]
        /\ closed' = [closed EXCEPT ![q] = TRUE]
        /\ calls' = [calls EXCEPT ![p] = <<HangUp(q)>> \o Tail(@)]
    /\ UNCHANGED <<agent, viewer, pc, outbound, conn, writer, reads, lateForwards, owed>>

\* ... and, after the close frame was written or its two seconds ran out, the
\* socket.
HangUpConn(p) ==
    /\ calls[p] # <<>>
    /\ Head(calls[p]).op = "hangup"
    /\ conn' = [conn EXCEPT ![Head(calls[p]).to] = "down"]
    /\ CallMade(p, closed)
    /\ UNCHANGED <<agent, viewer, outbound, closed, writer, reads, lateForwards, owed>>

\* closeOnce.Do of a later caller does nothing, but not before the first is through.
CloseAgain(p) ==
    /\ calls[p] # <<>>
    /\ Head(calls[p]).op = "close"
    /\ LET q == Head(calls[p]).to IN
        /\ closed[q]
        /\ \A r \in Peer : calls[r] # <<>> => Head(calls[r]) # HangUp(q)
    /\ CallMade(p, closed)
    /\ UNCHANGED <<agent, viewer, outbound, closed, conn, writer, reads, lateForwards, owed>>

\* <-writeDone: the handler returns.
HandlerReturns(p) ==
    /\ pc[p] = "closing"
    /\ writer[p] = "stopped"
    /\ pc' = [pc EXCEPT ![p] = "done"]
    /\ UNCHANGED <<agent, viewer, calls, outbound, closed, conn, writer, reads, lateForwards, owed>>

\* The writer puts one message on the socket.
WriteMessage(p) ==
    /\ writer[p] = "running"
    /\ conn[p] = "up"
    /\ outbound[p] # <<>>
    /\ outbound' = [outbound EXCEPT ![p] = Tail(@)]
    /\ Settled(p, Head(outbound[p]))
    /\ UNCHANGED <<agent, viewer, pc, calls, closed, conn, writer, reads, lateForwards>>

\* Mutant of WriterStops: the closed channel is only looked at with a message in hand.
WriterStopsBetweenMessages(p) ==
    /\ writer[p] = "running"
    /\ closed[p]
    /\ outbound[p] # <<>>
    /\ writer' = [writer EXCEPT ![p] = "stopped"]
    /\ UNCHANGED <<agent, viewer, pc, calls, outbound, closed, conn, reads, lateForwards, owed>>

\* The writer sees the closed channel.
WriterStops(p) ==
    /\ writer[p] = "running"
    /\ closed[p]
    /\ writer' = [writer EXCEPT ![p] = "stopped"]
    /\ UNCHANGED <<agent, viewer, pc, calls, outbound, closed, conn, reads, lateForwards, owed>>

\* WriteJSON fails, on a dead socket or at its ten-second deadline on a stalled
\* one: the message is lost and the writer is gone; nobody tells the read loop.
WriteFails(p) ==
    /\ writer[p] = "running"
    /\ outbound[p] # <<>>
    /\ writer' = [writer EXCEPT ![p] = "stopped"]
    /\ outbound' = [outbound EXCEPT ![p] = Tail(@)]
    /\ Settled(p, Head(outbound[p]))
    /\ UNCHANGED <<agent, viewer, pc, calls, closed, conn, reads, lateForwards>>

\* The client closes the connection, or the network loses it.
ConnectionLost(p) ==
    /\ pc[p] \notin {"new", "done"}
    /\ conn[p] = "up"
    /\ conn' = [conn EXCEPT ![p] = "down"]
    /\ UNCHANGED <<agent, viewer, pc, calls, outbound, closed, writer, reads, lateForwards, owed>>

HandlerStep(p) ==
    \/ Serve(p)
    \/ ReadFails(p)
    \/ Forward(p)
    \/ Unregister(p)
    \/ Enqueue(p)
    \/ Dropped(p)
    \/ CloseConn(p)
    \/ HangUpConn(p)
    \/ CloseAgain(p)
    \/ HandlerReturns(p)

SameRole(p, q) == {p, q} \subseteq AgentPeer \/ {p, q} \subseteq ViewerPeer

\* p is the next connection of its role, and one more fits into the bound.
IsNextConnection(p) ==
    /\ \A q \in Peer : SameRole(p, q) /\ q < p => pc[q] # "new"
    /\ Cardinality({q \in Peer : pc[q] # "new"}) < MaxConnections

Next == \E p \in Peer :
    \/ IsNextConnection(p) /\ Register(p)
    \/ ReadMessage(p)
    \/ HandlerStep(p)
    \/ WriteMessage(p)
    \/ WriterStops(p)
    \/ WriteFails(p)
    \/ ConnectionLost(p)

Spec == Init /\ [][Next]_hubVars

\* The Go scheduler runs every goroutine that can run.  Clients owe nothing: they
\* need not connect, send, or hang up.
FairSpec ==
    /\ Spec
    /\ \A p \in Peer : WF_hubVars(HandlerStep(p)) /\ WF_hubVars(WriterStops(p))

-----------------------------------------------------------------------------
Call == [op : {"send"}, to : Peer, msg : Message] \cup [op : {"close", "hangup"}, to : Peer]

PC == {"new", "registering", "reading", "forwarding", "sending", "unregister",
       "unregistering", "closing", "done"}

\* The shape of the hub's entry and of the goroutines' state.
TypeOK ==
    /\ agent \in AgentPeer \cup {NoPeer}
    /\ viewer \in ViewerPeer \cup {NoPeer}
    /\ pc \in [Peer -> PC]
    /\ calls \in [Peer -> Seq(Call)]
    /\ outbound \in [Peer -> Seq(Message)]
    /\ closed \in [Peer -> BOOLEAN]
    /\ conn \in [Peer -> {"up", "down"}]
    /\ writer \in [Peer -> {"none", "running", "stopped"}]
    /\ reads \in 0..MaxReads
    /\ owed \in [AgentPeer -> Nat]
    /\ lateForwards \in [Peer -> Nat]

\* Between the critical sections of Register and Unregister.
Registered(p) == pc[p] \in {"registering", "reading", "forwarding", "sending", "unregister"}

IsDetach(call) == \E a \in AgentPeer : call = Send(a, Detach)

\* The handlers that have still to send a detach to a, and the detaches in a's channel.
DetachSenders(a) == {p \in Peer : \E i \in DOMAIN calls[p] : calls[p][i] = Send(a, Detach)}
DetachesQueued(a) == {i \in DOMAIN outbound[a] : outbound[a][i] = Detach}

\* Every viewer that left an agent it was paired with yields exactly one detach
\* for that agent: it is still to be sent (by a handler that has no second one to
\* send), queued, written, or was dropped.
DetachesAccounted ==
    /\ \A p \in Peer : \A i, j \in DOMAIN calls[p] :
          IsDetach(calls[p][i]) /\ IsDetach(calls[p][j]) => i = j
    /\ \A a \in AgentPeer :
          owed[a] = Cardinality(DetachSenders(a)) + Cardinality(DetachesQueued(a))

\* After its connection was closed a handler forwards at most the one message it
\* had read: a replaced peer cannot keep talking to the other side.
ClosedPeerForwardsOnce == \A p \in Peer : lateForwards[p] <= 1

Life(p) ==
    CASE pc[p] = "new"                              -> "new"
      [] Registered(p) /\ p \in {agent, viewer}     -> "seated"
      [] Registered(p) /\ p \notin {agent, viewer}  -> "unseated"
      [] OTHER                                      -> "gone"

Seats == INSTANCE SessionSeats WITH
            agentSeat <- agent, viewerSeat <- viewer,
            life <- [p \in Peer |-> Life(p)]

\* The hub keeps the promise of SessionSeats, including that a connection that
\* lost its seat is eventually gone.
ImplementsSeats == Seats!Spec

\* Whoever lost the connection leaves nothing running: the handler returns, and
\* with it the writer.  (A lost connection stays lost and a handler that returned
\* stays so: this says of each connection that the loss leads to the return.)
LostConnectionIsReleased ==
    <>[](\A p \in Peer : pc[p] # "new" /\ conn[p] = "down" => pc[p] = "done")
=============================================================================
