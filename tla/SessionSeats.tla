---------------------------- MODULE SessionSeats ----------------------------
(***************************************************************************)
(* What the signaling hub promises of one session: one seat for the agent,  *)
(* one for the viewer.  The newcomer always gets the seat of its role; who  *)
(* loses a seat is out, and eventually gone; a viewer loses its seat when   *)
(* the seated agent leaves.                                                 *)
(***************************************************************************)

CONSTANTS
    AgentPeer, ViewerPeer,  \* the connections of the two roles
    NoPeer                  \* an empty seat

VARIABLES
    agentSeat, viewerSeat,
    life        \* per connection: "new", "seated", "unseated" or "gone"

seatVars == <<agentSeat, viewerSeat, life>>

Peer == AgentPeer \cup ViewerPeer

Init ==
    /\ agentSeat = NoPeer
    /\ viewerSeat = NoPeer
    /\ life = [p \in Peer |-> "new"]

AgentSits(p) ==
    /\ life[p] = "new"
    /\ agentSeat' = p
    /\ life' = [q \in Peer |-> IF q = p THEN "seated"
                               ELSE IF q = agentSeat THEN "unseated" ELSE life[q]]
    /\ UNCHANGED viewerSeat

ViewerSits(p) ==
    /\ life[p] = "new"
    /\ viewerSeat' = p
    /\ life' = [q \in Peer |-> IF q = p THEN "seated"
                               ELSE IF q = viewerSeat THEN "unseated" ELSE life[q]]
    /\ UNCHANGED agentSeat

\* The agent takes the viewer's seat with it.
AgentRises ==
    /\ agentSeat # NoPeer
    /\ agentSeat' = NoPeer
    /\ viewerSeat' = NoPeer
    /\ life' = [q \in Peer |-> IF q = agentSeat THEN "gone"
                               ELSE IF q = viewerSeat THEN "unseated" ELSE life[q]]

ViewerRises ==
    /\ viewerSeat # NoPeer
    /\ viewerSeat' = NoPeer
    /\ life' = [life EXCEPT ![viewerSeat] = "gone"]
    /\ UNCHANGED agentSeat

Goes(p) ==
    /\ life[p] = "unseated"
    /\ life' = [life EXCEPT ![p] = "gone"]
    /\ UNCHANGED <<agentSeat, viewerSeat>>

Next ==
    \/ \E p \in AgentPeer : AgentSits(p)
    \/ \E p \in ViewerPeer : ViewerSits(p)
    \/ AgentRises
    \/ ViewerRises
    \/ \E p \in Peer : Goes(p)

SafeSpec == Init /\ [][Next]_seatVars

Spec == SafeSpec /\ \A p \in Peer : WF_seatVars(Goes(p))
=============================================================================
