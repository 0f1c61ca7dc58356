\* Three connections in any mix of roles: two agents replace each other, or two
\* viewers do.
SPECIFICATION FairSpec
CONSTANTS
    NoPeer = NoPeer
    AgentPeer <- MCAgents
    ViewerPeer <- MCViewers
    SendBuffer = 1
    MaxReads = 2
    MaxConnections = 3
INVARIANTS
    ClosedPeerForwardsOnce
    DetachesAccounted
PROPERTIES
    ImplementsSeats
    LostConnectionIsReleased
CHECK_DEADLOCK FALSE
