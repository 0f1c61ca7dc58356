\* A shell of the profile with its bridge, one of a user key without, and a command,
\* on a network that works.
SPECIFICATION FairSpec
CONSTANTS
    h1 = h1
    h2 = h2
    b1 = b1
    b2 = b2
    c1 = c1
    Heartbeats = {h1, h2}
    Bridges = {b1}
    Commands = {c1}
    HeartbeatOf <- MCOneBridge
    UserKeyed = {h2}
    MaxSession = 4
    Unreliable = FALSE
PROPERTIES
    AuthRecovers
CHECK_DEADLOCK FALSE
