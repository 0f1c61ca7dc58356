\* A shell of the profile and a shell of a user key, each with its bridge.
SPECIFICATION Spec
CONSTANTS
    h1 = h1
    h2 = h2
    b1 = b1
    b2 = b2
    c1 = c1
    Heartbeats = {h1, h2}
    Bridges = {b1, b2}
    Commands = {}
    HeartbeatOf <- MCTwoBridges
    UserKeyed = {h2}
    MaxSession = 4
    Unreliable = TRUE
INVARIANTS
    LoginIsKept
    StopsForAReason
    KeyStaysOutOfProfile
PROPERTIES
    ProfileNeverGoesBack
CHECK_DEADLOCK FALSE
