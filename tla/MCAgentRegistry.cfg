\* The registry alone, all interleavings of its methods.
SPECIFICATION RegistrySpec
CONSTANTS
    u1 = u1
    x1 = x1
    x2 = x2
    Absent = Absent
    Subject <- MCSubject
    Session <- MCSession
    MaxSessions <- MCMaxSessions
    StaleAfter = 2
    TombstoneRetention = 4
    LockDelay = 1
    MaxClock = 8
INVARIANTS
    RegistryInv
PROPERTIES
    SweepKeepsLiveSessions
    TerminateAllHitsLiveSessions
    TerminatedStaysOut
