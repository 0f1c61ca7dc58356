\* The process and another session of the account compete for one slot, with two
\* connects in flight, a cleanup, crashes and lost requests.
SPECIFICATION LifecycleFairSpec
CONSTANTS
    u1 = u1
    x1 = x1
    x2 = x2
    h1 = h1
    h2 = h2
    None = None
    Absent = Absent
    Owner = u1
    Me = x1
    Subject <- MCSubject
    Session <- MCSession
    MaxSessions <- MCMaxSessions
    Handler <- MCHandler
    StaleAfter = 1
    TombstoneRetention = 3
    LockDelay = 0
    MaxClock = 2
INVARIANTS
    SessionLimit
    NoLeakedSlot
    UnregisterIsFinal
PROPERTIES
    TerminatedShellEnds
    RunningAgentIsListed
    ExitedShellIsForgotten
