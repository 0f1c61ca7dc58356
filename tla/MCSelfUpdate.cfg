\* Two invocations update one executable while two releases are published.
SPECIFICATION FairSpec
CONSTANTS
    p1 = p1
    p2 = p2
    Forged = Forged
    Torn = Torn
    Process <- MCProcess
    MaxRelease = 3
    MaxParts = 3
    MaxPart = 2
    MaxPrerelease = 2
    VersionOf <- MCVersionOf
    BuiltVersion <- MCBuiltVersion
INVARIANTS
    ExecutableIsWhole
    ReplacesOnce
    VersionsAreOrdered
PROPERTIES
    DowngradeNeedsTheHost
    UpdateSettles
CHECK_DEADLOCK FALSE
