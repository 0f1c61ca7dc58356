\* Two requests in flight from one address while the entitlements change.
SPECIFICATION FairSpec
CONSTANTS
    k1 = k1
    k2 = k2
    s1 = s1
    s2 = s2
    x1 = x1
    r1 = r1
    h1 = h1
    h2 = h2
    NoTx = NoTx
    Absent = Absent
    Key <- MCKey
    Subject <- MCSubject
    Tx <- MCTx
    Remote <- MCRemote
    Handler <- MCHandler
    Limit = 2
    Window = 2
    LockDelay = 1
    MaxClock = 6
INVARIANTS
    IndexesMatchItems
    GuessesBounded
PROPERTIES
    NoSubjectTakeover
    LockoutEnds
