\* Two requests race for refresh tokens and a login key; one key, two subjects.
SPECIFICATION Spec
CONSTANTS
    k1 = k1
    s1 = s1
    s2 = s2
    f1 = f1
    f2 = f2
    f3 = f3
    w1 = w1
    r1 = r1
    r2 = r2
    NoTx = NoTx
    Absent = Absent
    Key <- MCKey
    Subject <- MCSubject
    Tx <- MCTx
    RefreshToken <- MCRefreshToken
    LoginKey <- MCLoginKey
    Request <- MCRequest
    RefreshTTL = 1
    LoginTTL = 1
    LockDelay = 1
    MaxClock = 2
    MaxIssues = 2
SYMMETRY Symmetry
INVARIANTS
    LoginIsOneChain
    LoginKeyGoodForOneAttempt
