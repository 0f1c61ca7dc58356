\* Two tokens with overlapping lifetimes, three requests racing for them, asked for the promise of the architecture document.
SPECIFICATION Spec
CONSTANTS
    t1 = t1
    t2 = t2
    r1 = r1
    r2 = r2
    r3 = r3
    Absent = Absent
    Answered = Answered
    Token <- MCToken
    NotBefore <- MCNotBefore
    ExpiresAt <- MCExpiresAt
    Request <- MCRequest
    ClockSkew = 1
    MaxClock = 6
SYMMETRY Symmetry
INVARIANTS
    AcceptedOnce
CHECK_DEADLOCK FALSE
