\* Two viewer tokens and an agent's, two requests racing for them, while the session
\* comes, is terminated, swept and comes again.
SPECIFICATION AdmissionSpec
CONSTANTS
    u1 = u1
    x1 = x1
    va = va
    vb = vb
    ag = ag
    r1 = r1
    r2 = r2
    Absent = Absent
    Answered = Answered
    Token <- MCToken
    NotBefore <- MCNotBefore
    ExpiresAt <- MCExpiresAt
    Request <- MCRequest
    ViewerToken <- MCViewerToken
    SubjectOf <- MCSubjectOf
    SessionOf <- MCSessionOf
    Subject <- MCSubject
    Session <- MCSession
    MaxSessions <- MCMaxSessions
    ClockSkew = 1
    StaleAfter = 2
    TombstoneRetention = 2
    LockDelay = 1
    MaxClock = 5
SYMMETRY Symmetry
INVARIANTS
    OneUseBeforeExpiry
PROPERTIES
    TerminatedAdmitsNoViewer
    LiveAgentIsReachable
CHECK_DEADLOCK FALSE
