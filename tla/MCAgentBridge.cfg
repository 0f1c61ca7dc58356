\* The agent's bridge, every interleaving.
SPECIFICATION FairSpec
CONSTANTS
    SignalQueue = 2
    IceCandidate = {c1, c2}
    NoPump = NoPump
INVARIANTS
    LossIsOfTheCurrentPump
    NothingLeftBehind
    OfferAskedOrReplaced
    CandidatesMeetTheirAnswer
PROPERTIES
    CloseCompletes
    LostPumpGoes
