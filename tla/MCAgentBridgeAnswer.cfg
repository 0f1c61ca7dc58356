\* The documented answer timeout.
SPECIFICATION FairSpec
CONSTANTS
    SignalQueue = 1
    IceCandidate = {c1}
    NoPump = NoPump
PROPERTIES
    OfferIsGivenUp
