SPECIFICATION FairSpec
CONSTANTS
    Problems <- AllProblems
    MaxProbes = 64
    MaxCertificateNodes = 100
    MaxCertificateEdges = 100
INVARIANTS
    HardBounds
    NothingWasted
    TightestCeiling
    FinalRepeatsTrial
    VerifierAgrees
    CapacityVerdictSound
PROPERTIES
    NoDemandLoses
    Terminates
CHECK_DEADLOCK FALSE
