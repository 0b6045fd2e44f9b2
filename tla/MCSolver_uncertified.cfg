SPECIFICATION Spec
CONSTANTS
    Problems <- UncertifiedProblems
    MaxProbes = 64
    MaxCertificateNodes = 100
    MaxCertificateEdges = 2
INVARIANTS
    CapacityVerdictSound
CHECK_DEADLOCK FALSE
