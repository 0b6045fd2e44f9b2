SPECIFICATION Spec
CONSTANTS
    Problems <- ExhaustedProblems
    MaxProbes = 64
    MaxCertificateNodes = 100
    MaxCertificateEdges = 100
INVARIANTS
    FinalRepeatsTrial
CHECK_DEADLOCK FALSE
