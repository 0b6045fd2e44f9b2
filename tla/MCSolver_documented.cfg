SPECIFICATION Spec
CONSTANTS
    Problems <- DocumentedProblems
    MaxProbes = 64
    MaxCertificateNodes = 100
    MaxCertificateEdges = 100
INVARIANTS
    RepairMovesLower
    RepairFreesRoom
    ReservationConflictReported
    FloorAboveMaximumReported
    PolicyVerdictSound
    ReservationsHeld
    DiversityKept
CHECK_DEADLOCK FALSE
