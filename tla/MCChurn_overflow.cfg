SPECIFICATION Spec
CONSTANTS
    p1 = p1
    p2 = p2
    Plans = {p1}
    Snapshots <- Changing
    MaxGrant = 2
    MaxInt = 3999
    MayOmit = FALSE
INVARIANT
    AcceptedCrossesThreshold
CHECK_DEADLOCK FALSE
