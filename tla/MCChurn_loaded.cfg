SPECIFICATION Spec
CONSTANTS
    p1 = p1
    p2 = p2
    Plans = {p1}
    Snapshots <- Loaded
    MaxGrant = 2
    MaxInt = 1000000
    MayOmit = FALSE
INVARIANT
    UnchangedIsNoRegression
CHECK_DEADLOCK FALSE
