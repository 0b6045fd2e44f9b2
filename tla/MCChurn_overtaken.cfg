SPECIFICATION Spec
CONSTANTS
    p1 = p1
    p2 = p2
    Plans = {p1, p2}
    Snapshots <- Changing
    MaxGrant = 2
    MaxInt = 1000000
    MayOmit = FALSE
PROPERTY
    DisplacedOnlyWithinPolicy
CHECK_DEADLOCK FALSE
