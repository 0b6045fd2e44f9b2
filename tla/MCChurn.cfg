SPECIFICATION Spec
CONSTANTS
    p1 = p1
    p2 = p2
    Plans = {p1, p2}
    Snapshots <- Changing
    MaxGrant = 2
    MaxInt = 3999
    MayOmit = TRUE
PROPERTIES
    ReplacementImproves
    ReplacementConfined
    Settles
CHECK_DEADLOCK FALSE
