CONSTANTS
    MaxName = 2
    MaxText = 3
    MaxEntries = 4
    MaxPayload = 500
    MaxAppends = 1
    Buffer = 2
    Calls <- Queries
    Shapes <- Unknown
    Values <- MCValues
SPECIFICATION Spec
INVARIANT RepliesAreReadable
CHECK_DEADLOCK FALSE
