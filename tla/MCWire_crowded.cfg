CONSTANTS
    MaxName = 2
    MaxText = 3
    MaxEntries = 4
    MaxPayload = 500
    MaxAppends = 1
    Buffer = 2
    Calls <- Commits
    Shapes <- Crowded
    Values <- MCValues
SPECIFICATION Spec
INVARIANT RecoveryReadsWhatWasWritten
CHECK_DEADLOCK FALSE
