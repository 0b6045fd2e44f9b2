CONSTANTS
    MaxName = 2
    MaxText = 3
    MaxEntries = 4
    MaxPayload = 500
    MaxAppends = 1
    Buffer = 2
    Calls <- MCCalls
    Shapes <- MCShapes
    Values <- MCValues
SPECIFICATION Spec
INVARIANTS
    SelfDelimiting
    RecoveryReadsWhatWasWritten
PROPERTIES
    ImplementsCall
    CallEnds
CHECK_DEADLOCK FALSE
