SPECIFICATION Spec
CONSTANTS
    Kinds = {"plan"}
    CompactAfter = 2
    MaxRecords = 4
    MaxFences = 6
    MaxAppends = 5
    MaxFaults = 2
    NoFile = NoFile
    Torn = Torn
INVARIANTS
    RecoveredChained
PROPERTIES
    AckedStaysRecoverable
    ImplementsLog
