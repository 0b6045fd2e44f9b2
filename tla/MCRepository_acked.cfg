SPECIFICATION Spec
CONSTANTS
    Kinds = {"plan"}
    CompactAfter = 3
    MaxRecords = 6
    MaxFences = 6
    MaxAppends = 5
    MaxFaults = 1
    NoFile = NoFile
    Torn = Torn
INVARIANTS
    AckedRecoverable
