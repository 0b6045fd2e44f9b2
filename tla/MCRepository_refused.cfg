SPECIFICATION Spec
CONSTANTS
    Kinds = {"plan", "fence"}
    CompactAfter = 3
    MaxRecords = 6
    MaxFences = 1
    MaxAppends = 5
    MaxFaults = 0
    NoFile = NoFile
    Torn = Torn
INVARIANTS
    NeverRefused
