SPECIFICATION ServiceSpec
CONSTANTS
    e = e
    d = d
    a = a
    b = b
    zero = zero
    GenerationFields = {e}
    RefFields = {}
    ContentFields = {d}
    NoId = NoId
    ZeroDigest = zero
    PlanIds = {1, 2}
    Snapshots <- TwoSnaps
    Requests <- TwoRequests
    CommitIds = {"c1", "c2"}
    MaxPlans = 2
    MaxLineageDepth = 3
    MaxFaults = 0
    NoSnapshot = NoSnapshot
    NoCommit = NoCommit
    NoPlan = NoPlan
    Sessions = {s1, s2}
    Workloads <- DisplacingOnly
PROPERTIES
    DuplicateCommitIsReplay
