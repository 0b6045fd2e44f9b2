SPECIFICATION Spec
CONSTANTS
    e = e
    d = d
    a = a
    b = b
    zero = zero
    GenerationFields = {e}
    RefFields = {}
    ContentFields = {d}
    NoId = NoId
    ZeroDigest = zero
    PlanIds = {1, 2}
    Snapshots <- TwoSnapshots
    Requests <- PlainRequest
    CommitIds = {"c1", "c2"}
    MaxPlans = 2
    MaxLineageDepth = 3
    MaxFaults = 1
    NoSnapshot = NoSnapshot
    NoCommit = NoCommit
    NoPlan = NoPlan
INVARIANT
    AckedCommitsDurable
