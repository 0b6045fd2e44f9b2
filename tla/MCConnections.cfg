SPECIFICATION Spec
CONSTANTS
    Conns = {c1, c2, c3, c4}
    max_worker_threads = 4
    max_connections = 3
    NoConn = NoConn
INVARIANTS
    WorkersBounded
    NothingRunsAfterStop
PROPERTIES
    StopReturns
