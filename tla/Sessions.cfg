SPECIFICATION MCSpec
CONSTANTS
    s1 = s1
    s2 = s2
    c1 = c1
    c2 = c2
    w1 = w1
    w2 = w2
    NoSession = NoSession
    NoConn = NoConn
    Sessions = {s1, s2}
    Conns = {c1, c2}
    Workers = {w1, w2}
    WorkerOf <- MCWorkerOf
    Requests = {"inform", "transfer", "unknown", "empty", "response",
                "unsupported", "garbage"}
    Timeout = 2
    RefreshInterval = 2
    RequestTimeout = 1
    SkewTolerance = 1
    ClockSkew = 0
    TimerGrace = 1
    CacheGrace = 1
    ResumeDelay = 1
    ProcTime = 0
    MaxTime = 9
    MaxOrphans = 1
SYMMETRY MCSymmetry
INVARIANTS
    SingleHolder
    Accounted
    LockCoverage
PROPERTIES
    ImplementsMutex
