SPECIFICATION Spec
CONSTANTS
    s1 = s1
    s2 = s2
    c1 = c1
    c2 = c2
    w1 = w1
    w2 = w2
    NoSession = NoSession
    NoConn = NoConn
    Sessions = {s1, s2}
    Conns = {c1, c2}
    Workers = {w1, w2}
    WorkerOf <- MCWorkerOf
    Requests = {"inform", "empty", "response"}
    Timeout = 1
    RefreshInterval = 1
    RequestTimeout = 0
    SkewTolerance = 1
    ClockSkew = 0
    TimerGrace = 1
    CacheGrace = 1
    ResumeDelay = 1
    ProcTime = 0
    MaxTime = 4
    MaxOrphans = 0
SYMMETRY MCSymmetry
INVARIANTS
    LoadedUnderLock
