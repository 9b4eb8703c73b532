SPECIFICATION Spec
CONSTANTS
    w1 = w1
    w2 = w2
    p1 = p1
    p2 = p2
    v1 = v1
    v2 = v2
    s1 = s1
    NoWorker = NoWorker
    Gone = Gone
    NoHash = NoHash
    Unread = Unread
    Workers = {w1, w2}
    Parts = {p1}
    Versions = {v1, v2}
    Sessions = {s1}
    HashTTL = 1
    TTLSlack = 1
    Evict = 1
    MaxChanges = 2
    MaxFaults = 1
    MaxEvents = 2
    MaxQuiet = 4
SYMMETRY MCSymmetry
INVARIANTS
    CurrentServed
    SnapshotKept
    FreshAnswers
