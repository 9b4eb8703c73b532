\* Sessions end when MaxTime is reached.
SPECIFICATION Spec
CONSTANTS
    p = p
    q = q
    a = a
    Tasks = {0, 1, 2}
    PresetChannels = {p, q}
    NoChannel = NoChannel
    Items = {a}
    Work <- MCWork
    Conditional = {p}
    Unknown = {0}
    Expiry <- MCExpiry
    Delay = 1
    MaxCycles = 4
    MaxRpcs = 2
    MaxRetries = 1
    MaxTime = 2
CHECK_DEADLOCK FALSE
INVARIANTS
    FaultHasChannel
