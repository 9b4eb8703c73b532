SPECIFICATION MCSpec
CONSTANTS
    Null = Null
    Unused = Unused
    Task = "t"
    Preset = "p"
    DeclaredAt = 2
    Timeout = 1
    RetryDelay = 1
    Options = {TRUE, FALSE}
    MaxClock = 3
    MaxLost = 1
    Sessions = {"s1", "s2"}
    ScriptsOf <- MCScriptsOf
    Code <- MCCode
    Answers = {"u", "v"}
    MaxCrashes = 1
    Numbers <- MCNumbers
    Values = {"v", "w"}
    Default = "v"
    Scenarios <- MCScenarios
    NextLevel = 1
    BatchSize = 1
    MaxCommits = 32
    MaxDrift = 1
    Stored <- MCStored
    Tags = {"t"}
    Tagged <- MCTagged
    MaxSessions = 2
INVARIANTS
    Accounted
    DownloadedOnce
    LoggedOnce
    KnownWhenWritten
    Fulfilled
    SavedWhole
    TagsMerged
PROPERTIES
    Finishes
    Settles
CHECK_DEADLOCK FALSE
