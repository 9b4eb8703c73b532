SPECIFICATION ServicesSpec
CONSTANTS
    Null = Null
    Unused = Unused
    Requests = {"h", "x", "y"}
    ViaXmpp = {"x", "y"}
    WithUdp = {"h"}
    AuthExp <- MCAuthExp
    AllowBasic = FALSE
    Closed = "closed"
    UiClients = {"admin", "user"}
    NbiClients = {"nbi"}
    LoggedIn = {"admin"}
    Access <- MCAccess
    Hidden <- MCHidden
    Ids = {"x"}
    Bodies <- MCBodies
    MaxRequests = 2
    Numbers = {1, 2}
    Says = {"a"}
    Queries = {"one", "two", "n"}
    Filter <- MCFilter
    Limit <- MCLimit
    Counting = {"n"}
    Pages = {{"one"}, {"two", "n"}}
    MaxTimestamp = 2
    MaxChanges = 1
    MaxFailures = 1
    MaxBatches = 2
    Pool = {1, 2, 3}
    WorkerCount = 2
    RespawnGap = 2
    Period = 2
    MostCrashes = 0
    CloseTimeout = 2
    ExitTimeout = 1
    MaxClock = 12
    Tasks = {"a", "b", "c", "s"}
    DeviceOf <- MCDeviceOf
    Edits = {{"a", "b"}}
    Direct = {"c"}
    Summon = {"s"}
    MAX_QUEUE = 3
INVARIANTS
    Announced
    Truthful
    ClientOpen
    Exact
    Manned
    QueueSound
PROPERTIES
    RoundTrip
    RequestsEnd
    Ends
CHECK_DEADLOCK FALSE
