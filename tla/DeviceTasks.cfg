SPECIFICATION FairSpec
CONSTANTS
    c1 = c1
    c2 = c2
    key = key
    Clients = {c1, c2}
    Session = Session
    Nobody = Nobody
    KeyOf <- SameKey
    NoKey = NoKey
    MaxEvents = 2
CHECK_DEADLOCK FALSE
INVARIANTS
    OnlyAfterASession
    QueuedForADevice
PROPERTIES
    SessionsUndisturbed
    RequestsEnd
