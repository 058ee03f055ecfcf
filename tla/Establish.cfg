SPECIFICATION Spec
CONSTANTS
    Servers = {s1, s2}
    Clients = {k1, k2}
    Fd = {0, 1, 2}
    None = None
    Nobody = Nobody
    Backlog = 1
    MaxCloses = 1
    MaxStrays = 1
    MaxRetries = 4
    Pause1 = 1024
    Unlucky = {k2}
    MaxFaults = 1
    MaxAtOnce = 1
INVARIANTS
    TypeOK
    EachKeptByOne
    ServerOutlivesWorkers
    StrayNeedsClose
    ConnectionIsHeld
PROPERTIES
    GivesUpProperly
    LateServerFound
    QueuedServed
    ConnectReturns
CHECK_DEADLOCK FALSE
