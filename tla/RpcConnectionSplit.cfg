SPECIFICATION Spec
CONSTANTS
    MaxCalls = 2
    HDR = 2
    QLen <- MCQLen
    RLen <- MCRLen
    ClientBuf = 5
    HealthBuf = 2
    ClientRetries = 2
    ServerRetries = 2
    DeathCountdown = 3
    SplitRequest = TRUE
    SplitResponse = TRUE
    MayDrop = TRUE
    WildLengths = {0, 1, 9}
PROPERTIES
    CallReturns
    WorkerReleased
CHECK_DEADLOCK FALSE
