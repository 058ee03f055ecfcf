SPECIFICATION Spec
CONSTANTS
    MaxCalls = 3
    HDR = 2
    QLen <- MCQLen
    RLen <- MCRLen
    ClientBuf = 5
    HealthBuf = 2
    ClientRetries = 2
    ServerRetries = 2
    DeathCountdown = 3
    SplitRequest = TRUE
    SplitResponse = FALSE
    MayDrop = FALSE
    WildLengths = {0, 1, 9}
PROPERTY
    PartialRequestKills
CHECK_DEADLOCK FALSE
