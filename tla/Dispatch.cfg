CONSTANTS
    Workers = {w1, w2}
    Functions <- MCFunctions
    Requests <- MCRequests
    Samples <- MCSamples
    Behind <- MCBehind
    UserCodes = {"busy", "full"}
    UserMessages <- MCUserMessages
    MaxCalls = 2
SPECIFICATION Spec
INVARIANTS
    TypeOK
    ValueWasReturned
    FailureWasReported
    RefusedNotRun
    NotFoundWasUnbound
    DecodedAsSent
PROPERTY
    Answered
CHECK_DEADLOCK FALSE
