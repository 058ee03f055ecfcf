CONSTANTS
    Workers = {w1}
    Functions <- MCFunctions
    Requests <- MCRequests
    Samples <- MCSamples
    Behind <- MCBehind
    UserCodes = {"busy", "full"}
    UserMessages <- MCUserMessages
    MaxCalls = 1
SPECIFICATION Spec
INVARIANT
    AllAreCaptured
CHECK_DEADLOCK FALSE
