SPECIFICATION Spec
CONSTANTS
    Sizes = {0, 1, 3}
    MaxRetries = 3
    Timeout = 7
    MaxLag = 1
    MaxPark = 2
    Errnos = {EBADF, ETIMEDOUT}
    ETIMEDOUT = ETIMEDOUT
    NoError = NoError
INVARIANTS
    TypeOK
    HonestResult
    BoundedOvershoot
    NoEarlyTimeout
PROPERTIES
    TimeoutIsNamed
    Terminates
