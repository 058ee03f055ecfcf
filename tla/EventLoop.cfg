SPECIFICATION Spec
CONSTANTS
    Co = {c1, c2}
    Main = Main
    Contexts = {x1, x2}
    PoolSize = 1
    Nobody = Nobody
    Fd = {3, 4}
    UseClosed = FALSE
INVARIANTS
    TypeOK
    NoLostWaiter
    NoStrayResumption
PROPERTIES
    PoppedStaysAlive
    Served
    OnlyClosesStrand
CHECK_DEADLOCK FALSE
