SPECIFICATION sharedSpec
CONSTANTS
    Co = {c1, c2, c3}
    Main = Main
    Contexts = {x1, x2, x3}
    PoolSize = 1
    Nobody = Nobody
    MaxDepth = 5
INVARIANTS
    ContextsApart
    NestedLikeFunctions
PROPERTY
    YieldKeepsAlive
CHECK_DEADLOCK FALSE
