SPECIFICATION FairSpec
CONSTANTS
    Threads = {t1, t2, t3}
    DeviceBlocks = 8
    Image <- ChainImage
    MaxRequest = 3
    NoThread = NoThread
    NIL = NIL
INVARIANTS
    TypeOK
    NoOverlap
    TotalMatchesNodes
    ReserveKept
    RefusedOnlyWhenFull
    OneCallerInside
PROPERTIES
    CallReturns
    ImplementsPool
CHECK_DEADLOCK FALSE
