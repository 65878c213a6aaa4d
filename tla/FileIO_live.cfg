SPECIFICATION FairSpec
CONSTANTS
    Tasks = {t1, t2}
    NoTask = NoTask
    Objects = {o1, o2}
    BlockSize = 2
    HeaderSize = 1
    DataBlocks = 6
    MaxLen = 1
    MaxPos = 1
    MaxChildren = 1
    MaxMounts = 1
    Numbers = {3}
    ModifyResults <- AnyResult
INVARIANTS
    OnlyErrorsKeepLock
    SlabOutlivesCallbacks
PROPERTIES
    CallReturns
CHECK_DEADLOCK FALSE
