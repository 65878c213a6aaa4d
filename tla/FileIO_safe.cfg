SPECIFICATION Spec
CONSTANTS
    Tasks = {t1, t2}
    NoTask = NoTask
    Objects = {o1, o2}
    BlockSize = 3
    HeaderSize = 1
    DataBlocks = 6
    MaxLen = 3
    MaxPos = 0
    MaxChildren = 1
    MaxMounts = 1
    Numbers = {3}
    ModifyResults <- AnyResult
INVARIANTS
    WritesOwnSectors
    RoomForAll
CHECK_DEADLOCK FALSE
