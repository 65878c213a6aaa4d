SPECIFICATION Spec
CONSTANTS
    Tasks = {t1}
    NoTask = NoTask
    Objects = {o1, o2}
    BlockSize = 3
    HeaderSize = 1
    DataBlocks = 4
    MaxLen = 3
    MaxPos = 0
    MaxChildren = 1
    MaxMounts = 2
    Numbers = {3}
    ModifyResults <- NotFound
INVARIANTS
    ReturnIsWritten
CHECK_DEADLOCK FALSE
