SPECIFICATION Spec
CONSTANTS
    Tasks = {t1}
    NoTask = NoTask
    Gone = Gone
    DataBlocks = 4
    Foreign = {}
    DirCapacity = 2
    MaxIno = 3
    MaxMounts = 1
    MaxSlab = 0
INVARIANTS
    SuperBlockAtZero
CHECK_DEADLOCK FALSE
