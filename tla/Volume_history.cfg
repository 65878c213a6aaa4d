SPECIFICATION Spec
CONSTANTS
    Tasks = {t1}
    NoTask = NoTask
    Gone = Gone
    DataBlocks = 5
    Foreign = {5}
    DirCapacity = 2
    MaxIno = 4
    MaxMounts = 2
    MaxSlab = 1
PROPERTIES
    AllocatedKept
CHECK_DEADLOCK FALSE
