SPECIFICATION FairSpec
CONSTANTS
    Tasks = {t1, t2}
    NoTask = NoTask
    Gone = Gone
    DataBlocks = 4
    Foreign = {4}
    DirCapacity = 2
    MaxIno = 4
    MaxMounts = 1
    MaxSlab = 1
PROPERTIES
    CallsReturn
CHECK_DEADLOCK FALSE
