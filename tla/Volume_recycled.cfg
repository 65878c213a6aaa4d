SPECIFICATION Spec
CONSTANTS
    Tasks = {t1}
    NoTask = NoTask
    Gone = Gone
    DataBlocks = 4
    Foreign = {}
    DirCapacity = 2
    MaxIno = 3
    MaxMounts = 2
    MaxSlab = 1
PROPERTIES
    NewInodeInitialised
CHECK_DEADLOCK FALSE
