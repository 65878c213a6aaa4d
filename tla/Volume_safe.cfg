SPECIFICATION Spec
CONSTANTS
    Tasks = {t1, t2, t3}
    NoTask = NoTask
    Gone = Gone
    DataBlocks = 4
    Foreign = {4}
    DirCapacity = 2
    MaxIno = 4
    MaxMounts = 2
    MaxSlab = 0
SYMMETRY Symmetry
INVARIANTS
    TypeOK
    NumbersFresh
    SectorsOwned
    ListedHasInode
    CapacityCovers
    NobodyStuck
    NoWaitCycle
CHECK_DEADLOCK FALSE
