SPECIFICATION FairSpec
CONSTANTS
    Tasks = {t1}
    NoTask = NoTask
    BlockWords = {6, 9}
    Full = 3
    MaxChildren = 4
    Left = {2}
INVARIANTS
    TypeOK
    BlockListsChildren
    StreamInOrder
    StreamComplete
    LargeBlockHoldsAll
PROPERTIES
    ImplementsListing
    IterateReturns
CHECK_DEADLOCK FALSE
