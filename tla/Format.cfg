SPECIFICATION Spec
CONSTANTS
    BlockSizes = {1, 2, 4}
    PageSize = 2
    MaxSize = 13
    Word = 4
    MaxRuns = 2
INVARIANTS
    TypeOK
    ExitOkComplete
    AcceptedFits
PROPERTIES
    StaysMountable
