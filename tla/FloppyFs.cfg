CONSTANTS
    SECTORS = 3
    HEADS = 2
    CYLINDERS = 3
    SECTOR_SIZE = 8
    U8 = 4
    U16 = 64
    Requests <- KernelRequests
    MaxCalls = 2
SPECIFICATION FairSpec
INVARIANTS ReadFaithful WriteFaithful OthersUntouched
CHECK_DEADLOCK FALSE
