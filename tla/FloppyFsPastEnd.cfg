CONSTANTS
    SECTORS = 3
    HEADS = 2
    CYLINDERS = 3
    SECTOR_SIZE = 8
    U8 = 4
    U16 = 64
    Requests <- FarReads
    MaxCalls = 1
SPECIFICATION Spec
INVARIANT PastEndRefused
CHECK_DEADLOCK FALSE
