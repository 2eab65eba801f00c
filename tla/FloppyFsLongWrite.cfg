CONSTANTS
    SECTORS = 3
    HEADS = 2
    CYLINDERS = 3
    SECTOR_SIZE = 8
    U8 = 4
    U16 = 64
    Requests <- LongWrites
    MaxCalls = 1
SPECIFICATION Spec
INVARIANT WriteFaithful
CHECK_DEADLOCK FALSE
