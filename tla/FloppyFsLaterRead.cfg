CONSTANTS
    SECTORS = 3
    HEADS = 2
    CYLINDERS = 3
    SECTOR_SIZE = 8
    U8 = 4
    U16 = 64
    Requests <- LaterReads
    MaxCalls = 1
SPECIFICATION Spec
INVARIANT ServedAcrossTracks
CHECK_DEADLOCK FALSE
