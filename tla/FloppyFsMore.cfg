CONSTANTS
    SECTORS = 3
    HEADS = 2
    CYLINDERS = 3
    SECTOR_SIZE = 8
    U8 = 4
    U16 = 64
    Requests <- EveryStart
    MaxCalls = 2
SPECIFICATION FairSpec
INVARIANT TypeOK
PROPERTIES CallsReturn ServedFromFirstTrack
CHECK_DEADLOCK FALSE
