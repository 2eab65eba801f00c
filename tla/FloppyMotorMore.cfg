CONSTANTS
    TIMEOUT = 3
    FIFO_TIMEOUT = 2
    SPIN_UP = 2
    RESET_WAIT = 1
    U16 = 6
SPECIFICATION FairSpec
INVARIANT TypeOK
PROPERTY CallsReturn
CHECK_DEADLOCK FALSE
