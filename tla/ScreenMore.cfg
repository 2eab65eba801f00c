CONSTANTS
    W = 2
    H = 4
    MaxOps = 4
    MaxNested = 1
SPECIFICATION ScreenSpec
INVARIANT BarKept
CHECK_DEADLOCK FALSE
