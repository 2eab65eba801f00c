CONSTANTS
    W = 2
    H = 4
    MaxOps = 4
    MaxNested = 1
SPECIFICATION ScreenSpec
INVARIANTS OnScreen ShowsTail PrevScreenKept LastMessageReadable
CHECK_DEADLOCK FALSE
