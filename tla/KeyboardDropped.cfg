CONSTANTS
    Keys <- OneKey
    BUF_LEN = 3
    MaxSent = 6
SPECIFICATION Spec
INVARIANT NothingDropped
CHECK_DEADLOCK FALSE
