CONSTANTS
    Keys <- BoardKeys
    BUF_LEN = 6
    MaxSent = 5
SPECIFICATION Spec
INVARIANTS TypeOK ShiftBitsAreShifts
CHECK_DEADLOCK FALSE
