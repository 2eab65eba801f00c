CONSTANTS
    Keys <- FlagKeys
    BUF_LEN = 11
    MaxSent = 10
SPECIFICATION Spec
INVARIANT ModifiersTrackKeys
CHECK_DEADLOCK FALSE
