CONSTANTS
    BootCS = 8
    Times <- SomeTimes
    Chime <- TwoNotes
    Song <- OneRepeat
    PULSE = 1
    MaxKeys = 2
    MaxFaults = 1
SPECIFICATION Spec
PROPERTY PanicWaits
CHECK_DEADLOCK FALSE
