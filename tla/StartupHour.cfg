CONSTANTS
    BootCS = 8
    Times <- SomeTimes
    Chime <- TwoNotes
    Song <- OneRepeat
    PULSE = 1
    MaxKeys = 2
    MaxFaults = 1
SPECIFICATION Spec
INVARIANT HourSane
CHECK_DEADLOCK FALSE
