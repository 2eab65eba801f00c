CONSTANTS
    BootCS = 8
    Times <- SomeTimes
    Chime <- TwoNotes
    Song <- OneRepeat
    PULSE = 1
    MaxKeys = 2
    MaxFaults = 2
SPECIFICATION Spec
INVARIANTS FaultsReported TimeFaithful
PROPERTIES BootFinishes SpeakerSilenced PanicRestarts
CHECK_DEADLOCK FALSE
