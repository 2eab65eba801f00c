CONSTANTS
    TIMEOUT = 3
    FIFO_TIMEOUT = 2
    SPIN_UP = 2
    RESET_WAIT = 1
    U16 = 6
SPECIFICATION FairSpec
INVARIANTS NoMotorLeak ResetHeldLow PanicStopsMotor OnUnlessLostOff
PROPERTIES GracePeriod MotorEventuallyOff
CHECK_DEADLOCK FALSE
