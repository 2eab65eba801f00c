CONSTANTS
    RETRIES = 2
    SEEK_RETRIES = 2
    DISK_RETRIES = 2
    MaxResets = 2
    MaxOps = 2
SPECIFICATION FairSpec
INVARIANT TypeOK
PROPERTY DisabledForGood
CHECK_DEADLOCK FALSE
