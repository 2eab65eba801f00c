CONSTANTS
    RETRIES = 2
    SEEK_RETRIES = 2
    DISK_RETRIES = 2
    MaxResets = 2
    MaxOps = 2
SPECIFICATION Spec
PROPERTY AnnouncedMeansFail
CHECK_DEADLOCK FALSE
