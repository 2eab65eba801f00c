CONSTANTS
    Keys <- OneKey
    BUF_LEN = 3
    MaxSent = 9
SPECIFICATION FairSpec
PROPERTIES InOrderAtMostOnce EventuallyDrained
CHECK_DEADLOCK FALSE
