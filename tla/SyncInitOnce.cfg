CONSTANTS
    MaxDepth = 3
    MaxUpdates = 2
SPECIFICATION SyncSpec
INVARIANT InitOnce
CHECK_DEADLOCK FALSE
