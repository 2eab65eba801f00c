CONSTANTS
    MaxDepth = 3
    MaxUpdates = 2
SPECIFICATION SyncSpec
INVARIANTS OneHolder HeldByLive ReadsWhole InitKept MapUpdatesKept
           BtemapUndisturbed
CHECK_DEADLOCK FALSE
