CONSTANTS
    Spurious = {7, 15}
    MaxDepth = 2
SPECIFICATION FairSpec
INVARIANTS OwnEoi NotReentrant CmosPairIntact NeverDeaf
PROPERTY SyncFinishes
