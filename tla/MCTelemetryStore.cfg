SPECIFICATION Spec
CONSTANTS
    Minute = 2
    RollEvery = 1
    PruneEvery = 2
    Retention = 3
    MaxTime = 6
    MaxRows = 2
    MaxRestarts = 1
INVARIANTS
    QueryCountsOnce
PROPERTIES
    NothingDropped
    PrunedAreRolledUp
