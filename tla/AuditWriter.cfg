SPECIFICATION FairSpec
CONSTANTS
    good = good
    orphan = orphan
    unstorable = unstorable
    Events <- MCEvents
    Orphans <- MCOrphans
    Unstorable <- MCUnstorable
    Batches <- MCBatches
    Writers = {w1, w2}
    MaxSubmits = 2
    MaxAmbiguous = 1
    MaxCrashes = 1
INVARIANTS
    TypeOK
    NothingVanishes
    RowsAreAccountedFor
PROPERTIES
    ImplementsTrail
    StorableEventsSettle
CHECK_DEADLOCK FALSE
