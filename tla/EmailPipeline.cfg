SPECIFICATION FairSpec
CONSTANTS
    LabelAwait = {"raises", "returns"}
    RoutingWrite = {"raises", "returns"}
    MlflowMayFail = TRUE
INVARIANTS
    TypeOK
    CompletedRunIsAudited
    HandedAtMostTwice
    LowConfidenceIsHeld
    ParallelWritesAgree
PROPERTIES
    RunEnds
CHECK_DEADLOCK FALSE
