SPECIFICATION Spec
CONSTANTS
    LabelAwait = {"raises"}
    RoutingWrite = {"raises"}
    MlflowMayFail = FALSE
INVARIANTS
    EveryRunIsAudited
CHECK_DEADLOCK FALSE
