SPECIFICATION FairSpec
CONSTANTS
    NEmails = 2
    ZeroWindow = {1}
    Upset = {2}
    Workers = {w1, w2}
    Drivers = {"names", "dollar", "works"}
    MaxFaults = 1
    MaxCount = 2
INVARIANTS
    TypeOK
    BreachAlertBudget
    ReassignedAfterAlert
PROPERTIES
    BreachedIsReassigned
CHECK_DEADLOCK FALSE
