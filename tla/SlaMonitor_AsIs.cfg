SPECIFICATION FairSpec
CONSTANTS
    NEmails = 2
    ZeroWindow = {1}
    Upset = {2}
    Workers = {w1, w2}
    Drivers = {"names"}
    MaxFaults = 1
    MaxCount = 2
PROPERTIES
    BreachIsReassigned
CHECK_DEADLOCK FALSE
