SPECIFICATION FairSpec
CONSTANTS
    t1 = t1
    t2 = t2
    Threads = {t1}
    Poison = {}
    PipelineOutcomes = {"returns", "raises"}
    AckPlaces = {"thread"}
    MaxResults = 2
    MaxMessages = 2
    MaxFaults = 0
    MaxCount = 3
PROPERTIES
    EveryMessageIsRecorded
CHECK_DEADLOCK FALSE
