SPECIFICATION FairSpec
CONSTANTS
    t1 = t1
    t2 = t2
    Threads <- MCThreads
    Poison <- MCPoison
    PipelineOutcomes = {"returns", "raises"}
    AckPlaces = {"thread", "elsewhere"}
    MaxResults = 2
    MaxMessages = 2
    MaxFaults = 1
    MaxCount = 3
INVARIANTS
    TypeOK
    NoAckLoop
    

    
CHECK_DEADLOCK FALSE
