SPECIFICATION FairSpec
CONSTANTS
    NMessages = 2
    ThreadOf <- MCThreadOf
    Verdicts <- MCVerdicts
    Unread <- MCUnread
    Organisers = {o1, o2}
    MaxFaults = 1
    MaxCount = 2
INVARIANTS
    TypeOK
    LabelBudget
    FollowUpBudget
    DispatchedIsFollowedUp
    

    
CHECK_DEADLOCK FALSE
