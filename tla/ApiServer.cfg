SPECIFICATION MCSpec
CONSTANTS
    k1 = k1
    k2 = k2
    r1 = r1
    r2 = r2
    m1 = m1
    m2 = m2
    t1 = t1
    Keys = {k1, k2}
    Requests = {r1, r2}
    Scopes = {"admin", "tool", "view"}
    Asks <- MCAsks
    PrefixWidths = {8, 12}
    Jobs = {"j1", "j2"}
    Workers = {"w1", "w2"}
    JobFaults = 2
    Sids = {"s1", "s2"}
    Users = {"u1", "u2"}
    SessionTtl = 2
    ListTtl = 3
    Callers = {"c1"}
    Managers = {"c2"}
    Messages = {m1, m2}
    Threads = {t1}
    Calls = {"c1"}
    ToolAsks <- MCTools
    Attempts = 3
    ToolFaults = 3
    LabelNames <- MCNames
    Depth <- MCDepth
    LabelConfigs <- MCConfigs
    EndsWith <- MCEndsWith
    FallbackLabel = "HR/Payroll"
    OrganiserLabels <- MCOrganiserLabels
    Mails = {"m1"}
    LabelAsks <- MCLabelAsks
    LabelFaults = 1
    Letters = {"e1"}
    LetterKinds <- MCKinds
    AutoDomains = {"auto"}
    AutoTypes = {"password_reset"}
    LlmTries = 3
    MaxRuns = 2
    ApiThreads = {"t1", "t2"}
    Slots = 2
    Width = 4
    Margin = 1
    Models = 2
    CallTries = 2
    Horizon = 7
INVARIANTS
    TypeOK
    
    JobReportIsTrue
    LiveSessionIsListed
    ToolAnswersAreTrue
    LabelsAreTrue
    ResponsesAreSafe
    
PROPERTIES
    
    AdminRequestsFinish
    JobSettles
CHECK_DEADLOCK FALSE
