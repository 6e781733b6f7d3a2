SPECIFICATION FairSpec
CONSTANTS
    Editors = {e1, e2}
    Loaders = {l1}
    Payloads <- MCPayloads
    RulesOf <- MCRulesOf
    MaxEdits = 3
INVARIANTS
    TypeOK
    DecisionIsFirstMatch
PROPERTIES
    ImplementsRegister
    CacheCatchesUp
CHECK_DEADLOCK FALSE
