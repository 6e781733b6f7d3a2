SPECIFICATION Spec
CONSTANTS
    Editors = {e1, e2}
    Loaders = {l1}
    Payloads <- MCPayloads
    RulesOf <- MCRulesOf
    MaxEdits = 3
INVARIANTS
    RulesAreLive
CHECK_DEADLOCK FALSE
