\* The bounds on generations and identifiers end every behaviour.
SPECIFICATION Spec
CONSTANTS
    Clients = {c1, c2}
    Desired <- MCDesired
    MaxGeneration = 6
    MaxId = 4
INVARIANTS
    TypeOK
    VisibleRulesKept
PROPERTIES
    StaleStaysStale
CHECK_DEADLOCK FALSE
