SPECIFICATION Spec
CONSTANTS
    w1 = w1
    w2 = w2
    s1 = s1
    Workers = {w1, w2}
    Starters = {s1}
    Operators = {o1, o2}
    Engines = {strix, nuclei}
    MaxScans = 3
    MaxFacts = 2
    Nobody = Nobody
    Scenarios <- ControlScenarios
INVARIANTS
    LeaseExcludes
    DecisionsChain
    ScansCapped
    ResetAuditTrue
PROPERTIES
    NothingWhileOpen
CHECK_DEADLOCK FALSE
