SPECIFICATION FairSpec
CONSTANTS
    c1 = c1
    c2 = c2
    c3 = c3
    Findings = {}
    Clients = {c1, c2}
    Workers = {w1}
    Scenarios <- ControlScenarios
    MaxTries = 2
    MaxScans = 1
    NoWorker = NoWorker
CHECK_DEADLOCK FALSE
INVARIANTS
    OnePendingStart
    CompletionsBacked
    NoWorkAfterCancel
PROPERTIES
    NothingLost
    CancelledIsFinal
    CancelledDrains
