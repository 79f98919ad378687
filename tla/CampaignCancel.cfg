SPECIFICATION Spec
CONSTANTS
    c1 = c1
    c2 = c2
    c3 = c3
    Findings = {f1}
    Clients = {c1, c2, c3}
    Workers = {w1}
    Scenarios <- CancelScenarios
    MaxTries = 2
    MaxScans = 1
    NoWorker = NoWorker
CHECK_DEADLOCK FALSE
PROPERTIES
    CancelledIsFinal
