SPECIFICATION LiveSpec
CONSTANTS
    worker = worker
    handler = handler
    Size = 2
    Coordinators = {worker, handler}
    Loops = {worker}
    MaxRounds = 2
    MaxAttempts = 2
    Scenarios <- BatchScenarios
INVARIANTS
    DocumentConsistent
    CancelIsHonest
PROPERTIES
    SettledStays
    BatchEnds
CHECK_DEADLOCK FALSE
