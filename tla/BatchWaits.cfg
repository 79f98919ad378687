SPECIFICATION LiveSpec
CONSTANTS
    worker = worker
    handler = handler
    Size = 2
    Coordinators = {worker, handler}
    Loops = {worker}
    MaxRounds = 2
    MaxAttempts = 2
    Scenarios <- WaitScenarios
PROPERTIES
    NextIsStarted
CHECK_DEADLOCK FALSE
