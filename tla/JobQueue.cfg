SPECIFICATION LiveSpec
CONSTANTS
    w1 = w1
    w2 = w2
    c1 = c1
    c2 = c2
    camp = camp
    scan = scan
    flow = flow
    k1 = k1
    x = x
    y = y
    NoWorker = NoWorker
    NoJob = NoJob
    NoKey = NoKey
    Workers = {w1, w2}
    Campaigns = {camp}
    Kinds = {scan, flow}
    DedicatedKinds = {flow}
    Serves <- MCServes
    MaxJobs = 2
    Callers = {c1, c2}
    Plans <- QueuePlans
    MaxBudget = 2
    Lease = 1
INVARIANTS
    NoCriticalIssue
    DedupeExact
PROPERTIES
    StaleClaimHarmless
    ImplementsLedger
    EveryJobSettles
