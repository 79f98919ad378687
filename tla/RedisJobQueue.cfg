SPECIFICATION Spec
CONSTANTS
    w1 = w1
    w2 = w2
    c1 = c1
    c2 = c2
    camp = camp
    scan = scan
    flow = flow
    k1 = k1
    x = x
    y = y
    NoWorker = NoWorker
    NoJob = NoJob
    NoKey = NoKey
    NoKind = NoKind
    Workers = {w1, w2}
    Campaigns = {camp}
    Kinds = {scan, flow}
    DedicatedKinds = {flow}
    Jobs = {1, 2}
    Callers = {c1, c2}
    Deployments <- Instances
    MaxBudget = 2
    Lease = 1
    MaxTime = 1
    MaxTries = 2
INVARIANTS
    IndexesAgree
PROPERTIES
    LeaseNotStolen
    ImplementsLedger
