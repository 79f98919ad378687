SPECIFICATION Spec
SYMMETRY Symmetry
CONSTANTS
    p = p
    q = q
    o1 = o1
    o2 = o2
    Prints = {p, q}
    NoPrint = NoPrint
    MaxHistory = 3
    Snapshots <- MCSnapshots
    Observers = {o1, o2}
    Operators = {op}
    NoOwner = NoOwner
    Ttl = 1
    Cooldown = 1
    Threshold = 1
    Tries = 2
    MaxVersion = 4
    MaxGeneration = 2
INVARIANTS
    LeaderSeesAllObservations
    OneActivePerDomain
PROPERTIES
    LeaseEndsOnlyByHolder
    HistoryKept
    AckedWasShown
