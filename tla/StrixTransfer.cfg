SPECIFICATION FairSpec
CONSTANTS
    Transfers <- MCTransfers
    Identity <- MCIdentity
    Chunks <- MCChunks
    Sids <- MCSids
    TicketTTL = 1
    SessionTTL = 2
    AuthWindow = 1
    MaxSessions = 2
    MaxTickets = 2
    MaxReceipts = 1
    MaxNow = 3
    Budgets <- MCBudgets
INVARIANTS
    TicketUsedOnce
    SuccessMeansVerified
    SessionsNotShared
CHECK_DEADLOCK FALSE
PROPERTIES
    EveryTransferEnds
