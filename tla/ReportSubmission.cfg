SPECIFICATION FairSpec
CONSTANTS
    Bases <- MCBases
    Activities <- MCActivities
    Reviewers = {r1, r2}
    Submitters = {s1, s2}
    Platforms = {"generic"}
    Bounds <- MCBounds
INVARIANTS
    OnePostPerApproval
    PostedWasApproved
    SyncedInOrder
PROPERTIES
    RemoteChangeArrives
CHECK_DEADLOCK FALSE
