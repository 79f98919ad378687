SPECIFICATION Spec
CONSTANTS
    Bases <- MCBases
    Activities <- MCActivities
    Reviewers = {r1, r2}
    Submitters = {s1, s2}
    Platforms = {"generic"}
    Bounds <- MCBounds
INVARIANTS
    SubmittedIsWhatWasSent
CHECK_DEADLOCK FALSE
