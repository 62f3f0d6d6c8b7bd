SPECIFICATION FairSpec
CONSTANTS
    Cases = {c1, c2}
    None = none
    MaxCommits = 4
    MaxFailures = 1
    MaxGestures = 3
CHECK_DEADLOCK FALSE
CONSTRAINT Bounded
INVARIANTS
    CurrentAtRest
PROPERTIES
    CatchesUp
    PendingEnds
