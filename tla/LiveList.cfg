SPECIFICATION LiveFairSpec
CONSTANTS
    Cases = {c1, c2}
    None = none
    Workers = 1
    MaxEvents = 4
    MaxFailures = 2
    MaxGestures = 3
CONSTRAINT Bounded
CHECK_DEADLOCK FALSE
INVARIANTS
    ListAtRest
PROPERTIES
    ListCatchesUp
