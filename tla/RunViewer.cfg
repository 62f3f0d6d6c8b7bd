SPECIFICATION FairViewerSpec
CONSTANTS
    Runs = {r1, r2}
    None = none
    MaxEvents = 4
    MaxFailures = 1
    MaxGestures = 1
    MaxRetries = 3
CONSTRAINT OneOrTwoRuns
CHECK_DEADLOCK FALSE
INVARIANTS
    OneRunOnly
    CallbacksAreOfSelected
PROPERTIES
    EndIsShown
