SPECIFICATION Spec
CONSTANTS
    Actions = {a1}
    MaxAttempts = 3
    MaxEpochs = 2
    MaxRestarts = 1
CHECK_DEADLOCK FALSE
INVARIANTS
    FailedMeansUnmutated
