SPECIFICATION FairSpec
CONSTANTS
    Actions = {a1, a2}
    MaxAttempts = 3
    MaxEpochs = 2
    MaxRestarts = 1
CONSTRAINT OneByOne
CHECK_DEADLOCK FALSE
INVARIANTS
    SuccessIsReal
    FailedIsUntouched
PROPERTIES
    NeverRepeated
    ReceiptFinal
    ExecutionAnswered
