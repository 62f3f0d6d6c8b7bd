SPECIFICATION Spec
CONSTANTS
    Premises = {a, b}
    NoPremise = none
    MaxStageRuns = 7
    MaxAttempts = 1
SYMMETRY Symmetry
CHECK_DEADLOCK FALSE
INVARIANTS
    NoSecondExecution
