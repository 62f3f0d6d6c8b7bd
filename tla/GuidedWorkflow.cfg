SPECIFICATION Spec
CONSTANTS
    Premises = {a, b}
    NoPremise = none
    MaxStageRuns = 7
    MaxAttempts = 2
CONSTRAINT TwoAttempts
SYMMETRY Symmetry
CHECK_DEADLOCK FALSE
INVARIANTS
    TypeOK
    CurrentRunIsLast
    DecisionInForce
    AgentsOnCurrentRun
    AlwaysACommand
    NoSkippedStage
    ExecutionRestsOnEvidence
    OneBoundaryPerAttempt
    ResolvedOnlyAfterRepair
PROPERTIES
    KeepsContract
    HistoryFrozen
