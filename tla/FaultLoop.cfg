SPECIFICATION FairSpec
CONSTANTS
    Keys = {k1}
    MaxAttempts = 2
    MaxLosses = 2
CHECK_DEADLOCK FALSE
INVARIANTS
    OneRunPerKey
    RecoveredIsVerified
    WholeRunIsRecognized
    GapsFailClosed
PROPERTIES
    KeepsRecordedRun
    StartedRunsEnd
