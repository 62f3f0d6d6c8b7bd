SPECIFICATION Spec

CONSTANTS
    Slots = {s1, s2}
    Keys = {k1, k2}
    Bodies = {ask, approve}
    Authority = {approve}
    Routed = {ask}
    Located = {ask}
    Tools = {snapshot, metrics}
    Earlier = {19}
    MaxRecords = 48
    Reserve = 18
    MaxRounds = 2
    MaxAttempts = 3
    MaxCalls = 4
    MaxCallsPerTool = 2
    MaxCrashes = 1

CONSTRAINT Bounded

CHECK_DEADLOCK FALSE

INVARIANTS
    ReadableAlone
    AnsweredOnce

PROPERTIES
    MessagesAnswered
