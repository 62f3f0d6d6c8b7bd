SPECIFICATION Spec
CONSTANTS
    Updates = {u1, u2}
    Internals = {i1}
    Rebased = {i1}
    Syncs = {s1}
    CommandKeys = {k1, k2}
    Contents = {c1, c2}
    MaxAttempts = 2
    MaxTries = 3
SYMMETRY Symmetry
CONSTRAINT OneRepeated
CHECK_DEADLOCK FALSE
INVARIANTS
    ReceiptsTrue
    AppliedAsSeen
PROPERTIES
    KeepsSerialHistory
