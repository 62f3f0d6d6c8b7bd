SPECIFICATION Spec
CONSTANTS
    Updates = {u1, u2}
    Internals = {i1}
    Rebased = {i1}
    Syncs = {s1}
    CommandKeys = {k1}
    Contents = {c1}
    MaxAttempts = 3
    MaxTries = 3
SYMMETRY Symmetry
CHECK_DEADLOCK FALSE
INVARIANTS
    OwnedOnce
