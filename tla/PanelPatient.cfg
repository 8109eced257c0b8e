SPECIFICATION Spec
CONSTANTS
    f1 = f1
    f2 = f2
    e1 = e1
    e2 = e2
    e3 = e3
    Slots = {f1, f2}
    Limits = {1, 2}
    DefaultLimit = 1
    Filters = {"", "error"}
    Patient = TRUE
    Ids = {e1, e2, e3}
    Times = {1, 2, 3}
    Kinds = {TRUE}
    MaxFaults = 2
SYMMETRY Symmetry
INVARIANT ShownIsWanted
INVARIANT OnlyFailedPagesSkipped
CHECK_DEADLOCK FALSE
