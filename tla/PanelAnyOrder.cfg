SPECIFICATION Spec
CONSTANTS
    f1 = f1
    f2 = f2
    e1 = e1
    e2 = e2
    Slots = {f1, f2}
    Limits = {1, 2}
    DefaultLimit = 1
    Filters = {""}
    Patient = FALSE
    Ids = {e1, e2}
    Times = {1, 2}
    Kinds = {FALSE}
    MaxFaults = 0
INVARIANT TypeOK
INVARIANT StreamingLocksPaging
INVARIANT PrevLeadsBack
PROPERTY StreamShowsNewest
CHECK_DEADLOCK FALSE
