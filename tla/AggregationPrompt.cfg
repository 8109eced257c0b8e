SPECIFICATION Spec
CONSTANTS
    g1 = g1
    Groups = {g1}
    Samples <- OneSample
    Lags = {0, 3, ZeroTime}
    ZeroTime = ZeroTime
    YearOne <- LongAgo
    Retentions = {8}
    Ranges = {1, 2, 3, 4, 5, 6}
    SessionZone = 2
    ProcessZone = 2
    HourLen = 2
    BackfillHours = 2
    Prompt = TRUE
    MaxClock = 9
    MaxEvents = 2
    MaxFaults = 1
INVARIANT NoHourSkipped
PROPERTY CountsNeverShrink
PROPERTY EventuallyCounted
CHECK_DEADLOCK FALSE
