SPECIFICATION Spec
CONSTANTS
    g1 = g1
    Groups = {g1}
    Samples <- OneSample
    Lags = {0, 3}
    ZeroTime = ZeroTime
    YearOne <- LongAgo
    Retentions = {8}
    Ranges = {1, 2, 3, 4, 5, 6}
    SessionZone = 2
    ProcessZone = 2
    HourLen = 2
    BackfillHours = 2
    Prompt = FALSE
    MaxClock = 6
    MaxEvents = 1
    MaxFaults = 1
INVARIANT NoHourSkipped
CHECK_DEADLOCK FALSE
