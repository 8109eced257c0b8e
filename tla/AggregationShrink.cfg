SPECIFICATION Spec
CONSTANTS
    g1 = g1
    Groups = {g1}
    Samples <- OneSample
    Lags = {0, 1}
    ZeroTime = ZeroTime
    YearOne <- LongAgo
    Retentions = {4}
    Ranges = {1, 2, 3, 4, 5, 6}
    SessionZone = 2
    ProcessZone = 2
    HourLen = 2
    BackfillHours = 2
    Prompt = TRUE
    MaxClock = 8
    MaxEvents = 2
    MaxFaults = 1
PROPERTY CountsNeverShrink
CHECK_DEADLOCK FALSE
