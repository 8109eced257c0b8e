SPECIFICATION Spec
CONSTANTS
    g1 = g1
    g2 = g2
    Groups = {g1, g2}
    Samples <- TwoSamples
    Lags <- AllLags
    ZeroTime = ZeroTime
    YearOne <- LongAgo
    Retentions = {3}
    Ranges = {1, 2, 3, 4, 5, 6}
    SessionZone = 2
    ProcessZone = 2
    HourLen = 2
    BackfillHours = 2
    Prompt = FALSE
    MaxClock = 6
    MaxEvents = 2
    MaxFaults = 1
SYMMETRY GroupSymmetry
INVARIANT TypeOK
INVARIANT OnlyCompletedHours
INVARIANT NothingCountedTwice
INVARIANT RowsConsistent
INVARIANT ChartsAgree
INVARIANT LatencyOfTraffic
PROPERTY ImplementsAnalytics
PROPERTY PassCountsAll
CHECK_DEADLOCK FALSE
