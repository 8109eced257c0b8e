SPECIFICATION MonSpec
CONSTANTS
    k1 = k1
    internal = internal
    NoKey = NoKey
    pay = pay
    apiInsight = apiInsight
    r1 = r1
    r2 = r2
    Keys = {k1, internal}
    InternalKey = internal
    Projects = {pay, apiInsight}
    InternalName = apiInsight
    Requests = {r1, r2}
    Payloads <- ReportBodies
    EnvDays = {1}
    DefaultDays = 2
    AskedDays = {Absent}
    Absent = Absent
    ZeroTime = ZeroTime
    YearOne <- BeforeTheClock
    NoExpiry = NoExpiry
    DayLen = 2
    MaxDuration = 1000
    MaxClock = 2
    MaxBatches = 2
    MaxFaults = 1
    Paths = {"/", "/metrics"}
    Timeout = 1
    MaxVisits = 1
    ClientPosts <- PastEvents
    MaxClients = 1
INVARIANT NoFeedback
INVARIANT ScrapeTells
PROPERTY ExpiredEventuallyDeleted
PROPERTY VisitEventuallyRecorded
CHECK_DEADLOCK FALSE
