SPECIFICATION Spec
CONSTANTS
    k1 = k1
    internal = internal
    pay = pay
    r1 = r1
    r2 = r2
    Keys = {k1, internal}
    InternalKey = internal
    NoKey = NoKey
    Projects = {pay}
    InternalName = pay
    Requests = {r1, r2}
    Payloads <- MixedPayloads
    EnvDays = {0, 1}
    DefaultDays = 2
    AskedDays = {0, 3}
    Absent = Absent
    ZeroTime = ZeroTime
    YearOne <- BeforeTheClock
    NoExpiry = NoExpiry
    DayLen = 1
    MaxDuration = 1000
    MaxClock = 3
    MaxBatches = 2
    MaxFaults = 1
SYMMETRY RequestSymmetry
INVARIANT TypeOK
INVARIANT ExpiryWithinPolicy
INVARIANT CountersAccountForEvents
PROPERTY RetainedForItsDays
CHECK_DEADLOCK FALSE
