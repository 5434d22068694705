SPECIFICATION Spec
CONSTANTS
    NoValue = NoValue
    Meters = {"mesh"}
    ClientMeters = {}
    Rates = {2}
    DayLength = 1
    MonthLength = 2
    MaxGap = 2
    MaxRate = 2
    Second = 3
    LegacyBytes = 1000
    MaxTime = 3
    MaxBacks = 1
    MaxLoads = 2
    HostLists <- MCHostLists
    RateOf <- MCRateOf
    PresentIn <- MCPresentIn
    DayOf <- MCDayOf
    MonthOf <- MCMonthOf
INVARIANTS
    WithinPeriodTime
