SPECIFICATION Spec
CONSTANTS
    NoValue = NoValue
    Meters = {"laptop"}
    ClientMeters = {"laptop"}
    Rates = {1, 2}
    DayLength = 2
    MonthLength = 4
    MaxGap = 2
    MaxRate = 2
    Second = 3
    LegacyBytes = 1000
    MaxTime = 5
    MaxBacks = 0
    MaxLoads = 2
    HostLists <- MCHostLists
    RateOf <- MCRateOf
    PresentIn <- MCPresentIn
    DayOf <- MCDayOf
    MonthOf <- MCMonthOf
PROPERTIES
    RemovalKeepsBytes
