SPECIFICATION MCSpec
CONSTANTS
    None = None
    Platforms = {"sensor", "binary_sensor"}
    MaxLoads = 2
    HostLists <- MCHostLists
    tv = tv
    home = home
    cabin = cabin
    rate = rate
    alpha = alpha
    beta = beta
    Characters <- MCCharacters
    Bar = Bar
    Semicolon = Semicolon
    NoMac = NoMac
    Entities = {tv, rate}
    Records <- CardRecords
    Worlds <- MCWorlds
    Configs <- MCConfigs
    SortChoices = {"download"}
    NoEntry = NoEntry
    Absent = Absent
    NoHass = NoHass
    NoSettings = NoSettings
    Loading = Loading
    Names = {1, 2}
    Ips <- CardIps
    Transfers = {None, 0, 1}
INVARIANTS
    EveryClientHasEntities
    AddedOnce
    MeshRateIsSumOfClients
    HealthMatchesSensors
    OnSensorsMatchInventory
    ShownIsCurrent
    LayoutFitsWidth
    ComparatorIsConsistent
CHECK_DEADLOCK FALSE
