SPECIFICATION MCSpec
CONSTANTS
    Keys = {k1, k2}
    k1 = k1
    k2 = k2
    a = a
    b = b
    Config = Config
    None = None
    ConfigKeys <- OneKeyMayBeDefined
    AlertSets <- OneAlert
    MaxCreated = 2
    MaxChanges = 3
    MaxFailures = 1
    MaxLoads = 2
    d1 = d1
    d2 = d2
    d3 = d3
    d4 = d4
    Users <- TwoUsers
    Definitions <- SomeDefinitions
    Silencing <- OneSilencing
    Rejects <- SecondRejects
    Declarations <- AnyFile
    NoProvider = NoProvider
    BrokenProvider = BrokenProvider
    MaxProviderChanges = 5
    MaxProviderLoads = 2
    MaxProviderFailures = 1
    MaxStarts = 3
    MaxWrites = 2
    MaxSeconds = 2
    MaxSharing = 1
    Nobody = Nobody
PROPERTY HistoryFollows
PROPERTY ChangesAndReloadsEnd
INVARIANT AllConsistent
INVARIANT ServedByItsProvider
PROPERTY IncidentsKept
CHECK_DEADLOCK FALSE
