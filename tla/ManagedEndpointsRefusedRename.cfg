SPECIFICATION MCSpec
CONSTANTS
    Keys = {k1, k2}
    k1 = k1
    k2 = k2
    a = a
    b = b
    Config = Config
    None = None
    ConfigKeys <- OneKeyMayBeDefined
    AlertSets <- TwoAlerts
    MaxCreated = 1
    MaxChanges = 2
    MaxFailures = 1
    MaxLoads = 1
    d1 = d1
    d2 = d2
    d3 = d3
    d4 = d4
    Users <- TwoUsers
    Definitions <- SomeDefinitions
    Silencing <- OneSilencing
    Rejects <- SecondRejects
    Declarations <- AnyFile
    NoProvider = NoProvider
    BrokenProvider = BrokenProvider
    MaxProviderChanges = 0
    MaxProviderLoads = 0
    MaxProviderFailures = 1
    MaxStarts = 1
    MaxWrites = 0
    MaxSeconds = 0
    MaxSharing = 0
    Nobody = Nobody
INVARIANT IncidentsPersisted
CHECK_DEADLOCK FALSE
