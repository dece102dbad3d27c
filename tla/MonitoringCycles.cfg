SPECIFICATION MCSpec
CONSTANTS
    k1 = k1
    k2 = k2
    p1 = p1
    p2 = p2
    Keys <- TwoKeys
    Heartbeats <- SecondKey
    FallsBack <- SecondKey
    Pushes <- OnePush
    Concurrency = 1
    MayTimeOut = TRUE
    MaxEntries = 2
    MaxCycles = 2
    Free = Free
    Subjects <- MCSubjects
    Dates <- MCDates
    NumberOf <- MCNumberOf
    IntegerOf <- MCIntegerOf
    MatchesOf <- MCMatchesOf
    OptionsOf <- MCOptionsOf
    StoredAs <- MCStoredAs
    Breaking <- MCBreaking
    Unset = Unset
INVARIANT TypeOK
INVARIANT OneAtATime
INVARIANT RegistryOfOne
INVARIANT ResultsAreTrue
INVARIANT HiddenStaysHidden
PROPERTY NothingAfterStop
PROPERTY NoExecutionAfterClose
PROPERTY StopsEnd
CHECK_DEADLOCK FALSE
