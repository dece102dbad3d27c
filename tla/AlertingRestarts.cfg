SPECIFICATION MCSpec
CONSTANTS
    AlertCount = 2
    FailureThreshold <- Both
    SuccessThreshold <- EarlyThenLate
    ReminderInterval <- SameReminders
    SendOnResolved <- TellsFirst
    Checksum <- OwnChecksums
    Configurations <- Changing
    KeepsReminderTime = TRUE
    NoRow = NoRow
    CounterCap = 3
    MaxRestarts = 2
    MaxStoreErrors = 1
    MaxSendErrors = 1
    Length = 3
    AlwaysRun <- LastOne
    Concurrency = 1
    RestoredRows <- NoneOrTwo
    MaxCycles = 2
    MaxExecutions = 1
    MaxMishaps = 1
INVARIANT TypeOK
INVARIANT TriggeredArePersisted
PROPERTY RemindersOnTime
PROPERTY ResolvedOnlyIfNotified
PROPERTY ImplementsIncidents
INVARIANT ThresholdsHonoured
PROPERTY AlertsFollowHealth
INVARIANT SuitesConsistent
CHECK_DEADLOCK FALSE
