SPECIFICATION MCSpec
CONSTANTS
    AlertCount = 2
    FailureThreshold <- EarlyThenLate
    SuccessThreshold <- EarlyThenLate
    ReminderInterval <- UnequalReminders
    SendOnResolved <- TellsFirst
    Checksum <- OwnChecksums
    Configurations <- Always
    KeepsReminderTime = TRUE
    NoRow = NoRow
    CounterCap = 4
    MaxRestarts = 0
    MaxStoreErrors = 0
    MaxSendErrors = 1
    Length = 3
    AlwaysRun <- LastOne
    Concurrency = 1
    RestoredRows <- NoneOrTwo
    MaxCycles = 2
    MaxExecutions = 1
    MaxMishaps = 1
PROPERTY TriggeredByItsEndpoint
CHECK_DEADLOCK FALSE
