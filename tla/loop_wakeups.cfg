SPECIFICATION Spec
CONSTANTS
    TaskIds <- MCThreeTasks
    MaxRunning = 2
    PageSize = 1
    Fits <- MCTwoCompete
    MaxBypasses = 1
    MaxAttempts = 2
    RetryDelay = 1
    MaxTime = 2
    CallersMayDrop = TRUE
INVARIANTS
    SleepJustified
CHECK_DEADLOCK FALSE
