SPECIFICATION FairSpec
CONSTANTS
    TaskIds <- MCTwoTasks
    MaxRunning = 1
    PageSize = 1
    Fits <- MCOneLease
    MaxBypasses = 1
    MaxAttempts = 2
    RetryDelay = 1
    MaxTime = 3
    CallersMayDrop = FALSE
PROPERTIES
    FreshDispatched
CHECK_DEADLOCK FALSE
