SPECIFICATION Spec
CONSTANTS
    c1 = c1
    c2 = c2
    h1 = h1
    h2 = h2
    TaskIds <- MCTwoTasks
    Clients <- MCTwoClients
    Flights <- MCTwoFlights
    CancellationMode <- MCMixed
    MaxRunning = 1
    MaxAttempts = 2
    AttemptBound = 2
    VersionBound = 3
    StoreMayFail = FALSE
    RetentionEvicts = FALSE
    OversizedDiagnostics = FALSE
    CallersMayDrop = FALSE
    Restarts = FALSE
INVARIANTS
    CancelSignalled
    NoSpuriousFault
    OneHookPerAttempt
    HookResultsPersisted
    RunningWithinLimit
PROPERTIES
    NoAttemptAfterCancel
SYMMETRY MCSymmetry
CHECK_DEADLOCK FALSE
