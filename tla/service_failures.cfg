SPECIFICATION Spec
CONSTANTS
    c1 = c1
    c2 = c2
    h1 = h1
    h2 = h2
    TaskIds <- MCOneTask
    Clients <- MCTwoClients
    Flights <- MCOneFlight
    CancellationMode <- MCExternalHook
    MaxRunning = 1
    MaxAttempts = 2
    AttemptBound = 2
    VersionBound = 3
    StoreMayFail = TRUE
    RetentionEvicts = TRUE
    OversizedDiagnostics = TRUE
    CallersMayDrop = TRUE
    Restarts = TRUE
INVARIANTS
    AttemptFenced
    SnapshotsCurrent
PROPERTIES
    ImplementsLifecycle
