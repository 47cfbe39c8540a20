SPECIFICATION Spec
CONSTANTS
    s1 = s1
    s2 = s2
    Stores = {s1, s2}
    NoStore = NoStore
    Ids = {1, 2}
    Requests = {"keyed"}
    KeyOf <- MCKeyOf
    NoKey = "none"
    NoRequest = "no request"
    FoundSchemas <- MCFoundSchemas
    TargetStates = {"Queued", "Cancelled"}
    VersionBound = 4
    ProgressBound = 1
    EpochBound = 2
SYMMETRY Symmetry
INVARIANTS
    ColumnsMirrorLifecycle
    OwnershipKept
    
    EventsHaveTasks
PROPERTIES
    
    CheckpointNeverRegresses
    ImplementsTaskStore
