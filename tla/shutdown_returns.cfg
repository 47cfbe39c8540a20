SPECIFICATION FairSpec
CONSTANTS
    c1 = c1
    c2 = c2
    k1 = k1
    o1 = o1
    o2 = o2
    Callers <- MCOneCaller
    Clients <- MCOneClient
    Ops <- MCOneOp
    MaxResults = 2
    StoreMayFail = TRUE
    ReleaseMayFail = TRUE
    HandleMayDrop = TRUE
    RetryQueued = TRUE
PROPERTIES
    
    OwnerGivenBack
CHECK_DEADLOCK FALSE
