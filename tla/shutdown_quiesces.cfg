SPECIFICATION Spec
CONSTANTS
    c1 = c1
    c2 = c2
    k1 = k1
    o1 = o1
    o2 = o2
    Callers <- MCTwoCallers
    Clients <- MCOneClient
    Ops <- MCOneOp
    MaxResults = 2
    StoreMayFail = TRUE
    ReleaseMayFail = TRUE
    HandleMayDrop = TRUE
    RetryQueued = TRUE
INVARIANTS
    ReleasedWhenQuiet
    AnswersExact
CHECK_DEADLOCK FALSE
