SPECIFICATION Spec
CONSTANTS
    Tasks <- MCTasks
    RequestOf <- MCRequestOf
    PayloadOf <- MCPayloadOf
    Offers <- MCOffers
    Codecs = {"json"}
    Capacities <- MCCapacities
    Quotas = {"cpu"}
    initial_delay = 2
    max_delay = 3
    max_attempts = 3
    TokenMax = 5
    ReportBound = 2
    RestartBound = 1
INVARIANTS
    LedgerExact ReporterKeepsUp RetryDelaysDouble AttemptsBounded
PROPERTIES
    UnknownPayloadsOnlyBlock
CHECK_DEADLOCK FALSE
