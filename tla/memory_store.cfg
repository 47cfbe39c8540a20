SPECIFICATION SubmitSpec
CONSTANTS
    Ids = {1, 2, 3}
    Requests <- MCRequests
    KeyOf <- MCKeyOf
    NoKey = "none"
    NoRequest = "no request"
    SizeOf <- MCSizeOf
    Malformed <- MCMalformed
    Snapshots <- MCSnapshots
    FieldsOf <- MCFieldsOf
    CodecType <- MCCodecType
    MAX_TASK_PAYLOAD_BYTES = 3
    history_capacity = 2
    max_payload_bytes = 2
    max_unfinished_records = 2
    AcceptedAt <- MCAcceptedAt
    FinishedAt <- MCFinishedAt
    TargetStates = {"Cancelled"}
    VersionBound = 2
    ProgressBound = 1
    EpochBound = 1
INVARIANTS AccountingExact RefusalsKeepServing
PROPERTIES FailedCallChangesNothing EvictionIsFrugal ImplementsTaskStore
