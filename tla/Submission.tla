----------------------------- MODULE Submission -----------------------------
(***************************************************************************)
(* submit over a MemoryTaskStore: the request is checked and encoded, the  *)
(* store accepts it or refuses it, and submission_store_result decides     *)
(* which refusals are the caller's business and which are a fault of the   *)
(* store, after which the service takes no more work.                      *)
(***************************************************************************)
EXTENDS MemoryTaskStore, Sequences, FiniteSetsExt

CONSTANTS
    FieldsOf,                   \* what a TaskRequest is made of
    CodecType,                  \* the value type of each registered codec
    MAX_TASK_PAYLOAD_BYTES

\* Malformed is what the store looks at, in terms of the fields; no codec is
\* registered under an empty id.
ASSUME SubmissionAssumption ==
    /\ Malformed = {r \in Requests : FieldsOf[r].kind = "" \/ FieldsOf[r].payload.codec = ""}
    /\ "" \notin DOMAIN CodecType

VARIABLE service                \* "serving", or "stopping" once a fault is latched

svars == <<state, owner_epoch, last_owner_epoch, failed, service>>

-----------------------------------------------------------------------------
(***************************************************************************)
(* TaskRequest::encode.                                                    *)
(***************************************************************************)
MAX_ENTRIES == 32
MAX_NAME_BYTES == 128
MAX_DESCRIPTION_BYTES == 8192
MAX_TASK_METADATA_ENTRIES == 32
MAX_TASK_METADATA_BYTES == 16 * 1024

\* A name is a pair of an identity and its number of bytes.
Named(names) == \A n \in names : n[2] \in 1 .. MAX_NAME_BYTES

\* The bytes of the GPU labels, which are distinct, and of the custom names.
DescriptionBytes(labels, custom) ==
    MapThenSumSet(LAMBDA n : n[2], labels) + MapThenSumSet(LAMBDA n : n[2], custom)

\* ResourceRequest::validate_limits
ValidateLimits(q) ==
    LET labels == {q.gpu_labels[i] : i \in DOMAIN q.gpu_labels}
    IN  /\ Len(q.gpu_labels) <= MAX_ENTRIES
        /\ Named(labels)
        /\ Cardinality(labels) = Len(q.gpu_labels)
        /\ q.gpu_count = 0 => labels = {}
        /\ Cardinality(q.custom) <= MAX_ENTRIES
        /\ Named(q.custom)
        /\ DescriptionBytes(labels, q.custom) <= MAX_DESCRIPTION_BYTES

\* Payload::encode: the codec is registered, for the type of this payload, and
\* can encode this value.
EncodesPayload(payload) ==
    /\ payload.codec \in DOMAIN CodecType
    /\ CodecType[payload.codec] = payload.type
    /\ payload.encodes

\* Mutant: the kind is not looked at.
EncodesAnyKind(r) ==
    /\ ValidateLimits(FieldsOf[r].resource_limit)
    /\ EncodesPayload(FieldsOf[r].payload)
    /\ SizeOf[r] <= MAX_TASK_PAYLOAD_BYTES

Encodes(r) ==
    LET f == FieldsOf[r]
    IN  /\ f.kind \notin {"", " "}
        /\ ValidateLimits(f.resource_limit)
        /\ f.metadata_entries <= MAX_TASK_METADATA_ENTRIES
        /\ f.metadata_bytes <= MAX_TASK_METADATA_BYTES
        /\ EncodesPayload(f.payload)
        /\ SizeOf[r] <= MAX_TASK_PAYLOAD_BYTES

Encodable == {r \in Requests : Encodes(r)}

-----------------------------------------------------------------------------
(***************************************************************************)
(* submit.                                                                 *)
(***************************************************************************)
\* store_result latches every error but these.
StoreResultLatches(verdict) == verdict \notin {"Ok", "Replayed", "Conflict", "NotFound"}

\* submission_store_result answers the known refusals itself.
SubmissionLatches(verdict) ==
    /\ verdict \notin {"CapacityExceeded", "UnfinishedRecordLimitExceeded",
                       "IdempotencyConflict", "DuplicateTask"}
    /\ StoreResultLatches(verdict)

SubmitInit == Init /\ service = "serving"

\* A request that does not encode is returned to its caller.
Submit(id, r) ==
    /\ service = "serving"
    /\ r \in Encodable
    /\ Accept(id, r, AcceptedAt[id])
    /\ service' = IF SubmissionLatches(AcceptAnswer(state, id, r)) THEN "stopping" ELSE service

SubmitNext ==
    \/ \E id \in Ids, r \in Requests : Submit(id, r)
    \/ Others /\ UNCHANGED service

SubmitSpec == SubmitInit /\ [][SubmitNext]_svars

-----------------------------------------------------------------------------
\* No submission stops the service, whatever it contains and however full the
\* store is.  The store would answer InvalidRequest to a request without a
\* kind or a codec, which latches a fault: encode has to refuse all of those
\* first, and the refusals of a full store must not count as its failures.
RefusalsKeepServing == service = "serving"
=============================================================================
