------------------------- MODULE MCMemoryTaskStore -------------------------
(***************************************************************************)
(* An instance of Submission for TLC.  Two requests share an idempotency   *)
(* key; "large" is more than the store may hold, though not more than a    *)
(* request may have; every other request goes beyond one limit of encode,  *)
(* by one, or up to it.                                                    *)
(***************************************************************************)
EXTENDS Submission

Plain ==
    [kind |-> "k",
     payload |-> [type |-> "p", codec |-> "json", encodes |-> TRUE],
     resource_limit |-> [gpu_count |-> 1, gpu_labels |-> <<>>, custom |-> {}],
     metadata_entries |-> 0,
     metadata_bytes |-> 2]

Full == [Plain EXCEPT !.resource_limit.gpu_labels = [i \in 1 .. 32 |-> <<i, 128>>],
                      !.resource_limit.custom = {<<i, 128>> : i \in 1 .. 32},
                      !.metadata_entries = 32,
                      !.metadata_bytes = 16384]

MCFieldsOf ==
    [keyed |-> Plain, conflicting |-> Plain, large |-> Plain, huge |-> Plain, plain |-> Full,
     unnamed |-> [Plain EXCEPT !.kind = ""],
     blank |-> [Plain EXCEPT !.kind = " "],
     codec |-> [Plain EXCEPT !.payload.codec = "cbor"],
     type |-> [Plain EXCEPT !.payload.type = "q"],
     value |-> [Plain EXCEPT !.payload.encodes = FALSE],
     metadata |-> [Full EXCEPT !.metadata_entries = 33],
     labels |-> [Full EXCEPT !.resource_limit.gpu_labels = [i \in 1 .. 33 |-> <<i, 1>>]],
     unused |-> [Full EXCEPT !.resource_limit.gpu_count = 0],
     twice |-> [Plain EXCEPT !.resource_limit.gpu_labels = <<<<1, 1>>, <<1, 1>>>>]]

MCRequests == DOMAIN MCFieldsOf
MCMalformed == {r \in MCRequests : MCFieldsOf[r].kind = "" \/ MCFieldsOf[r].payload.codec = ""}
MCCodecType == [json |-> "p", cbor |-> "q"]

FullSnapshot == [metrics |-> 32, stage_id |-> 128, stage_name |-> 256, encoded |-> 16384]
MCSnapshots == {FullSnapshot,
                [FullSnapshot EXCEPT !.metrics = 33],
                [FullSnapshot EXCEPT !.stage_id = 129],
                [FullSnapshot EXCEPT !.stage_name = 257],
                [FullSnapshot EXCEPT !.encoded = 16385]}

MCKeyOf == [r \in MCRequests |-> IF r \in {"keyed", "conflicting"} THEN "key" ELSE "none"]

MCSizeOf == [r \in MCRequests |-> CASE r = "keyed" -> 2
                                    [] r = "conflicting" -> 0
                                    [] r = "large" -> 3
                                    [] r = "huge" -> 4
                                    [] OTHER -> 1]

\* The clock steps back between the first task and the second.
MCAcceptedAt == <<2, 1, 2>>
MCFinishedAt == <<1, 2, 1>>
=============================================================================
