-------------------------- MODULE MemoryTaskStore --------------------------
(***************************************************************************)
(* MemoryTaskStore: a map of task records with the indexes and counters    *)
(* that bound what it retains.  Every operation runs under one mutex, so   *)
(* each is one step; what can go wrong is that the counters, the           *)
(* idempotency index and the eviction order drift away from the records    *)
(* they describe over a long sequence of calls.                            *)
(***************************************************************************)
EXTENDS TaskRecord, FiniteSets

CONSTANTS
    Ids,                     \* task ids, ordered
    Requests,                \* encoded requests
    KeyOf,                   \* idempotency_key of a request, or NoKey
    NoKey,
    NoRequest,               \* the request of a task that is not retained
    SizeOf,                  \* payload.bytes.len()
    Malformed,               \* requests with an empty kind or codec id
    history_capacity,
    max_payload_bytes,
    max_unfinished_records,
    AcceptedAt,              \* bound: what the clock shows when a task is accepted
    FinishedAt,              \* bound: what it shows when a task is finished
    TargetStates,            \* bound: the states transitions ask for
    VersionBound,            \* bound: no write to a task at this version
    ProgressBound,           \* bound: no progress_version beyond this one
    EpochBound,              \* bound: no owner after this many
    Snapshots                \* bound: the sizes of what handlers report

ASSUME MemoryAssumption ==
    /\ Ids \subseteq Nat \ {0} /\ IsFiniteSet(Ids)
    /\ NoRequest \notin Requests
    /\ SizeOf \in [Requests -> Nat]
    /\ Malformed \subseteq Requests
    /\ history_capacity \in Nat
    /\ max_payload_bytes \in Nat \ {0}
    /\ max_unfinished_records \in Nat \ {0}
    /\ AcceptedAt \in [Ids -> Nat \ {0}]
    /\ FinishedAt \in [Ids -> Nat \ {0}]
    /\ TargetStates \subseteq TaskStates
    /\ {VersionBound, ProgressBound, EpochBound} \subseteq Nat

VARIABLES
    state,             \* MemoryState: the records, their indexes and counters
    owner_epoch,       \* 0 for None
    last_owner_epoch,
    failed             \* whether the last call returned an error

vars == <<state, owner_epoch, last_owner_epoch, failed>>
ownership == <<owner_epoch, last_owner_epoch>>

Keys == {KeyOf[r] : r \in Requests} \ {NoKey}
NoId == 0

\* A StoredTask: its summary, request, accepted_at_ms, finished_at_ms and the
\* progress_version of its snapshot (0 stands for None).
AbsentTask ==
    [summary |-> Absent, request |-> NoRequest, accepted |-> 0, finished |-> 0, progress |-> 0]

UnbornTask ==
    [summary |-> Unborn, request |-> NoRequest, accepted |-> 0, finished |-> 0, progress |-> 0]

RetainedIds(tasks) == {id \in Ids : Retained(tasks[id].summary)}
TerminalIds(tasks) == {id \in Ids : IsTerminal(tasks[id].summary.state)}
UnfinishedIds(tasks) == RetainedIds(tasks) \ TerminalIds(tasks)

\* The payload bytes of some tasks, one element for each byte, and their number.
Bytes(tasks, ids) == UNION {{id} \X (1 .. SizeOf[tasks[id].request]) : id \in ids}
Size(tasks, ids) == Cardinality(Bytes(tasks, ids))

-----------------------------------------------------------------------------
(***************************************************************************)
(* MemoryState.  The deque encoded_terminal_order is the set of pairs      *)
(* <<ticket, id>>: push_back takes the next ticket, and the front is the   *)
(* pair with the smallest one.                                             *)
(***************************************************************************)
OrderIds(order) == {e[2] : e \in order}
OrderBefore(order, e) == {d \in order : d[1] < e[1]}

EmptyState ==
    [tasks |-> [id \in Ids |-> UnbornTask],
     idempotency |-> [k \in Keys |-> NoId],
     order |-> {},
     ticket |-> 1,
     bytes |-> 0,
     unfinished |-> 0]

\* Mutant: a removed record leaves its idempotency key behind.
IndexUntouched(m, gone) == m.idempotency

IndexWithout(m, gone) ==
    [k \in Keys |-> IF \E id \in gone : KeyOf[m.tasks[id].request] = k
                    THEN NoId ELSE m.idempotency[k]]

OrderWithout(m, gone) == {e \in m.order : e[2] \notin gone}

\* remove_encoded_task for each id of a set; an id that is not retained changes
\* nothing.
RemoveEncodedTasks(m, ids) ==
    LET gone == ids \cap RetainedIds(m.tasks)
    IN  [tasks |-> [id \in Ids |-> IF id \in gone THEN AbsentTask ELSE m.tasks[id]],
         idempotency |-> IndexWithout(m, gone),
         order |-> OrderWithout(m, gone),
         ticket |-> m.ticket,
         bytes |-> m.bytes - Size(m.tasks, gone),
         unfinished |-> m.unfinished - Cardinality(gone \cap UnfinishedIds(m.tasks))]

\* A loop over evict_oldest_encoded_terminal stops at a front it cannot remove.
Evictable(m, e) ==
    \A d \in OrderBefore(m.order, e) \cup {e} : d[2] \in RetainedIds(m.tasks)

\* Mutant: one task more is evicted when the room is just enough.
EvictedForRoomGreedy(m, room) ==
    OrderIds({e \in m.order :
                  /\ Evictable(m, e)
                  /\ m.bytes - Size(m.tasks, OrderIds(OrderBefore(m.order, e))) >= room})

\* accept_encoded evicts the oldest while what is retained leaves no room.
EvictedForRoom(m, room) ==
    OrderIds({e \in m.order :
                  /\ Evictable(m, e)
                  /\ m.bytes - Size(m.tasks, OrderIds(OrderBefore(m.order, e))) > room})

\* transition_encoded evicts the oldest while the deque is over its capacity.
EvictedForHistory(m) ==
    OrderIds({e \in m.order :
                  /\ Evictable(m, e)
                  /\ Cardinality(m.order \ OrderBefore(m.order, e)) > history_capacity})

-----------------------------------------------------------------------------
(***************************************************************************)
(* The operations that write.                                              *)
(***************************************************************************)
Init ==
    /\ state = EmptyState
    /\ owner_epoch = 0
    /\ last_owner_epoch = 0
    /\ failed = FALSE

Answered(verdict) ==
    /\ failed' = (verdict # "Replayed")
    /\ UNCHANGED <<state, ownership>>

Written(m) ==
    /\ state' = m
    /\ failed' = FALSE
    /\ UNCHANGED ownership

\* The bytes that would stay if every finished task were evicted.
MinimumRetained(m) ==
    LET reclaimable == Size(m.tasks, OrderIds(m.order) \cap RetainedIds(m.tasks))
    IN  IF m.bytes > reclaimable THEN m.bytes - reclaimable ELSE 0

KeyHolder(m, r) == IF KeyOf[r] = NoKey THEN NoId ELSE m.idempotency[KeyOf[r]]

\* Mutant: nobody asks whether evicting every finished task would suffice.
AcceptAnswerHopeful(m, id, r) ==
    IF KeyHolder(m, r) # NoId THEN "IdempotencyConflict"
    ELSE IF id \in RetainedIds(m.tasks) THEN "DuplicateTask"
    ELSE IF m.unfinished >= max_unfinished_records THEN "UnfinishedRecordLimitExceeded"
    ELSE IF SizeOf[r] > max_payload_bytes THEN "CapacityExceeded"
    ELSE "Ok"

\* The checks of accept_encoded, in its order.
AcceptAnswer(m, id, r) ==
    LET holder == KeyHolder(m, r)
    IN  IF r \in Malformed THEN "InvalidRequest"
        ELSE IF holder # NoId
             THEN IF holder \notin RetainedIds(m.tasks) THEN "NotFound"
                  ELSE IF m.tasks[holder].request # r THEN "IdempotencyConflict"
                  ELSE "Replayed"
        ELSE IF id \in RetainedIds(m.tasks) THEN "DuplicateTask"
        ELSE IF m.unfinished >= max_unfinished_records THEN "UnfinishedRecordLimitExceeded"
        ELSE IF MinimumRetained(m) + SizeOf[r] > max_payload_bytes THEN "CapacityExceeded"
        ELSE "Ok"

\* The insertion at the end of accept_encoded.
Insert(m, id, r, now) ==
    [tasks |-> [m.tasks EXCEPT ![id] = [summary |-> Accepted, request |-> r,
                                        accepted |-> now, finished |-> 0, progress |-> 0]],
     idempotency |-> IF KeyOf[r] = NoKey THEN m.idempotency
                     ELSE [m.idempotency EXCEPT ![KeyOf[r]] = id],
     order |-> m.order,
     ticket |-> m.ticket,
     bytes |-> m.bytes + SizeOf[r],
     unfinished |-> m.unfinished + 1]

\* accept_encoded.  Should evicting every finished task not make room after
\* all, the call fails with the evictions done.  The generator does not hand
\* out the id of a task that was accepted and forgotten.
Accept(id, r, now) ==
    LET verdict == AcceptAnswer(state, id, r)
        room == max_payload_bytes - SizeOf[r]
        evicted == RemoveEncodedTasks(state, EvictedForRoom(state, room))
    IN  \/ verdict # "Ok" /\ Answered(verdict)
        \/ /\ verdict = "Ok"
           /\ state.tasks[id] = UnbornTask
           /\ state' = IF evicted.bytes > room THEN evicted ELSE Insert(evicted, id, r, now)
           /\ failed' = (evicted.bytes > room)
           /\ UNCHANGED ownership

WithTask(m, id, task) ==
    [tasks |-> [m.tasks EXCEPT ![id] = task], idempotency |-> m.idempotency,
     order |-> m.order, ticket |-> m.ticket, bytes |-> m.bytes, unfinished |-> m.unfinished]

Start(id, expected_version) ==
    LET task == state.tasks[id]
        verdict == StartResult(task.summary, expected_version)
    IN  \/ verdict # "Ok" /\ Answered(verdict)
        \/ /\ verdict = "Ok"
           /\ task.summary.state_version < VersionBound
           /\ Written(WithTask(state, id, [summary |-> Started(task.summary),
                                           request |-> task.request,
                                           accepted |-> task.accepted,
                                           finished |-> 0,
                                           progress |-> 0]))

\* validate_encoded_output and the refusal to add output to a finished task.
TransitionAnswer(task, cmd, output) ==
    LET verdict == TransitionResult(task.summary, cmd)
    IN  IF output /\ cmd.state # "Succeeded" THEN "InvalidRequest"
        ELSE IF verdict = "Ok" /\ output /\ IsTerminal(task.summary.state)
             THEN "InvalidRequest"
        ELSE verdict

\* The bookkeeping of a task that has become terminal.
NewlyFinished(before, m, id) ==
    IF ~IsTerminal(before.summary.state) /\ IsTerminal(m.tasks[id].summary.state)
    THEN [tasks |-> m.tasks, idempotency |-> m.idempotency,
          order |-> m.order \cup {<<m.ticket, id>>},
          ticket |-> m.ticket + 1,
          bytes |-> m.bytes,
          unfinished |-> IF m.unfinished > 0 THEN m.unfinished - 1 ELSE 0]
    ELSE m

\* transition_encoded, with the evictions that follow it.
Transition(id, cmd, output, finished) ==
    LET task == state.tasks[id]
        verdict == TransitionAnswer(task, cmd, output)
        moved == WithTask(state, id,
                     [summary |-> Transitioned(task.summary, cmd),
                      request |-> task.request,
                      accepted |-> task.accepted,
                      finished |-> IF IsTerminal(cmd.state) THEN finished ELSE task.finished,
                      progress |-> task.progress])
        noted == NewlyFinished(task, moved, id)
    IN  \/ verdict # "Ok" /\ Answered(verdict)
        \/ /\ verdict = "Ok"
           /\ task.summary.state_version < VersionBound
           /\ Written(RemoveEncodedTasks(noted, EvictedForHistory(noted)))

\* TaskProgressSnapshot::from_command: lengths of the names in bytes, number
\* of metrics, and bytes of the whole snapshot once it is serialized.
FromCommand(p) ==
    /\ p.metrics <= 32
    /\ p.stage_id <= 128
    /\ p.stage_name <= 256
    /\ p.encoded <= 16 * 1024

UpdateProgress(id, attempt, version, p) ==
    LET task == state.tasks[id]
        verdict == IF ~FromCommand(p) THEN "InvalidRequest"
                   ELSE IF ~Retained(task.summary) THEN "NotFound"
                   ELSE IF \/ task.summary.state # "Running"
                           \/ task.summary.attempt # attempt
                           \/ task.progress >= version THEN "Conflict"
                   ELSE "Ok"
    IN  \/ verdict # "Ok" /\ Answered(verdict)
        \/ /\ verdict = "Ok"
           /\ Written(WithTask(state, id, [task EXCEPT !.progress = version]))

\* Mutant: a task without a finish time counts as finished long ago.
PruneTerminalBeforeUnfinished(cutoff, max_rows) ==
    Written(RemoveEncodedTasks(state,
                {id \in RetainedIds(state.tasks) : state.tasks[id].finished < cutoff}))

\* prune_terminal_before: the oldest finished tasks, at most max_rows of them.
PruneTerminalBefore(cutoff, max_rows) ==
    LET expired == {id \in TerminalIds(state.tasks) :
                       state.tasks[id].finished # 0 /\ state.tasks[id].finished < cutoff}
        earlier(id) ==
            {other \in expired :
                \/ state.tasks[other].finished < state.tasks[id].finished
                \/ state.tasks[other].finished = state.tasks[id].finished /\ other < id}
    IN  Written(RemoveEncodedTasks(state,
                    {id \in expired : Cardinality(earlier(id)) < max_rows}))

AcquireOwner ==
    IF owner_epoch # 0 THEN Answered("OwnerConflict")
    ELSE /\ last_owner_epoch < EpochBound
         /\ last_owner_epoch' = last_owner_epoch + 1
         /\ owner_epoch' = last_owner_epoch'
         /\ failed' = FALSE
         /\ UNCHANGED state

ReleaseOwner(epoch) ==
    IF owner_epoch # epoch THEN Answered("OwnerConflict")
    ELSE /\ owner_epoch' = 0
         /\ failed' = FALSE
         /\ UNCHANGED <<state, last_owner_epoch>>

\* A command a caller writes with, plain or with one thing added to it.
Additions == {"nothing", "diagnostic", "deadline", "output", "stale version"}

Command(id, to, with) ==
    [state_version |-> state.tasks[id].summary.state_version
                           + (IF with = "stale version" THEN 1 ELSE 0),
     attempt |-> state.tasks[id].summary.attempt,
     state |-> to,
     cancel_requested |-> with = "diagnostic",
     cancel_error |-> with = "diagnostic",
     retry |-> IF with = "deadline" THEN "pending" ELSE "none",
     diagnostics_valid |-> TRUE]

Others ==
    \/ \E id \in Ids, v \in {0, 2} : Start(id, v)
    \/ \E id \in Ids, to \in TargetStates, with \in Additions :
           Transition(id, Command(id, to, with), with = "output", FinishedAt[id])
    \/ \E id \in Ids, v \in 1 .. ProgressBound, p \in Snapshots :
           UpdateProgress(id, 1, v, p)
    \/ \E id \in Ids, max_rows \in 1 .. 2 : PruneTerminalBefore(FinishedAt[id] + 1, max_rows)
    \/ AcquireOwner
    \/ \E epoch \in 1 .. EpochBound + 1 : ReleaseOwner(epoch)

Next == (\E id \in Ids, r \in Requests : Accept(id, r, AcceptedAt[id])) \/ Others

Spec == Init /\ [][Next]_vars

-----------------------------------------------------------------------------
(***************************************************************************)
(* Properties.                                                             *)
(***************************************************************************)
Summaries ==
    [state : TaskStates \cup AbsentStates, state_version : Nat, attempt : Nat,
     cancel_requested : BOOLEAN, cancel_error : BOOLEAN, retry : RetryStates]

StoredTasks ==
    [summary : Summaries, request : Requests \cup {NoRequest},
     accepted : Nat, finished : Nat, progress : Nat]

MemoryStates ==
    [tasks : [Ids -> StoredTasks], idempotency : [Keys -> Ids \cup {NoId}],
     order : SUBSET (Nat \X Ids), ticket : Nat, bytes : Nat, unfinished : Nat]

\* A task has a request exactly while it is retained.
RequestsMatch(m) == \A id \in Ids : Retained(m.tasks[id].summary) <=> m.tasks[id].request # NoRequest

\* Type invariant: the counters never go below zero.
TypeOK ==
    /\ state \in MemoryStates
    /\ RequestsMatch(state)
    /\ owner_epoch \in 0 .. last_owner_epoch
    /\ last_owner_epoch \in Nat
    /\ failed \in BOOLEAN

CountersMatch(m) ==
    /\ m.bytes = Size(m.tasks, RetainedIds(m.tasks))
    /\ m.unfinished = Cardinality(UnfinishedIds(m.tasks))

\* retained_payload_bytes and unfinished_records, which accept_encoded,
\* transition_encoded and remove_encoded_task each adjust by a difference, are
\* at all times the sizes of what the map really holds.
CountersExact == CountersMatch(state)

OrderMatches(m) ==
    /\ OrderIds(m.order) = TerminalIds(m.tasks)
    /\ \A d, e \in m.order : d[1] = e[1] \/ d[2] = e[2] => d = e
    /\ \A e \in m.order : e[1] < m.ticket

\* encoded_terminal_order holds every finished task exactly once and nothing
\* else, so eviction can reach all of them and never meets a missing one.
OrderExact == OrderMatches(state)

IndexMatches(m) ==
    \A k \in Keys, id \in Ids :
        m.idempotency[k] = id <=>
            /\ id \in RetainedIds(m.tasks)
            /\ KeyOf[m.tasks[id].request] = k

\* encoded_idempotency leads from a key to the one retained task accepted with
\* it; a key of a task that was evicted or pruned leads nowhere.
IndexExact == IndexMatches(state)

\* The limits given to with_limits hold in every state.
LimitsHold ==
    /\ state.bytes <= max_payload_bytes
    /\ state.unfinished <= max_unfinished_records
    /\ Cardinality(state.order) <= history_capacity

\* The four structures that accept_encoded, transition_encoded and
\* remove_encoded_task keep side by side tell one story, within the limits.
AccountingExact == CountersExact /\ OrderExact /\ IndexExact /\ LimitsHold

\* A call that returns an error has changed nothing: in particular
\* accept_encoded does not evict finished tasks and then fail for lack of room.
FailedCallChangesNothing == [][failed' => UNCHANGED state]_vars

\* When a task is accepted, finished tasks are evicted oldest first and only
\* as many as needed: with the youngest of them kept there would be no room.
EvictionIsFrugal ==
    [][\A id \in RetainedIds(state'.tasks) \ RetainedIds(state.tasks) :
           LET gone == {e \in state.order : e[2] \notin RetainedIds(state'.tasks)}
           IN  \A e \in gone :
                   /\ OrderBefore(state.order, e) \subseteq gone
                   /\ (\A d \in gone : d[1] <= e[1]) =>
                          state'.bytes + Size(state.tasks, {e[2]}) > max_payload_bytes]_vars

\* MemoryTaskStore implements TaskStore.
Abstract ==
    INSTANCE TaskStore WITH
        summary <- [id \in Ids |-> state.tasks[id].summary],
        request <- [id \in Ids |-> state.tasks[id].request],
        progress <- [id \in Ids |-> state.tasks[id].progress],
        owner <- owner_epoch,
        issued <- last_owner_epoch

ImplementsTaskStore == Abstract!Spec
=============================================================================
