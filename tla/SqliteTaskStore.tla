-------------------------- MODULE SqliteTaskStore --------------------------
(***************************************************************************)
(* SqliteTaskStore: instances of the store, in one process or in several,  *)
(* that open the same database path, take the owner lock, migrate the      *)
(* schema and then read and write rows.                                    *)
(*                                                                         *)
(* run() hands every operation to a blocking worker that finishes it even  *)
(* when the caller's future is dropped, one at a time for each instance.   *)
(* An action below is the moment at which such a closure runs: any call    *)
(* may have been made long before, so a write or a release can come after  *)
(* the ownership it was meant for has ended.  A transaction that fails, or *)
(* that a crash interrupts, is rolled back and is no step at all.          *)
(***************************************************************************)
EXTENDS TaskRecord, SqliteSchema, FiniteSets, FiniteSetsExt

CONSTANTS
    Stores,         \* SqliteTaskStore instances on one database path
    NoStore,
    Ids,            \* task ids
    Requests,       \* encoded requests
    KeyOf,          \* the idempotency key of a request, or NoKey
    NoKey,
    NoRequest,
    FoundSchemas,   \* what the database file may hold when it is first opened
    TargetStates,   \* bound: the states transitions ask for
    VersionBound,   \* bound: no more revisions than this, of all tasks
    ProgressBound,  \* bound: no progress_version beyond this one
    EpochBound      \* bound: no owner after this many

ASSUME SqliteAssumption ==
    /\ NoStore \notin Stores
    /\ IsFiniteSet(Ids)
    /\ NoRequest \notin Requests
    /\ FoundSchemas \subseteq Schemas
    /\ TargetStates \subseteq TaskStates
    /\ {VersionBound, ProgressBound, EpochBound} \subseteq Nat

VARIABLES
    schema,    \* user_version and tables of the database file
    tasks,     \* the tasks table
    outbox,    \* task_event_outbox: <<task_id, state_version>> pairs
    checkpoint, \* task_terminal_checkpoints
    owner_epoch, \* the metadata row of that name, 0 if there is none
    file,      \* identity of the file at the database path
    holder,    \* the instance whose handle has the OS lock
    store,     \* the instances
    service    \* what the services that own an instance believe: epochs

database == <<tasks, outbox, checkpoint, owner_epoch>>
vars == <<schema, tasks, outbox, checkpoint, owner_epoch, file, holder, store, service>>

-----------------------------------------------------------------------------
(***************************************************************************)
(* A row of the tasks table.  The columns that queries and conditions use  *)
(* repeat what lifecycle_json says; progress stands for the progress       *)
(* member of lifecycle_json, <<attempt, version>>.                         *)
(***************************************************************************)
NoProgress == <<0, 0>>

NoRow(state) ==
    [state_kind |-> state, state_version |-> 0, attempt |-> 0, retry |-> "none",
     progress_attempt |-> 0, progress_version |-> 0,
     lifecycle |-> [Unborn EXCEPT !.state = state], progress |-> NoProgress,
     request |-> NoRequest]

Exists(id) == Retained(tasks[id].lifecycle)

NoCheckpoint == [state |-> "none", state_version |-> 0]

\* file_key 0: no identity taken yet.  Epoch 0: None.
Closed ==
    [pc |-> "closed", file_key |-> 0, connection |-> 0, lock_file |-> FALSE,
     epoch |-> 0, outbox_enabled |-> FALSE]

Init ==
    /\ schema \in FoundSchemas
    /\ tasks = [id \in Ids |-> NoRow("Unborn")]
    /\ outbox = {}
    /\ checkpoint = [id \in Ids |-> NoCheckpoint]
    /\ owner_epoch = 0
    /\ file = 1
    /\ holder = NoStore
    /\ store = [s \in Stores |-> Closed]
    /\ service = [s \in Stores |-> [owning |-> {}, releasing |-> {}]]

-----------------------------------------------------------------------------
(***************************************************************************)
(* open: identity, owner lock, identity again, connection, identity again, *)
(* schema.  Between two of these the file at the path may be replaced, and *)
(* any of them may fail, which drops the handles taken so far.             *)
(***************************************************************************)
OpenIdentity(s) ==
    /\ store[s].pc = "closed"
    /\ store' = [store EXCEPT ![s].pc = "identified", ![s].file_key = file]
    /\ UNCHANGED <<schema, database, file, holder, service>>

LockFree == holder = NoStore

\* acquire_owner_lock
OpenLock(s) ==
    /\ store[s].pc = "identified"
    /\ LockFree
    /\ holder' = s
    /\ store' = [store EXCEPT ![s].pc = "locked", ![s].lock_file = TRUE]
    /\ UNCHANGED <<schema, database, file, service>>

\* DatabaseIdentity::verify
Verify(s) == store[s].file_key = file

OpenVerified(s) ==
    /\ store[s].pc = "locked"
    /\ Verify(s)
    /\ store' = [store EXCEPT ![s].pc = "verified"]
    /\ UNCHANGED <<schema, database, file, holder, service>>

OpenConnection(s) ==
    /\ store[s].pc = "verified"
    /\ store' = [store EXCEPT ![s].pc = "connected", ![s].connection = file]
    /\ UNCHANGED <<schema, database, file, holder, service>>

\* Mutant: the file is not looked at again once the connection is open.
OpenSchemaUnverified(s) ==
    /\ store[s].pc = "connected"
    /\ Initializes(schema)
    /\ schema' = Initialized(schema)
    /\ store' = [store EXCEPT ![s].pc = "open"]
    /\ UNCHANGED <<database, file, holder, service>>

\* The last verify, the schema transaction and the new instance.
OpenSchema(s) ==
    /\ store[s].pc = "connected"
    /\ Verify(s)
    /\ store[s].connection = 1
    /\ Initializes(schema)
    /\ schema' = Initialized(schema)
    /\ store' = [store EXCEPT ![s].pc = "open"]
    /\ UNCHANGED <<database, file, holder, service>>

\* A step of open fails, the process crashes, or the last handle to the
\* instance is dropped: the operating system drops the lock with the handle.
Close(s) ==
    /\ store[s].pc # "closed"
    /\ store' = [store EXCEPT ![s] = Closed]
    /\ holder' = IF holder = s THEN NoStore ELSE holder
    /\ service' = [service EXCEPT ![s] = [owning |-> {}, releasing |-> {}]]
    /\ UNCHANGED <<schema, database, file>>

\* Something outside replaces the database file.  What the other file holds
\* is not modelled: no instance gets past open on it.  Bound: only while none
\* is open.
ReplaceFile ==
    /\ file = 1
    /\ \A s \in Stores : store[s].pc # "open"
    /\ file' = 2
    /\ UNCHANGED <<schema, database, holder, store, service>>

-----------------------------------------------------------------------------
(***************************************************************************)
(* Ownership.  service[s].owning holds the epochs that a service acquired  *)
(* from instance s and has not tried to release; releasing those whose     *)
(* release was called and not answered with Ok: it may be called again.    *)
(***************************************************************************)
\* Epochs are read back by a second statement, and the read may fail after
\* the counter has moved.
AcquireOwner(s) ==
    /\ store[s].pc = "open"
    /\ store[s].epoch = 0
    /\ store[s].lock_file \/ LockFree
    /\ owner_epoch < EpochBound
    /\ holder' = s
    /\ owner_epoch' = owner_epoch + 1
    /\ \/ /\ store' = [store EXCEPT ![s].lock_file = TRUE, ![s].epoch = owner_epoch']
          /\ service' = [service EXCEPT ![s].owning = @ \cup {owner_epoch'}]
       \/ /\ store' = [store EXCEPT ![s].lock_file = TRUE]
          /\ UNCHANGED service
    /\ UNCHANGED <<schema, tasks, outbox, checkpoint, file>>

\* Mutant: the lock is released for whoever asks.
ReleaseOwnerUnfenced(s, e) ==
    /\ store[s].pc = "open"
    /\ e \in service[s].owning \cup service[s].releasing
    /\ store[s].epoch # 0
    /\ store[s].lock_file
    /\ holder' = NoStore
    /\ store' = [store EXCEPT ![s].lock_file = FALSE, ![s].epoch = 0, ![s].outbox_enabled = FALSE]
    /\ \E unlocked \in BOOLEAN :
           service' = [service EXCEPT ![s] =
                           [owning |-> @.owning \ {e},
                            releasing |-> IF unlocked THEN @.releasing \ {e} ELSE @.releasing \cup {e}]]
    /\ UNCHANGED <<schema, database, file>>

\* The lock handle is gone whether unlock succeeds or not; a failure is
\* reported and the caller may ask again.
ReleaseOwner(s, e) ==
    /\ store[s].pc = "open"
    /\ e \in service[s].owning \cup service[s].releasing
    /\ store[s].epoch = e
    /\ store[s].lock_file
    /\ holder' = NoStore
    /\ store' = [store EXCEPT ![s].lock_file = FALSE, ![s].epoch = 0, ![s].outbox_enabled = FALSE]
    /\ \E unlocked \in BOOLEAN :
           service' = [service EXCEPT ![s] =
                           [owning |-> @.owning \ {e},
                            releasing |-> IF unlocked THEN @.releasing \ {e} ELSE @.releasing \cup {e}]]
    /\ UNCHANGED <<schema, database, file>>

-----------------------------------------------------------------------------
(***************************************************************************)
(* run_write and run_outbox look at the owner state inside the closure.    *)
(***************************************************************************)
\* Mutant: a write runs on any open instance.
WritableAnyway(s) == store[s].pc = "open"

Writable(s) == store[s].pc = "open" /\ store[s].lock_file

OutboxWritable(s) == store[s].pc = "open" /\ store[s].epoch # 0 /\ store[s].lock_file

EnableOutbox(s) ==
    /\ OutboxWritable(s)
    /\ store' = [store EXCEPT ![s].outbox_enabled = TRUE]
    /\ UNCHANGED <<schema, database, file, holder, service>>

\* mark_outbox_published, and the delete of quarantine_outbox_head.
RemoveOutboxRow(s, row) ==
    /\ OutboxWritable(s)
    /\ row \in outbox
    /\ outbox' = outbox \ {row}
    /\ UNCHANGED <<schema, tasks, checkpoint, owner_epoch, file, holder, store, service>>

\* insert_event_outbox, in the transaction that makes the new revision.
WithEvent(s, id, version) ==
    IF store[s].outbox_enabled THEN outbox \cup {<<id, version>>} ELSE outbox

Committed(s, id, row) ==
    /\ tasks' = [tasks EXCEPT ![id] = row]
    /\ outbox' = IF row.lifecycle.state_version # tasks[id].lifecycle.state_version \/ ~Exists(id)
                 THEN WithEvent(s, id, row.lifecycle.state_version)
                 ELSE outbox
    /\ UNCHANGED <<schema, checkpoint, owner_epoch, file, holder, store, service>>

\* Mutant: the key of another task is not looked up.
AcceptEncodedKeyless(s, id, r) ==
    /\ Writable(s)
    /\ tasks[id].lifecycle.state = "Unborn"
    /\ Committed(s, id, [NoRow("Queued") EXCEPT !.lifecycle = Accepted, !.request = r])

\* accept_encoded: a new row, or the row whose key it is, which is no step.
AcceptEncoded(s, id, r) ==
    /\ Writable(s)
    /\ tasks[id].lifecycle.state = "Unborn"
    /\ KeyOf[r] # NoKey => \A other \in Ids : Exists(other) => KeyOf[tasks[other].request] # KeyOf[r]
    /\ Committed(s, id, [NoRow("Queued") EXCEPT !.lifecycle = Accepted, !.request = r])

\* get_state_checkpoint: the task if its row is there, else what pruning left.
StateCheckpoint(id) ==
    IF Exists(id)
    THEN [state |-> tasks[id].lifecycle.state, state_version |-> tasks[id].lifecycle.state_version]
    ELSE checkpoint[id]

Revisions == MapThenSumSet(LAMBDA id : StateCheckpoint(id).state_version, Ids)

\* Mutant: the revision column is forgotten.
StartedRowStale(row) ==
    [row EXCEPT !.lifecycle = Started(row.lifecycle), !.progress = NoProgress,
                !.state_kind = "Running", !.attempt = row.lifecycle.attempt + 1,
                !.retry = "none", !.progress_attempt = 0, !.progress_version = 0]

StartedRow(row) ==
    LET life == Started(row.lifecycle)
    IN  [row EXCEPT !.lifecycle = life, !.progress = NoProgress,
                    !.state_kind = life.state, !.state_version = life.state_version,
                    !.attempt = life.attempt, !.retry = "none",
                    !.progress_attempt = 0, !.progress_version = 0]

StartEncoded(s, id, expected) ==
    LET row == tasks[id]
    IN  /\ Writable(s)
        /\ Exists(id)
        /\ row.state_kind = "Queued" /\ row.state_version = expected
        /\ Revisions < VersionBound
        /\ Committed(s, id, StartedRow(row))

TransitionedRow(row, cmd) ==
    LET life == Transitioned(row.lifecycle, cmd)
    IN  [row EXCEPT !.lifecycle = life, !.state_kind = life.state,
                    !.state_version = life.state_version, !.retry = life.retry]

\* The revision is compared with its column, the rest with lifecycle_json.
TransitionEncoded(s, id, cmd) ==
    LET row == tasks[id]
    IN  /\ Writable(s)
        /\ TransitionResult([row.lifecycle EXCEPT !.state_version = row.state_version], cmd) = "Ok"
        /\ Revisions < VersionBound
        /\ Committed(s, id, TransitionedRow(row, cmd))

\* progress_version restarts with every attempt.
PreviousProgress(row, attempt) ==
    IF row.progress_attempt = attempt THEN row.progress_version ELSE 0

UpdateProgress(s, id, attempt, version) ==
    LET row == tasks[id]
    IN  /\ Writable(s)
        /\ row.state_kind = "Running" /\ row.attempt = attempt
        /\ version > PreviousProgress(row, attempt)
        /\ Committed(s, id, [row EXCEPT !.progress_attempt = attempt, !.progress_version = version,
                                        !.progress = <<attempt, version>>])

\* Mutant: rows are pruned while events for them are still in the outbox.
PrunableUnsent(id) == Exists(id) /\ tasks[id].state_kind \in TerminalStates

\* The rows prune_terminal_before selects for some cutoff and limit.
Prunable(id) ==
    /\ Exists(id)
    /\ tasks[id].state_kind \in TerminalStates
    /\ \A event \in outbox : event[1] # id

\* Mutant: the row is deleted and no checkpoint is left.
PrunedCheckpointsMissing(ids) == checkpoint

PrunedCheckpoints(ids) ==
    [id \in Ids |->
        IF id \in ids
        THEN [state |-> tasks[id].lifecycle.state, state_version |-> tasks[id].lifecycle.state_version]
        ELSE checkpoint[id]]

\* prune_terminal_rows gives up on a row whose lifecycle_json is not final.
PruneTerminalBefore(s, ids) ==
    /\ Writable(s)
    /\ ids # {} /\ \A id \in ids : Prunable(id) /\ IsTerminal(tasks[id].lifecycle.state)
    /\ checkpoint' = PrunedCheckpoints(ids)
    /\ tasks' = [id \in Ids |-> IF id \in ids THEN NoRow("Removed") ELSE tasks[id]]
    /\ UNCHANGED <<schema, outbox, owner_epoch, file, holder, store, service>>

\* Bound: a write sets the cancellation flags or a retry deadline.
Additions == {<<"none", TRUE, TRUE>>, <<"pending", FALSE, FALSE>>}

Command(id, state, addition) ==
    [state_version |-> tasks[id].state_version, attempt |-> tasks[id].lifecycle.attempt,
     state |-> state, retry |-> addition[1], cancel_requested |-> addition[2],
     cancel_error |-> addition[3], diagnostics_valid |-> TRUE]

Write(s) ==
    \/ \E id \in Ids, r \in Requests : AcceptEncoded(s, id, r)
    \/ \E id \in Ids : StartEncoded(s, id, tasks[id].state_version)
    \/ \E id \in Ids, state \in TargetStates, addition \in Additions :
           TransitionEncoded(s, id, Command(id, state, addition))
    \/ \E id \in Ids, attempt \in 1 .. VersionBound, version \in 1 .. ProgressBound :
           UpdateProgress(s, id, attempt, version)
    \/ \E ids \in SUBSET Ids : PruneTerminalBefore(s, ids)

Next ==
    \/ ReplaceFile
    \/ \E s \in Stores :
           \/ OpenIdentity(s) \/ OpenLock(s) \/ OpenVerified(s)
           \/ OpenConnection(s) \/ OpenSchema(s) \/ Close(s)
           \/ AcquireOwner(s)
           \/ \E e \in 1 .. EpochBound : ReleaseOwner(s, e)
           \/ EnableOutbox(s)
           \/ \E row \in outbox : RemoveOutboxRow(s, row)
           \/ Write(s)

Spec == Init /\ [][Next]_vars

-----------------------------------------------------------------------------
\* Queries filter and compare columns, services read lifecycle_json: whatever
\* sequence of writes made a row, the two say the same (start_encoded,
\* transition_encoded and update_progress each write a different subset).
ColumnsMirrorLifecycle ==
    \A id \in Ids :
        LET row == tasks[id]
        IN  Exists(id) =>
                /\ row.state_kind = row.lifecycle.state
                /\ row.state_version = row.lifecycle.state_version
                /\ row.attempt = row.lifecycle.attempt
                /\ row.retry = row.lifecycle.retry
                /\ <<row.progress_attempt, row.progress_version>> = row.progress
                /\ row.retry # "none" => row.state_kind = "Queued"

\* A service that acquired an epoch and has not tried to release it is the
\* owner: no late or repeated release_owner of another service, and no second
\* instance, takes the lock or the epoch away from it.
OwnershipKept ==
    \A s \in Stores : \A e \in service[s].owning :
        /\ store[s].epoch = e
        /\ holder = s
        /\ \A other \in Stores \ {s} : store[other].epoch = 0 /\ ~store[other].lock_file

\* An instance gets past open only on the file whose identity it took first,
\* although the path is resolved again for the connection.  Whatever release or
\* interrupted upgrade left that file behind, its schema is then complete and
\* of this version (initialize_next_schema), and no other instance changes it.
OpensWhatItVerified ==
    \A s \in Stores :
        store[s].pc = "open" =>
            /\ store[s].connection = store[s].file_key
            /\ schema = CurrentSchema

\* An event is deleted or archived before its task may be pruned
\* (NOT EXISTS in prune_terminal_before): the publisher never holds an event
\* of a task whose row is gone.
EventsHaveTasks == \A event \in outbox : Exists(event[1])

\* Rows change only while an open instance holds the OS lock: a closure that
\* was queued before the release, and runs after it, writes nothing.
OnlyTheLockHolderWrites ==
    [][<<tasks, outbox, checkpoint>>' # <<tasks, outbox, checkpoint>> =>
           \E s \in Stores : store[s].pc = "open" /\ holder = s]_vars

\* The revision and the final state that get_state_checkpoint answers never go
\* back and never disappear, also when the row of the task is pruned.
CheckpointNeverRegresses ==
    [][\A id \in Ids :
           StateCheckpoint(id) # NoCheckpoint =>
               /\ StateCheckpoint(id)'.state_version >= StateCheckpoint(id).state_version
               /\ IsTerminal(StateCheckpoint(id).state) =>
                      StateCheckpoint(id)'.state = StateCheckpoint(id).state]_vars

\* The epoch of the instance that owns the database.
Owner ==
    IF \E s \in Stores : store[s].epoch # 0
    THEN store[CHOOSE s \in Stores : store[s].epoch # 0].epoch
    ELSE 0

\* decode_summary: what callers see comes from lifecycle_json, never from the
\* columns that queries use.
DecodeSummary(row) == row.lifecycle

Abstract == INSTANCE TaskStore
    WITH summary <- [id \in Ids |-> DecodeSummary(tasks[id])],
         request <- [id \in Ids |-> tasks[id].request],
         progress <- [id \in Ids |-> tasks[id].progress[2]],
         owner <- Owner,
         issued <- owner_epoch

\* Through any number of instances, crashes and late closures the database
\* behaves as one atomic TaskStore.
ImplementsTaskStore == Abstract!Spec
=============================================================================
