----------------------- MODULE SqliteTaskStore_proofs -----------------------
(***************************************************************************)
(* Instances of SqliteTaskStore on one database, for any number of them,   *)
(* any ids, requests and schemas found in the file: ownership is exclusive *)
(* and kept, an instance works on the file it verified and on a complete   *)
(* schema, rows stay coherent, and all of it together implements           *)
(* TaskStore.                                                              *)
(*                                                                         *)
(* The invariant has three parts that do not depend on each other: who     *)
(* holds the OS lock, which file an instance has opened, and what a row    *)
(* says twice.                                                             *)
(***************************************************************************)
EXTENDS SqliteTaskStore, TLAPS

Instances ==
    [pc : {"closed", "identified", "locked", "verified", "connected", "open"},
     file_key : Nat, connection : Nat, lock_file : BOOLEAN, epoch : Nat, outbox_enabled : BOOLEAN]

\* The lock handle of an instance is the OS lock, an epoch is held under the
\* lock only, and a service that has not released its epoch is the one the
\* instance is owned by.
LockInv ==
    /\ store \in [Stores -> Instances]
    /\ service \in [Stores -> [owning : SUBSET Nat, releasing : SUBSET Nat]]
    /\ owner_epoch \in Nat
    /\ \A s \in Stores :
           /\ holder = s <=> store[s].lock_file
           /\ store[s].epoch # 0 => store[s].pc = "open" /\ store[s].lock_file
           /\ \A e \in service[s].owning : e # 0 /\ store[s].epoch = e

\* The file is replaced once at most, so an identity taken later is no older.
FileInv ==
    /\ file \in {1, 2}
    /\ \A s \in Stores :
           /\ store[s].file_key <= file
           /\ store[s].pc = "connected" => store[s].connection \in store[s].file_key .. file
           /\ store[s].pc = "open" =>
                  store[s].connection = store[s].file_key /\ schema = CurrentSchema

-----------------------------------------------------------------------------
(***************************************************************************)
(* The lock and the file.                                                  *)
(***************************************************************************)

\* Whatever file initialize_next_schema accepts, it leaves the current schema.
LEMMA InitializedIsCurrent ==
    ASSUME NEW sch, Initializes(sch)
    PROVE  Initialized(sch) = CurrentSchema
<1> DEFINE created == WithCreatedTables(sch, WithDeadlineColumn(sch))
<1>1. created = [t \in Tables |-> created[t]]
  BY Zenon DEF WithCreatedTables
<1>2. \A t \in Tables : created[t] = "sound"
  BY Zenon DEF Initializes, validate_next_schema, validate_outbox_schema, validate_quarantine_schema,
         validate_checkpoint_schema, Tables
<1>3. created = [t \in Tables |-> "sound"]
  <2> HIDE DEF created
  <2> QED
    BY Zenon, <1>1, <1>2
<1> QED
  BY Zenon, <1>3 DEF Initialized, CurrentSchema

\* Nothing is open, held or owned at first.
LEMMA LockInit == Init => LockInv
BY SqliteAssumption DEF Init, LockInv, Instances, Closed

Services == [Stores -> [owning : SUBSET Nat, releasing : SUBSET Nat]]

\* The other instances are left alone.
Only(s) ==
    /\ store' \in [Stores -> Instances] /\ service' \in Services
    /\ \A o \in Stores \ {s} : store'[o] = store[o] /\ service'[o] = service[o]

\* A step of one instance: what it holds afterwards it held before, or the lock
\* was free.
LEMMA InstanceLocks ==
    ASSUME LockInv, NEW s \in Stores, Only(s), owner_epoch' \in Nat,
           store'[s].lock_file => store[s].lock_file \/ LockFree,
           holder' = IF store'[s].lock_file THEN s ELSE IF holder = s THEN NoStore ELSE holder,
           store'[s].epoch # 0 => store'[s].pc = "open" /\ store'[s].lock_file,
           \A e \in service'[s].owning : e # 0 /\ store'[s].epoch = e
    PROVE  LockInv'
<1>1. ASSUME NEW o \in Stores
      PROVE  /\ holder' = o <=> store'[o].lock_file
             /\ store'[o].epoch # 0 => store'[o].pc = "open" /\ store'[o].lock_file
             /\ \A e \in service'[o].owning : e # 0 /\ store'[o].epoch = e
  <2>1. CASE o = s
    BY Zenon, <2>1, SqliteAssumption
  <2>2. CASE o # s
    <3>1. store'[o] = store[o] /\ service'[o] = service[o]
      BY Zenon, <2>2 DEF Only
    <3>2. holder = o <=> store[o].lock_file
      BY Zenon DEF LockInv
    <3>3. store[s].lock_file => holder = s
      BY Zenon DEF LockInv
    <3>4. holder' = o <=> store[o].lock_file
      BY Zenon, <2>2, <3>2, <3>3, SqliteAssumption DEF LockFree
    <3> QED
      BY <3>1, <3>4 DEF LockInv
  <2> QED
    BY Zenon, <2>1, <2>2
<1> QED
  BY Zenon, <1>1 DEF LockInv, Only, Services

\* What the lock invariant says of one instance.
LEMMA InstanceFields ==
    ASSUME LockInv, NEW s \in Stores
    PROVE  /\ store[s] \in Instances
           /\ holder = s <=> store[s].lock_file
           /\ store[s].epoch # 0 => store[s].pc = "open" /\ store[s].lock_file
           /\ \A e \in service[s].owning : e # 0 /\ store[s].epoch = e
           /\ owner_epoch \in Nat
BY Zenon DEF LockInv

\* A step that leaves lock, epoch and owners of an instance alone.
LEMMA UnlockedStep ==
    ASSUME LockInv, NEW s \in Stores, Only(s), UNCHANGED <<holder, service, owner_epoch>>,
           store'[s].epoch = store[s].epoch, store'[s].lock_file = store[s].lock_file,
           store[s].pc = "open" => store'[s].pc = "open"
    PROVE  LockInv'
BY Zenon, InstanceLocks, InstanceFields

\* The steps of open take the lock when it is free, and enabling the outbox
\* leaves it alone.
LEMMA OpenLocks ==
    ASSUME LockInv, NEW s \in Stores, file \in Nat,
           \/ OpenIdentity(s) \/ OpenLock(s) \/ OpenVerified(s) \/ OpenConnection(s) \/ OpenSchema(s)
           \/ EnableOutbox(s)
    PROVE  LockInv'
<1>1. store \in [Stores -> Instances] /\ service \in Services
  BY Zenon DEF LockInv, Services
<1>2. CASE OpenIdentity(s)
  <2>1. Only(s)
    BY ZenonT(30), <1>1, <1>2 DEF OpenIdentity, Only, Instances
  <2> QED
    BY Zenon, <1>1, <1>2, <2>1, UnlockedStep DEF OpenIdentity, database, Instances
<1>3. CASE OpenLock(s)
  <2>1. Only(s)
    BY ZenonT(30), <1>1, <1>3 DEF OpenLock, Only, Instances
  <2>2. store'[s].lock_file /\ store'[s].epoch = store[s].epoch
    BY Zenon, <1>1, <1>3 DEF OpenLock, Instances
  <2>3. store[s].epoch = 0 /\ service[s].owning = {}
    BY Zenon, <1>3, InstanceFields DEF OpenLock
  <2> QED
    BY Zenon, <1>3, <2>1, <2>2, <2>3, InstanceLocks, InstanceFields DEF OpenLock, database
<1>4. CASE OpenVerified(s)
  <2>1. Only(s)
    BY <1>1, <1>4 DEF OpenVerified, Only, Instances
  <2> QED
    BY Zenon, <1>1, <1>4, <2>1, UnlockedStep DEF OpenVerified, database, Instances
<1>5. CASE OpenConnection(s)
  <2>1. Only(s)
    BY ZenonT(30), <1>1, <1>5 DEF OpenConnection, Only, Instances
  <2> QED
    BY Zenon, <1>1, <1>5, <2>1, UnlockedStep DEF OpenConnection, database, Instances
<1>6. CASE OpenSchema(s)
  <2>1. Only(s)
    BY <1>1, <1>6 DEF OpenSchema, Only, Instances
  <2> QED
    BY Zenon, <1>1, <1>6, <2>1, UnlockedStep DEF OpenSchema, database, Instances
<1>7. CASE EnableOutbox(s)
  <2>1. Only(s)
    BY ZenonT(30), <1>1, <1>7 DEF EnableOutbox, Only, Instances
  <2> QED
    BY Zenon, <1>1, <1>7, <2>1, UnlockedStep DEF EnableOutbox, database, Instances
<1> QED
  BY Zenon, <1>2, <1>3, <1>4, <1>5, <1>6, <1>7

\* Closing an instance gives back what it held, and nothing else.
LEMMA CloseLocks ==
    ASSUME LockInv, NEW s \in Stores, Close(s)
    PROVE  LockInv'
<1>1. Closed \in Instances /\ ~Closed.lock_file /\ Closed.epoch = 0
  BY Zenon DEF Closed, Instances
<1>2. Only(s) /\ store'[s] = Closed /\ service'[s].owning = {}
  BY Zenon, <1>1 DEF LockInv, Close, Only, Services
<1>3. holder' = (IF holder = s THEN NoStore ELSE holder) /\ owner_epoch' = owner_epoch
  BY Zenon DEF Close, database
<1> QED
  BY Zenon, <1>1, <1>2, <1>3, InstanceLocks, InstanceFields

\* An owner is acquired by an instance that has the lock or can take it.
LEMMA AcquireLocks ==
    ASSUME LockInv, NEW s \in Stores, AcquireOwner(s)
    PROVE  LockInv'
<1>1. owner_epoch' = owner_epoch + 1 /\ holder' = s /\ owner_epoch' \in Nat \ {0}
  BY InstanceFields DEF AcquireOwner
<1>2. service[s].owning = {} /\ (store[s].lock_file \/ LockFree) /\ store[s].pc = "open"
  BY Zenon, InstanceFields DEF AcquireOwner
<1>3. store \in [Stores -> Instances] /\ service \in Services
  BY Zenon DEF LockInv, Services
<1>4. CASE /\ store' = [store EXCEPT ![s].lock_file = TRUE, ![s].epoch = owner_epoch']
           /\ service' = [service EXCEPT ![s].owning = @ \cup {owner_epoch'}]
  <2>1. store' \in [Stores -> Instances] /\ \A o \in Stores \ {s} : store'[o] = store[o]
    <3>1. PICK i : i = [store[s] EXCEPT !.lock_file = TRUE, !.epoch = owner_epoch']
      BY Zenon
    <3>2. i \in Instances
      BY Zenon, <1>1, <1>3, <3>1 DEF Instances
    <3>3. store' = [store EXCEPT ![s] = i]
      BY ZenonT(30), <1>3, <1>4, <3>1
    <3> QED
      BY Zenon, <1>3, <3>2, <3>3
  <2>2. service' \in Services /\ \A o \in Stores \ {s} : service'[o] = service[o]
    BY Zenon, <1>1, <1>3, <1>4 DEF Services
  <2>3. store'[s].lock_file /\ store'[s].epoch = owner_epoch' /\ store'[s].pc = "open"
    BY Zenon, <1>2, <1>3, <1>4 DEF Instances
  <2>4. service'[s].owning = {owner_epoch'}
    BY Zenon, <1>2, <1>3, <1>4 DEF Services
  <2> QED
    BY Zenon, <1>1, <1>2, <2>1, <2>2, <2>3, <2>4, InstanceLocks DEF Only
<1>5. CASE store' = [store EXCEPT ![s].lock_file = TRUE] /\ UNCHANGED service
  <2>1. Only(s)
    BY ZenonT(30), <1>3, <1>5 DEF Only, Instances
  <2>2. store'[s].lock_file /\ store'[s].pc = "open"
    BY Zenon, <1>2, <1>3, <1>5 DEF Instances
  <2> QED
    BY Zenon, <1>1, <1>2, <1>5, <2>1, <2>2, InstanceLocks
<1> QED
  BY Zenon, <1>4, <1>5 DEF AcquireOwner

\* A release needs the epoch of the owner it ends.
LEMMA ReleaseLocks ==
    ASSUME LockInv, NEW s \in Stores, NEW e \in Nat \ {0}, ReleaseOwner(s, e)
    PROVE  LockInv'
<1>1. store \in [Stores -> Instances] /\ service \in Services
  BY Zenon DEF LockInv, Services
<1>2. PICK v : /\ service' = [service EXCEPT ![s] = v]
               /\ v \in [owning : SUBSET Nat, releasing : SUBSET Nat]
               /\ v.owning = service[s].owning \ {e}
  <2>1. PICK unlocked \in BOOLEAN :
            service' = [service EXCEPT ![s] =
                            [owning |-> service[s].owning \ {e},
                             releasing |-> IF unlocked THEN service[s].releasing \ {e}
                                           ELSE service[s].releasing \cup {e}]]
    BY Zenon, <1>1 DEF ReleaseOwner, Services
  <2>2. service[s] \in [owning : SUBSET Nat, releasing : SUBSET Nat]
    BY Zenon, <1>1 DEF Services
  <2> DEFINE left == IF unlocked THEN service[s].releasing \ {e} ELSE service[s].releasing \cup {e}
             v == [owning |-> service[s].owning \ {e}, releasing |-> left]
  <2>3. left \in SUBSET Nat
    BY Zenon, <2>2
  <2> HIDE DEF left
  <2>4. v \in [owning : SUBSET Nat, releasing : SUBSET Nat] /\ v.owning = service[s].owning \ {e}
    BY Zenon, <2>2, <2>3
  <2>5. service' = [service EXCEPT ![s] = v]
    BY Zenon, <2>1 DEF left
  <2> HIDE DEF v
  <2> QED
    BY Zenon, <2>4, <2>5
<1>3. Only(s)
  BY <1>1, <1>2 DEF ReleaseOwner, Only, Instances, Services
<1>4. ~store'[s].lock_file /\ store'[s].epoch = 0
  BY <1>1 DEF ReleaseOwner, Instances
<1>5. service'[s].owning = {}
  BY Zenon, <1>1, <1>2, InstanceFields DEF ReleaseOwner, Services
<1>6. holder' = NoStore /\ holder = s /\ owner_epoch' = owner_epoch
  BY Zenon, InstanceFields DEF ReleaseOwner, database
<1> QED
  BY Zenon, <1>3, <1>4, <1>5, <1>6, InstanceLocks, InstanceFields

\* The steps on rows need the lock and leave it as it is.
LEMMA WriteKeeps ==
    ASSUME NEW s \in Stores, Write(s) \/ \E row \in outbox : RemoveOutboxRow(s, row)
    PROVE  /\ UNCHANGED <<schema, owner_epoch, file, holder, store, service>>
           /\ store[s].pc = "open" /\ store[s].lock_file
<1>1. CASE \E id \in Ids, r \in Requests : AcceptEncoded(s, id, r)
  BY Zenon, <1>1 DEF AcceptEncoded, Committed, Writable
<1>2. CASE \E id \in Ids : StartEncoded(s, id, tasks[id].state_version)
  BY Zenon, <1>2 DEF StartEncoded, Committed, Writable
<1>3. CASE \E id \in Ids, state \in TargetStates, addition \in Additions :
               TransitionEncoded(s, id, Command(id, state, addition))
  BY Zenon, <1>3 DEF TransitionEncoded, Committed, Writable
<1>4. CASE \E id \in Ids, attempt \in 1 .. VersionBound, version \in 1 .. ProgressBound :
               UpdateProgress(s, id, attempt, version)
  BY <1>4 DEF UpdateProgress, Committed, Writable
<1>5. CASE \E ids \in SUBSET Ids : PruneTerminalBefore(s, ids)
  BY Zenon, <1>5 DEF PruneTerminalBefore, Writable
<1>6. CASE \E row \in outbox : RemoveOutboxRow(s, row)
  BY Zenon, <1>6 DEF RemoveOutboxRow, OutboxWritable
<1> QED
  BY Zenon, <1>1, <1>2, <1>3, <1>4, <1>5, <1>6 DEF Write

\* The steps of an instance on itself.
Handles(s) ==
    \/ OpenIdentity(s) \/ OpenLock(s) \/ OpenVerified(s) \/ OpenConnection(s) \/ OpenSchema(s)
    \/ Close(s) \/ AcquireOwner(s) \/ (\E e \in 1 .. EpochBound : ReleaseOwner(s, e))
    \/ EnableOutbox(s)

\* A step is one on the path, on an instance or on rows.
LEMMA Steps ==
    ASSUME Next
    PROVE  \/ ReplaceFile
           \/ \E s \in Stores : Handles(s)
           \/ \E s \in Stores : Write(s) \/ \E row \in outbox : RemoveOutboxRow(s, row)
BY Zenon DEF Next, Handles

\* Every step keeps the lock with the instance that took it.
LEMMA LockStep ==
    ASSUME LockInv, file \in Nat, [Next]_vars
    PROVE  LockInv'
<1>1. CASE ReplaceFile
  BY Zenon, <1>1 DEF ReplaceFile, LockInv, database
<1>2. ASSUME NEW s \in Stores, Handles(s)
      PROVE  LockInv'
  <2>1. \A e \in 1 .. EpochBound : e \in Nat \ {0}
    BY SqliteAssumption
  <2> QED
    BY Zenon, <1>2, <2>1, OpenLocks, CloseLocks, AcquireLocks, ReleaseLocks DEF Handles
<1>3. CASE \E s \in Stores : Write(s) \/ \E row \in outbox : RemoveOutboxRow(s, row)
  BY Zenon, <1>3, WriteKeeps DEF LockInv
<1>4. CASE UNCHANGED vars
  BY Zenon, <1>4 DEF vars, LockInv
<1> QED
  BY Zenon, <1>1, <1>2, <1>3, <1>4, Steps

\* The file at first, and the identities taken of it.
LEMMA FileInit == Init => FileInv
BY DEF Init, FileInv, Closed

\* A step of open looks at the file again before the schema is touched.
LEMMA FileStep ==
    ASSUME LockInv, FileInv, [Next]_vars
    PROVE  FileInv'
<1>1. store \in [Stores -> Instances]
  BY Zenon DEF LockInv
<1>2. CASE ReplaceFile
  BY <1>1, <1>2 DEF ReplaceFile, FileInv, Instances
<1>3. ASSUME NEW s \in Stores, Handles(s)
      PROVE  FileInv'
  <2>1. CASE OpenIdentity(s)
    BY <1>1, <2>1 DEF OpenIdentity, FileInv, Instances
  <2>2. CASE OpenLock(s)
    BY <1>1, <2>2 DEF OpenLock, FileInv, Instances
  <2>3. CASE OpenVerified(s)
    BY Zenon, <1>1, <2>3 DEF OpenVerified, FileInv, Instances
  <2>4. CASE OpenConnection(s)
    BY <1>1, <2>4 DEF OpenConnection, FileInv, Instances
  <2>5. CASE OpenSchema(s)
    BY <1>1, <2>5, InitializedIsCurrent DEF OpenSchema, Verify, FileInv, Instances
  <2>6. CASE Close(s)
    BY <1>1, <2>6 DEF Close, Closed, FileInv, Instances
  <2>7. CASE AcquireOwner(s)
    BY <1>1, <2>7 DEF AcquireOwner, FileInv, Instances
  <2>8. CASE \E e \in 1 .. EpochBound : ReleaseOwner(s, e)
    BY <1>1, <2>8 DEF ReleaseOwner, FileInv, Instances
  <2>9. CASE EnableOutbox(s)
    BY <1>1, <2>9 DEF EnableOutbox, FileInv, Instances
  <2> QED
    BY Zenon, <1>3, <2>1, <2>2, <2>3, <2>4, <2>5, <2>6, <2>7, <2>8, <2>9 DEF Handles
<1>4. CASE \E s \in Stores : Write(s) \/ \E row \in outbox : RemoveOutboxRow(s, row)
  BY Zenon, <1>4, WriteKeeps DEF FileInv
<1>5. CASE UNCHANGED vars
  BY Zenon, <1>5 DEF vars, FileInv
<1> QED
  BY Zenon, <1>2, <1>3, <1>4, <1>5, Steps

-----------------------------------------------------------------------------
(***************************************************************************)
(* Rows.                                                                   *)
(***************************************************************************)
Lifecycles ==
    [state : TaskStates \cup AbsentStates, state_version : Nat, attempt : Nat,
     cancel_requested : BOOLEAN, cancel_error : BOOLEAN, retry : RetryStates]

Rows ==
    [state_kind : TaskStates \cup AbsentStates, state_version : Nat, attempt : Nat,
     retry : RetryStates, progress_attempt : Nat, progress_version : Nat,
     lifecycle : Lifecycles, progress : Nat \X Nat, request : Requests \cup {NoRequest}]

Commands ==
    [state_version : Nat, attempt : Nat, state : TaskStates, retry : RetryStates,
     cancel_requested : BOOLEAN, cancel_error : BOOLEAN, diagnostics_valid : BOOLEAN]

\* The columns repeat lifecycle_json, and progress is that of the attempt.
RowOK(row) ==
    /\ row \in Rows
    /\ row.state_kind = row.lifecycle.state
    /\ row.state_version = row.lifecycle.state_version
    /\ row.attempt = row.lifecycle.attempt
    /\ row.retry = row.lifecycle.retry
    /\ <<row.progress_attempt, row.progress_version>> = row.progress
    /\ row.retry # "none" => row.state_kind = "Queued"
    /\ row.progress_attempt # row.attempt => row.progress_version = 0

\* Every row is coherent, an event has its row, and a task that was never
\* accepted has left no checkpoint.
RowInv ==
    /\ tasks = [id \in Ids |-> tasks[id]]
    /\ checkpoint = [id \in Ids |-> checkpoint[id]]
    /\ \A id \in Ids :
           /\ RowOK(tasks[id])
           /\ tasks[id].lifecycle.state = "Unborn" => checkpoint[id] = NoCheckpoint
           /\ checkpoint[id].state_version \in Nat
    /\ \A event \in outbox : event[1] \in Ids /\ Exists(event[1])

\* The row of a task that is not there.
LEMMA AbsentRow ==
    ASSUME NEW state \in AbsentStates
    PROVE  /\ RowOK(NoRow(state))
           /\ NoRow(state).lifecycle = [Accepted EXCEPT !.state = state]
           /\ NoRow(state).lifecycle.state = state
           /\ NoRow(state).progress = <<0, 0>> /\ NoRow(state).request = NoRequest
<1>1. [Unborn EXCEPT !.state = state] = [Accepted EXCEPT !.state = state]
  BY Zenon DEF Unborn, Accepted
<1>2. [Accepted EXCEPT !.state = state] \in Lifecycles
  BY Zenon DEF Accepted, Lifecycles, AbsentStates, RetryStates
<1>3. NoRow(state) \in Rows
  BY Zenon, <1>1, <1>2 DEF NoRow, Rows, RetryStates, NoProgress
<1> QED
  BY Zenon, <1>1, <1>3 DEF NoRow, RowOK, Accepted, NoProgress

\* The row that accept_encoded inserts.
LEMMA AcceptedRow ==
    ASSUME NEW r \in Requests
    PROVE  LET row == [NoRow("Queued") EXCEPT !.lifecycle = Accepted, !.request = r]
           IN  /\ RowOK(row)
               /\ row.lifecycle = Accepted
               /\ row.progress = <<0, 0>> /\ row.request = r
<1>1. Accepted \in Lifecycles
  BY Zenon DEF Accepted, Lifecycles, TaskStates, RetryStates
<1> DEFINE old == NoRow("Queued")
           row == [old EXCEPT !.lifecycle = Accepted, !.request = r]
<1>2. [Unborn EXCEPT !.state = "Queued"] \in Lifecycles
  BY Zenon DEF Unborn, Accepted, Lifecycles, TaskStates, RetryStates
<1>3. /\ old \in Rows
      /\ old.state_kind = "Queued" /\ old.state_version = 0 /\ old.attempt = 0 /\ old.retry = "none"
      /\ old.progress_attempt = 0 /\ old.progress_version = 0 /\ old.progress = <<0, 0>>
  BY Zenon, <1>1, <1>2 DEF NoRow, NoProgress, Rows, TaskStates, RetryStates
<1> HIDE DEF old
<1>4. row \in Rows
  BY Zenon, <1>1, <1>3 DEF Rows
<1>5. /\ row.state_kind = "Queued" /\ row.state_version = 0 /\ row.attempt = 0 /\ row.retry = "none"
      /\ row.progress_attempt = 0 /\ row.progress_version = 0 /\ row.progress = <<0, 0>>
      /\ row.lifecycle = Accepted /\ row.request = r
  BY Zenon, <1>3 DEF Rows
<1>6. row = [NoRow("Queued") EXCEPT !.lifecycle = Accepted, !.request = r]
  BY Zenon DEF old
<1> HIDE DEF row
<1>7. RowOK(row)
  BY <1>4, <1>5 DEF RowOK, Accepted
<1> QED
  BY Zenon, <1>5, <1>6, <1>7

\* start_encoded writes every column that the new attempt changes.
LEMMA StartedRowOK ==
    ASSUME NEW row, RowOK(row)
    PROVE  /\ RowOK(StartedRow(row))
           /\ StartedRow(row).lifecycle = Started(row.lifecycle)
           /\ StartedRow(row).progress = <<0, 0>>
           /\ StartedRow(row).request = row.request
<1>1. row \in Rows /\ row.lifecycle \in Lifecycles
  BY Zenon DEF RowOK, Rows
<1>2. Started(row.lifecycle) \in Lifecycles
  BY <1>1 DEF Started, Lifecycles, TaskStates, RetryStates
<1> DEFINE life == Started(row.lifecycle)
           new == StartedRow(row)
<1>3. life.state = "Running" /\ life.retry = "none" /\ life \in Lifecycles
  BY Zenon, <1>2 DEF Started
<1>4. new = [row EXCEPT !.lifecycle = life, !.progress = NoProgress,
                        !.state_kind = life.state, !.state_version = life.state_version,
                        !.attempt = life.attempt, !.retry = "none",
                        !.progress_attempt = 0, !.progress_version = 0]
  BY Zenon DEF StartedRow
<1> HIDE DEF life, new
<1>5. new \in Rows
  BY Zenon, <1>1, <1>3, <1>4 DEF Rows, Lifecycles, RetryStates, NoProgress
<1>6. /\ new.state_kind = life.state /\ new.state_version = life.state_version
      /\ new.attempt = life.attempt /\ new.retry = "none"
      /\ new.progress_attempt = 0 /\ new.progress_version = 0 /\ new.progress = <<0, 0>>
      /\ new.lifecycle = life /\ new.request = row.request
  BY Zenon, <1>1, <1>4 DEF Rows, NoProgress
<1>7. RowOK(new)
  BY Zenon, <1>3, <1>5, <1>6 DEF RowOK
<1> QED
  BY Zenon, <1>6, <1>7 DEF life, new

\* transition_encoded compares the revision column and writes the columns of the
\* new lifecycle; with coherent rows that is the transition of lifecycle_json.
LEMMA TransitionedRowOK ==
    ASSUME NEW row, RowOK(row), NEW cmd \in Commands,
           TransitionResult([row.lifecycle EXCEPT !.state_version = row.state_version], cmd) = "Ok"
    PROVE  /\ TransitionResult(row.lifecycle, cmd) = "Ok"
           /\ RowOK(TransitionedRow(row, cmd))
           /\ TransitionedRow(row, cmd).lifecycle = Transitioned(row.lifecycle, cmd)
           /\ TransitionedRow(row, cmd).progress = row.progress
           /\ TransitionedRow(row, cmd).request = row.request
<1>1. row \in Rows /\ row.lifecycle \in Lifecycles
  BY Zenon DEF RowOK, Rows
<1>2. [row.lifecycle EXCEPT !.state_version = row.state_version] = row.lifecycle
  BY Zenon, <1>1 DEF RowOK, Lifecycles
<1>3. TransitionResult(row.lifecycle, cmd) = "Ok"
  BY Zenon, <1>2
<1>4. cmd.retry # "none" => cmd.state = "Queued"
  BY Zenon, <1>3 DEF TransitionResult
<1>5. Transitioned(row.lifecycle, cmd) \in Lifecycles
  BY <1>1 DEF Transitioned, Lifecycles, Commands
<1> DEFINE life == Transitioned(row.lifecycle, cmd)
           new == TransitionedRow(row, cmd)
<1>6. life.state = cmd.state /\ life.retry = cmd.retry /\ life.attempt = row.attempt /\ life \in Lifecycles
  BY Zenon, <1>5 DEF Transitioned, RowOK
<1>7. new = [row EXCEPT !.lifecycle = life, !.state_kind = life.state,
                        !.state_version = life.state_version, !.retry = life.retry]
  BY Zenon DEF TransitionedRow
<1> HIDE DEF life, new
<1>8. new \in Rows
  BY Zenon, <1>1, <1>6, <1>7 DEF Rows, Lifecycles
<1>9. /\ new.state_kind = life.state /\ new.state_version = life.state_version
      /\ new.attempt = life.attempt /\ new.retry = life.retry
      /\ new.progress_attempt = row.progress_attempt /\ new.progress_version = row.progress_version
      /\ new.progress = row.progress /\ new.lifecycle = life /\ new.request = row.request
      /\ new.attempt = row.attempt
  BY Zenon, <1>1, <1>6, <1>7 DEF Rows
<1>10. RowOK(new)
  BY Zenon, <1>4, <1>6, <1>8, <1>9 DEF RowOK
<1> QED
  BY Zenon, <1>3, <1>9, <1>10 DEF life, new

\* update_progress writes its columns and the progress of lifecycle_json.
LEMMA ProgressRowOK ==
    ASSUME NEW row, RowOK(row), NEW version \in Nat
    PROVE  LET new == [row EXCEPT !.progress_attempt = row.attempt, !.progress_version = version,
                                  !.progress = <<row.attempt, version>>]
           IN  /\ RowOK(new)
               /\ new.lifecycle = row.lifecycle /\ new.request = row.request
               /\ new.progress = <<row.attempt, version>>
<1> DEFINE new == [row EXCEPT !.progress_attempt = row.attempt, !.progress_version = version,
                              !.progress = <<row.attempt, version>>]
<1>1. row \in Rows
  BY Zenon DEF RowOK
<1>2. new \in Rows
  BY Zenon, <1>1 DEF Rows
<1> QED
  BY Zenon, <1>1, <1>2 DEF RowOK, Rows


(***************************************************************************)
(* A write, said of the rows alone.                                        *)
(***************************************************************************)
\* One row is written, with an event at most.
RowWritten(id, row) ==
    /\ tasks' = [tasks EXCEPT ![id] = row]
    /\ checkpoint' = checkpoint
    /\ outbox' \subseteq outbox \cup ({id} \X Nat)
    /\ RowOK(row)
    /\ Retained(row.lifecycle)

RowAccepted(id, r, row) ==
    /\ RowWritten(id, row)
    /\ tasks[id].lifecycle.state = "Unborn"
    /\ KeyOf[r] # NoKey => \A other \in Ids : Exists(other) => KeyOf[tasks[other].request] # KeyOf[r]
    /\ row.lifecycle = Accepted /\ row.request = r /\ row.progress = <<0, 0>>

RowStarted(id, row) ==
    /\ RowWritten(id, row)
    /\ tasks[id].lifecycle.state = "Queued"
    /\ row.lifecycle = Started(tasks[id].lifecycle)
    /\ row.request = tasks[id].request /\ row.progress = <<0, 0>>

RowTransitioned(id, cmd, row) ==
    /\ RowWritten(id, row)
    /\ TransitionResult(tasks[id].lifecycle, cmd) = "Ok"
    /\ row.lifecycle = Transitioned(tasks[id].lifecycle, cmd)
    /\ row.request = tasks[id].request /\ row.progress = tasks[id].progress

RowProgressed(id, row) ==
    /\ RowWritten(id, row)
    /\ tasks[id].lifecycle.state = "Running"
    /\ row.lifecycle = tasks[id].lifecycle /\ row.request = tasks[id].request
    /\ row.progress[2] > tasks[id].progress[2]

RowsPruned(ids) ==
    /\ \A id \in ids : IsTerminal(tasks[id].lifecycle.state) /\ \A event \in outbox : event[1] # id
    /\ checkpoint' = PrunedCheckpoints(ids)
    /\ tasks' = [id \in Ids |-> IF id \in ids THEN NoRow("Removed") ELSE tasks[id]]
    /\ outbox' = outbox

\* Queries and rows agree on the condition of each write, so a write is one of
\* the five operations on what lifecycle_json says.
LEMMA WriteIsRowStep ==
    ASSUME RowInv, NEW s \in Stores, Write(s)
    PROVE  \/ \E id \in Ids, r \in Requests : \E row : RowAccepted(id, r, row)
           \/ \E id \in Ids : \E row : RowStarted(id, row)
           \/ \E id \in Ids, cmd \in Commands : \E row : RowTransitioned(id, cmd, row)
           \/ \E id \in Ids : \E row : RowProgressed(id, row)
           \/ \E ids \in SUBSET Ids : RowsPruned(ids)
<1>1. \A id \in Ids : RowOK(tasks[id])
  BY Zenon DEF RowInv
<1>2. ASSUME NEW id \in Ids, NEW row, RowOK(row), Retained(row.lifecycle), Committed(s, id, row)
      PROVE  RowWritten(id, row)
  <2>1. row.lifecycle.state_version \in Nat
    BY Zenon, <1>2 DEF RowOK, Rows
  <2>2. outbox' \subseteq outbox \cup ({id} \X Nat)
    BY <1>2, <2>1 DEF Committed, WithEvent
  <2> QED
    BY Zenon, <1>2, <2>2 DEF Committed, RowWritten
<1>3. ASSUME NEW id \in Ids, NEW r \in Requests, AcceptEncoded(s, id, r)
      PROVE  \E row : RowAccepted(id, r, row)
  <2> DEFINE row == [NoRow("Queued") EXCEPT !.lifecycle = Accepted, !.request = r]
  <2>1. RowOK(row) /\ row.lifecycle = Accepted /\ row.progress = <<0, 0>> /\ row.request = r
    BY Zenon, AcceptedRow
  <2>2. Retained(Accepted)
    BY Zenon DEF Retained, Accepted, TaskStates
  <2>3. /\ tasks[id].lifecycle.state = "Unborn" /\ Committed(s, id, row)
        /\ KeyOf[r] # NoKey => \A other \in Ids : Exists(other) => KeyOf[tasks[other].request] # KeyOf[r]
    BY Zenon, <1>3 DEF AcceptEncoded
  <2> HIDE DEF row
  <2>4. RowWritten(id, row)
    BY Zenon, <1>2, <2>1, <2>2, <2>3
  <2> QED
    BY Zenon, <2>1, <2>3, <2>4 DEF RowAccepted
<1>4. ASSUME NEW id \in Ids, StartEncoded(s, id, tasks[id].state_version)
      PROVE  \E row : RowStarted(id, row)
  <2>1. Exists(id) /\ tasks[id].state_kind = "Queued" /\ Committed(s, id, StartedRow(tasks[id]))
    BY Zenon, <1>4 DEF StartEncoded
  <2>2. /\ RowOK(StartedRow(tasks[id]))
        /\ StartedRow(tasks[id]).lifecycle = Started(tasks[id].lifecycle)
        /\ StartedRow(tasks[id]).progress = <<0, 0>>
        /\ StartedRow(tasks[id]).request = tasks[id].request
    BY Zenon, <1>1, StartedRowOK
  <2>3. Retained(Started(tasks[id].lifecycle))
    BY Zenon DEF Retained, Started, TaskStates
  <2>4. tasks[id].lifecycle.state = "Queued"
    BY Zenon, <1>1, <2>1 DEF RowOK
  <2>5. RowWritten(id, StartedRow(tasks[id]))
    BY Zenon, <1>2, <2>1, <2>2, <2>3
  <2> QED
    BY Zenon, <2>2, <2>4, <2>5 DEF RowStarted
<1>5. ASSUME NEW id \in Ids, NEW state \in TargetStates, NEW addition \in Additions,
             TransitionEncoded(s, id, Command(id, state, addition))
      PROVE  \E cmd \in Commands : \E row : RowTransitioned(id, cmd, row)
  <2> DEFINE cmd == Command(id, state, addition)
             row == TransitionedRow(tasks[id], cmd)
  <2>1. /\ addition[1] \in RetryStates /\ addition[2] \in BOOLEAN /\ addition[3] \in BOOLEAN
        /\ state \in TaskStates
    <3>1. addition = <<"none", TRUE, TRUE>> \/ addition = <<"pending", FALSE, FALSE>>
      BY Zenon DEF Additions
    <3>2. CASE addition = <<"none", TRUE, TRUE>>
      BY Zenon, <3>2, SqliteAssumption DEF RetryStates
    <3>3. CASE addition = <<"pending", FALSE, FALSE>>
      BY Zenon, <3>3, SqliteAssumption DEF RetryStates
    <3> QED
      BY Zenon, <3>1, <3>2, <3>3
  <2>2. tasks[id].state_version \in Nat /\ tasks[id].lifecycle.attempt \in Nat
    BY Zenon, <1>1 DEF RowOK, Rows, Lifecycles
  <2>3. cmd \in Commands /\ cmd.state = state
    BY Zenon, <2>1, <2>2 DEF Command, Commands
  <2>4. /\ TransitionResult([tasks[id].lifecycle EXCEPT !.state_version = tasks[id].state_version], cmd) = "Ok"
        /\ Committed(s, id, row)
    BY Zenon, <1>5 DEF TransitionEncoded
  <2> HIDE DEF cmd
  <2>5. /\ TransitionResult(tasks[id].lifecycle, cmd) = "Ok"
        /\ RowOK(row)
        /\ row.lifecycle = Transitioned(tasks[id].lifecycle, cmd)
        /\ row.progress = tasks[id].progress /\ row.request = tasks[id].request
    BY Zenon, <1>1, <2>3, <2>4, TransitionedRowOK
  <2>6. Retained(Transitioned(tasks[id].lifecycle, cmd))
    BY Zenon, <2>1, <2>3 DEF Retained, Transitioned
  <2> HIDE DEF row
  <2>7. RowWritten(id, row)
    BY Zenon, <1>2, <2>4, <2>5, <2>6
  <2> QED
    BY Zenon, <2>3, <2>5, <2>7 DEF RowTransitioned
<1>6. ASSUME NEW id \in Ids, NEW attempt \in 1 .. VersionBound, NEW version \in 1 .. ProgressBound,
             UpdateProgress(s, id, attempt, version)
      PROVE  \E row : RowProgressed(id, row)
  <2> DEFINE old == tasks[id]
             row == [old EXCEPT !.progress_attempt = old.attempt, !.progress_version = version,
                                !.progress = <<old.attempt, version>>]
  <2>1. version \in Nat /\ old.attempt = attempt /\ old.state_kind = "Running"
    BY <1>6, SqliteAssumption DEF UpdateProgress
  <2>2. Committed(s, id, row) /\ version > PreviousProgress(old, attempt)
    BY Zenon, <1>6 DEF UpdateProgress
  <2>3. RowOK(old) /\ old.lifecycle.state = "Running"
    BY Zenon, <1>1, <2>1 DEF RowOK
  <2>4. /\ RowOK(row) /\ row.lifecycle = old.lifecycle /\ row.request = old.request
        /\ row.progress = <<old.attempt, version>>
    BY Zenon, <2>1, <2>3, ProgressRowOK
  <2>5. old.progress[2] = old.progress_version
    BY <2>3 DEF RowOK
  <2>6. PreviousProgress(old, attempt) = old.progress_version
    BY Zenon, <2>1, <2>3 DEF RowOK, PreviousProgress
  <2>7. Retained(old.lifecycle)
    BY Zenon, <2>3 DEF Retained, TaskStates
  <2> HIDE DEF row
  <2>8. RowWritten(id, row)
    BY Zenon, <1>2, <2>2, <2>4, <2>7
  <2>9. row.progress[2] > old.progress[2]
    BY <2>2, <2>4, <2>5, <2>6
  <2> QED
    BY Zenon, <2>3, <2>4, <2>8, <2>9 DEF RowProgressed
<1>7. ASSUME NEW ids \in SUBSET Ids, PruneTerminalBefore(s, ids)
      PROVE  RowsPruned(ids)
  BY Zenon, <1>7 DEF PruneTerminalBefore, RowsPruned, Prunable
<1> QED
  BY Zenon, <1>3, <1>4, <1>5, <1>6, <1>7 DEF Write

\* The database at first is empty.
LEMMA RowInit == Init => RowInv
<1> SUFFICES ASSUME Init PROVE RowInv
  BY Zenon
<1>1. RowOK(NoRow("Unborn"))
  BY Zenon, AbsentRow DEF AbsentStates
<1>2. tasks = [id \in Ids |-> NoRow("Unborn")] /\ checkpoint = [id \in Ids |-> NoCheckpoint] /\ outbox = {}
  BY Zenon DEF Init
<1>3. NoCheckpoint.state_version \in Nat
  BY Zenon DEF NoCheckpoint
<1> QED
  BY Zenon, <1>1, <1>2, <1>3 DEF RowInv

\* One row written: the others are left alone and the new event has its row.
LEMMA WrittenKeeps ==
    ASSUME RowInv, NEW id \in Ids, NEW row, RowWritten(id, row)
    PROVE  RowInv'
<1>1. /\ tasks'[id] = row /\ \A o \in Ids \ {id} : tasks'[o] = tasks[o]
      /\ tasks' = [o \in Ids |-> tasks'[o]]
  BY Zenon DEF RowInv, RowWritten
<1>2. row.lifecycle.state # "Unborn" /\ Retained(row.lifecycle) /\ RowOK(row) /\ checkpoint' = checkpoint
  BY Zenon DEF RowWritten, Retained, TaskStates, TerminalStates
<1>3. \A o \in Ids : /\ RowOK(tasks'[o])
                     /\ tasks'[o].lifecycle.state = "Unborn" => checkpoint'[o] = NoCheckpoint
                     /\ checkpoint'[o].state_version \in Nat
  BY Zenon, <1>1, <1>2 DEF RowInv
<1>4. ASSUME NEW event \in outbox'
      PROVE  event[1] \in Ids /\ Exists(event[1])'
  <2>1. CASE event \in outbox
    BY Zenon, <1>1, <1>2, <2>1 DEF RowInv, Exists
  <2>2. CASE event \in {id} \X Nat
    BY Zenon, <1>1, <1>2, <2>2 DEF Exists
  <2> QED
    BY Zenon, <2>1, <2>2 DEF RowWritten
<1> QED
  BY Zenon, <1>1, <1>2, <1>3, <1>4 DEF RowInv

\* Rows pruned leave a checkpoint and no event.
LEMMA PrunedKeeps ==
    ASSUME RowInv, NEW ids \in SUBSET Ids, RowsPruned(ids)
    PROVE  RowInv'
<1>1. /\ \A o \in ids : tasks'[o] = NoRow("Removed") /\ checkpoint'[o].state_version = tasks[o].lifecycle.state_version
      /\ \A o \in Ids \ ids : tasks'[o] = tasks[o] /\ checkpoint'[o] = checkpoint[o]
      /\ tasks' = [o \in Ids |-> tasks'[o]] /\ checkpoint' = [o \in Ids |-> checkpoint'[o]]
  BY Zenon DEF RowsPruned, PrunedCheckpoints
<1>2. RowOK(NoRow("Removed")) /\ NoRow("Removed").lifecycle.state = "Removed"
  BY Zenon, AbsentRow DEF AbsentStates
<1>3. \A o \in Ids : tasks[o].lifecycle.state_version \in Nat
  BY Zenon DEF RowInv, RowOK, Rows
<1>4. \A o \in Ids : /\ RowOK(tasks'[o])
                     /\ tasks'[o].lifecycle.state = "Unborn" => checkpoint'[o] = NoCheckpoint
                     /\ checkpoint'[o].state_version \in Nat
  BY Zenon, <1>1, <1>2, <1>3 DEF RowInv
<1>5. \A event \in outbox' : event[1] \in Ids /\ event[1] \notin ids /\ Exists(event[1])
  BY Zenon DEF RowInv, RowsPruned
<1>6. \A event \in outbox' : Exists(event[1])'
  BY Zenon, <1>1, <1>5 DEF Exists
<1> QED
  BY Zenon, <1>1, <1>4, <1>5, <1>6 DEF RowInv

\* Every step keeps the rows coherent.
LEMMA RowStep ==
    ASSUME RowInv, [Next]_vars
    PROVE  RowInv'
<1>1. CASE ReplaceFile
  BY Zenon, <1>1 DEF ReplaceFile, RowInv, Exists, database
<1>2. ASSUME NEW s \in Stores, Handles(s)
      PROVE  RowInv'
  <2>1. UNCHANGED <<tasks, outbox, checkpoint>>
    BY Zenon, <1>2 DEF Handles, OpenIdentity, OpenLock, OpenVerified, OpenConnection, OpenSchema, Close,
                AcquireOwner, ReleaseOwner, EnableOutbox, database
  <2> QED
    BY Zenon, <2>1 DEF RowInv, Exists
<1>3. ASSUME NEW s \in Stores, Write(s)
      PROVE  RowInv'
  BY Zenon, <1>3, WriteIsRowStep, WrittenKeeps, PrunedKeeps
     DEF RowAccepted, RowStarted, RowTransitioned, RowProgressed
<1>4. ASSUME NEW s \in Stores, NEW row \in outbox, RemoveOutboxRow(s, row)
      PROVE  RowInv'
  BY Zenon, <1>4 DEF RemoveOutboxRow, RowInv, Exists
<1>5. CASE UNCHANGED vars
  BY Zenon, <1>5 DEF vars, RowInv, Exists
<1> QED
  BY Zenon, <1>1, <1>2, <1>3, <1>4, <1>5, Steps


-----------------------------------------------------------------------------
(***************************************************************************)
(* Theorems.                                                               *)
(***************************************************************************)
SqliteInv == LockInv /\ FileInv /\ RowInv

\* Lock, file and rows are coherent in every state, through any interleaving
\* of opens, crashes, replaced files, late closures and releases.
THEOREM SqliteInvariant == Spec => []SqliteInv
<1>1. Init => SqliteInv
  BY Zenon, LockInit, FileInit, RowInit DEF SqliteInv
<1>2. SqliteInv /\ [Next]_vars => SqliteInv'
  <2>1. FileInv => file \in Nat
    BY DEF FileInv
  <2> QED
    BY Zenon, <2>1, LockStep, FileStep, RowStep DEF SqliteInv
<1> QED
  BY <1>1, <1>2, PTL DEF Spec

\* A service that acquired an epoch and has not tried to release it is the
\* owner, and no other instance has the lock or an epoch.
THEOREM OwnershipIsKept == Spec => []OwnershipKept
<1>1. ASSUME LockInv PROVE OwnershipKept
  <2> SUFFICES ASSUME NEW s \in Stores, NEW e \in service[s].owning
               PROVE  /\ store[s].epoch = e
                      /\ holder = s
                      /\ \A other \in Stores \ {s} : store[other].epoch = 0 /\ ~store[other].lock_file
    BY Zenon DEF OwnershipKept
  <2>1. store[s].epoch = e /\ holder = s
    BY Zenon, <1>1, InstanceFields
  <2>2. ASSUME NEW other \in Stores \ {s}
        PROVE  store[other].epoch = 0 /\ ~store[other].lock_file
    BY Zenon, <1>1, <2>1, InstanceFields
  <2> QED
    BY Zenon, <2>1, <2>2
<1>2. SqliteInv => OwnershipKept
  BY Zenon, <1>1 DEF SqliteInv
<1> QED
  BY <1>2, SqliteInvariant, PTL

\* An open instance has the file it identified first, with a complete schema.
THEOREM OpenIsVerified == Spec => []OpensWhatItVerified
<1>1. SqliteInv => OpensWhatItVerified
  BY Zenon DEF SqliteInv, FileInv, OpensWhatItVerified
<1> QED
  BY <1>1, SqliteInvariant, PTL

\* The columns that queries use repeat lifecycle_json, whatever wrote the row.
THEOREM ColumnsAreMirrored == Spec => []ColumnsMirrorLifecycle
<1>1. SqliteInv => ColumnsMirrorLifecycle
  BY Zenon DEF SqliteInv, RowInv, RowOK, ColumnsMirrorLifecycle
<1> QED
  BY <1>1, SqliteInvariant, PTL

\* No event is left behind when the row of its task is pruned.
THEOREM EventsKeepTasks == Spec => []EventsHaveTasks
<1>1. SqliteInv => EventsHaveTasks
  BY Zenon DEF SqliteInv, RowInv, EventsHaveTasks
<1> QED
  BY <1>1, SqliteInvariant, PTL

\* A closure that runs after its instance lost the lock writes nothing.
THEOREM WritesNeedTheLock == Spec => OnlyTheLockHolderWrites
<1> DEFINE A == <<tasks, outbox, checkpoint>>' # <<tasks, outbox, checkpoint>> =>
                    \E s \in Stores : store[s].pc = "open" /\ holder = s
<1>1. ASSUME SqliteInv, [Next]_vars PROVE A
  <2>1. CASE ReplaceFile
    BY Zenon, <2>1 DEF ReplaceFile, database
  <2>2. ASSUME NEW s \in Stores, Handles(s) PROVE A
    BY Zenon, <2>2 DEF Handles, OpenIdentity, OpenLock, OpenVerified, OpenConnection, OpenSchema, Close,
                AcquireOwner, ReleaseOwner, EnableOutbox, database
  <2>3. ASSUME NEW s \in Stores, Write(s) \/ \E row \in outbox : RemoveOutboxRow(s, row) PROVE A
    <3>1. store[s].pc = "open" /\ store[s].lock_file
      BY Zenon, <2>3, WriteKeeps
    <3>2. holder = s
      BY Zenon, <1>1, <3>1 DEF SqliteInv, LockInv
    <3> QED
      BY Zenon, <3>1, <3>2
  <2>4. CASE UNCHANGED vars
    BY Zenon, <2>4 DEF vars
  <2> QED
    BY Zenon, <1>1, <2>1, <2>2, <2>3, <2>4, Steps
<1>2. SqliteInv /\ [Next]_vars => [A]_vars
  BY Zenon, <1>1
<1> QED
  BY <1>2, SqliteInvariant, PTL DEF Spec, OnlyTheLockHolderWrites

Unregressed(id) ==
    StateCheckpoint(id) # NoCheckpoint =>
        /\ StateCheckpoint(id)'.state_version >= StateCheckpoint(id).state_version
        /\ IsTerminal(StateCheckpoint(id).state) =>
               StateCheckpoint(id)'.state = StateCheckpoint(id).state

\* What a caller that waits for a task has seen of it stays true: revisions
\* grow, and a final state survives the pruning of its row.
THEOREM CheckpointsGrow == Spec => CheckpointNeverRegresses
<1>1. ASSUME RowInv, NEW id \in Ids, tasks'[id] = tasks[id], checkpoint'[id] = checkpoint[id]
      PROVE  Unregressed(id)
  <2>1. tasks[id].lifecycle.state_version \in Nat /\ checkpoint[id].state_version \in Nat
    BY Zenon, <1>1 DEF RowInv, RowOK, Rows
  <2>2. StateCheckpoint(id)' = StateCheckpoint(id) /\ StateCheckpoint(id).state_version \in Nat
    BY Zenon, <1>1, <2>1 DEF StateCheckpoint, Exists
  <2> QED
    BY <2>2 DEF Unregressed
<1>2. ASSUME RowInv, NEW id \in Ids, NEW row, RowWritten(id, row), NEW other \in Ids,
             \/ tasks[id].lifecycle.state = "Unborn"
             \/ /\ Exists(id)
                /\ row.lifecycle.state_version >= tasks[id].lifecycle.state_version
                /\ IsTerminal(tasks[id].lifecycle.state) => row.lifecycle.state = tasks[id].lifecycle.state
      PROVE  Unregressed(other)
  <2>1. CASE other # id
    <3>1. tasks'[other] = tasks[other] /\ checkpoint'[other] = checkpoint[other]
      BY Zenon, <1>2, <2>1 DEF RowWritten, RowInv
    <3> QED
      BY Zenon, <1>1, <1>2, <3>1
  <2>2. CASE other = id /\ tasks[id].lifecycle.state = "Unborn"
    <3>1. ~Exists(id) /\ checkpoint[id] = NoCheckpoint
      BY Zenon, <1>2, <2>2 DEF RowInv, Exists, Retained, TaskStates, TerminalStates
    <3> QED
      BY Zenon, <2>2, <3>1 DEF Unregressed, StateCheckpoint
  <2>3. CASE other = id /\ Exists(id) /\ tasks[id].lifecycle.state # "Unborn"
    <3>1. tasks'[id] = row /\ Exists(id)'
      BY Zenon, <1>2 DEF RowWritten, RowInv, Exists
    <3> QED
      BY Zenon, <1>2, <2>3, <3>1 DEF Unregressed, StateCheckpoint
  <2> QED
    BY Zenon, <1>2, <2>1, <2>2, <2>3
<1>3. ASSUME RowInv, NEW s \in Stores, Write(s), NEW other \in Ids
      PROVE  Unregressed(other)
  <2>0. \A id \in Ids : tasks[id].lifecycle.state_version \in Nat
    BY Zenon, <1>3 DEF RowInv, RowOK, Rows
  <2>1. ASSUME NEW id \in Ids, NEW r \in Requests, NEW row, RowAccepted(id, r, row)
        PROVE  Unregressed(other)
    BY Zenon, <1>2, <1>3, <2>1 DEF RowAccepted
  <2>2. ASSUME NEW id \in Ids, NEW row, RowStarted(id, row)
        PROVE  Unregressed(other)
    <3>1. /\ Exists(id) /\ ~IsTerminal(tasks[id].lifecycle.state)
          /\ row.lifecycle.state_version >= tasks[id].lifecycle.state_version
      BY <2>0, <2>2 DEF RowStarted, Started, Exists, Retained, TaskStates, IsTerminal, TerminalStates
    <3> QED
      BY Zenon, <1>2, <1>3, <2>2, <3>1 DEF RowStarted
  <2>3. ASSUME NEW id \in Ids, NEW cmd \in Commands, NEW row, RowTransitioned(id, cmd, row)
        PROVE  Unregressed(other)
    <3>1. /\ Exists(id) /\ row.lifecycle.state = cmd.state
          /\ row.lifecycle.state_version >= tasks[id].lifecycle.state_version
      BY <2>0, <2>3 DEF RowTransitioned, TransitionResult, Transitioned, Exists
    <3>2. IsTerminal(tasks[id].lifecycle.state) => cmd.state = tasks[id].lifecycle.state
      BY Zenon, <2>3 DEF RowTransitioned, TransitionResult, AllowsTransitionTo, TerminalCancelAnnotation,
                  IsTerminal, TerminalStates
    <3> QED
      BY Zenon, <1>2, <1>3, <2>3, <3>1, <3>2 DEF RowTransitioned
  <2>4. ASSUME NEW id \in Ids, NEW row, RowProgressed(id, row)
        PROVE  Unregressed(other)
    <3>1. Exists(id)
      BY Zenon, <2>4 DEF RowProgressed, Exists, Retained, TaskStates
    <3> QED
      BY <1>2, <1>3, <2>0, <2>4, <3>1 DEF RowProgressed
  <2>5. ASSUME NEW ids \in SUBSET Ids, RowsPruned(ids)
        PROVE  Unregressed(other)
    <3>1. CASE other \notin ids
      <4>1. tasks'[other] = tasks[other] /\ checkpoint'[other] = checkpoint[other]
        BY Zenon, <2>5, <3>1 DEF RowsPruned, PrunedCheckpoints
      <4> QED
        BY Zenon, <1>1, <1>3, <4>1
    <3>2. CASE other \in ids
      <4>1. Exists(other)
        BY Zenon, <2>5, <3>2 DEF RowsPruned, Exists, Retained, IsTerminal, TaskStates
      <4>2. tasks'[other] = NoRow("Removed")
        BY Zenon, <2>5, <3>2 DEF RowsPruned
      <4>3. ~Exists(other)'
        BY Zenon, <4>2, AbsentRow DEF Exists, Retained, TaskStates, TerminalStates, AbsentStates
      <4>4. checkpoint'[other] = [state |-> tasks[other].lifecycle.state,
                                  state_version |-> tasks[other].lifecycle.state_version]
        BY Zenon, <2>5, <3>2 DEF RowsPruned, PrunedCheckpoints
      <4> QED
        BY <2>0, <4>1, <4>3, <4>4 DEF Unregressed, StateCheckpoint
    <3> QED
      BY Zenon, <3>1, <3>2
  <2> QED
    BY Zenon, <1>3, <2>1, <2>2, <2>3, <2>4, <2>5, WriteIsRowStep
<1>4. ASSUME RowInv, [Next]_vars, NEW id \in Ids PROVE Unregressed(id)
  <2>1. CASE ReplaceFile
    BY Zenon, <1>1, <1>4, <2>1 DEF ReplaceFile, database
  <2>2. ASSUME NEW s \in Stores, Handles(s) PROVE Unregressed(id)
    <3>1. UNCHANGED <<tasks, checkpoint>>
      BY Zenon, <2>2 DEF Handles, OpenIdentity, OpenLock, OpenVerified, OpenConnection, OpenSchema, Close,
                  AcquireOwner, ReleaseOwner, EnableOutbox, database
    <3> QED
      BY Zenon, <1>1, <1>4, <3>1
  <2>3. ASSUME NEW s \in Stores, NEW row \in outbox, RemoveOutboxRow(s, row) PROVE Unregressed(id)
    BY Zenon, <1>1, <1>4, <2>3 DEF RemoveOutboxRow
  <2>4. CASE UNCHANGED vars
    BY Zenon, <1>1, <1>4, <2>4 DEF vars
  <2> QED
    BY Zenon, <1>3, <1>4, <2>1, <2>2, <2>3, <2>4, Steps
<1>5. SqliteInv /\ [Next]_vars => [\A id \in Ids : Unregressed(id)]_vars
  BY Zenon, <1>4 DEF SqliteInv
<1> QED
  BY <1>5, SqliteInvariant, PTL DEF Spec, CheckpointNeverRegresses, Unregressed


-----------------------------------------------------------------------------
(***************************************************************************)
(* The database implements TaskStore.                                      *)
(***************************************************************************)
Summary == [id \in Ids |-> DecodeSummary(tasks[id])]
Requested == [id \in Ids |-> tasks[id].request]
Progressed == [id \in Ids |-> tasks[id].progress[2]]

\* The epoch of the owner is that of the only instance that can have one.
OwnerIsHolder ==
    /\ \A s \in Stores : store[s].epoch # 0 =>
           Owner = store[s].epoch /\ \A o \in Stores \ {s} : store[o].epoch = 0
    /\ (\A s \in Stores : store[s].epoch = 0) => Owner = 0

LEMMA OwnerIs == LockInv => OwnerIsHolder
<1> SUFFICES ASSUME LockInv PROVE OwnerIsHolder
  BY Zenon
<1>1. ASSUME NEW s \in Stores, NEW o \in Stores, store[s].epoch # 0, store[o].epoch # 0
      PROVE  s = o
  BY Zenon, <1>1, InstanceFields
<1>2. ASSUME NEW s \in Stores, store[s].epoch # 0
      PROVE  Owner = store[s].epoch
  <2> DEFINE o == CHOOSE t \in Stores : store[t].epoch # 0
  <2>1. o \in Stores /\ store[o].epoch # 0
    BY Zenon, <1>2
  <2>2. o = s
    BY Zenon, <1>1, <1>2, <2>1
  <2> QED
    BY Zenon, <1>2, <2>2 DEF Owner
<1> QED
  BY Zenon, <1>1, <1>2 DEF Owner, OwnerIsHolder

\* The owner changes with the epochs of the instances only.
LEMMA OwnerKept ==
    ASSUME LockInv, LockInv', \A s \in Stores : store'[s].epoch = store[s].epoch
    PROVE  Owner' = Owner
<1>1. OwnerIsHolder /\ OwnerIsHolder'
  BY OwnerIs, PTL
<1>2. CASE \E s \in Stores : store[s].epoch # 0
  BY <1>1, <1>2 DEF OwnerIsHolder
<1>3. CASE \A s \in Stores : store[s].epoch = 0
  BY Zenon, <1>1, <1>3 DEF OwnerIsHolder
<1> QED
  BY Zenon, <1>2, <1>3

\* A write of TaskStore, with the rows it forgets.
LEMMA Applies ==
    ASSUME NEW s, NEW r, NEW p, NEW gone \in SUBSET Ids,
           \A id \in gone : /\ IsTerminal(s[id].state)
                            /\ Summary'[id] = Absent /\ Requested'[id] = NoRequest /\ Progressed'[id] = 0,
           \A id \in Ids \ gone :
               Summary'[id] = s[id] /\ Requested'[id] = r[id] /\ Progressed'[id] = p[id],
           Owner' = Owner, owner_epoch' = owner_epoch
    PROVE  Abstract!Apply(s, r, p)
<1> DEFINE found == {id \in Ids : IsTerminal(s[id].state) /\ Summary'[id] = Absent}
<1>1. ~IsTerminal(Absent.state)
  BY Zenon DEF Absent, Accepted, IsTerminal, TerminalStates
<1>2. found = gone
  BY Zenon, <1>1
<1>3. found = {id \in Ids : Abstract!IsTerminal(s[id].state) /\ Summary'[id] = Abstract!Absent}
  BY Zenon DEF Abstract!IsTerminal, Abstract!Absent, IsTerminal, Absent, Abstract!TerminalStates, TerminalStates,
         Abstract!Accepted, Accepted
<1>4. Abstract!Absent = Absent
  BY Zenon DEF Abstract!Absent, Absent, Abstract!Accepted, Accepted
<1> HIDE DEF found
<1>5. /\ Summary' = [id \in Ids |-> IF id \in found THEN Absent ELSE s[id]]
      /\ Requested' = [id \in Ids |-> IF id \in found THEN NoRequest ELSE r[id]]
      /\ Progressed' = [id \in Ids |-> IF id \in found THEN 0 ELSE p[id]]
  BY Zenon, <1>2 DEF Summary, Requested, Progressed
<1> QED
  BY Zenon, <1>3, <1>4, <1>5 DEF Abstract!Apply, Summary, Requested, Progressed


\* A write that forgets nothing.
LEMMA AppliesAll ==
    ASSUME NEW s, NEW r, NEW p, Summary' = s, Requested' = r, Progressed' = p,
           Owner' = Owner, owner_epoch' = owner_epoch
    PROVE  Abstract!Apply(s, r, p)
<1> DEFINE gone == {}
<1>1. gone \in SUBSET Ids /\ \A id \in Ids : id \notin gone
  BY Zenon
<1>2. \A id \in gone : /\ IsTerminal(s[id].state)
                       /\ Summary'[id] = Absent /\ Requested'[id] = NoRequest /\ Progressed'[id] = 0
  BY Zenon
<1>3. \A id \in Ids \ gone :
          Summary'[id] = s[id] /\ Requested'[id] = r[id] /\ Progressed'[id] = p[id]
  BY Zenon
<1>4. PICK none : none = gone
  BY Zenon
<1> HIDE DEF gone
<1> QED
  BY <1>1, <1>2, <1>3, <1>4, Applies, Zenon

\* What TaskStore shares with the rows.
LEMMA SharedRecords ==
    /\ Abstract!Accepted = Accepted /\ Abstract!Absent = Absent /\ Abstract!Unborn = Unborn
    /\ \A rec : Abstract!Started(rec) = Started(rec) /\ (Abstract!Retained(rec) <=> Retained(rec))
    /\ \A rec, cmd : /\ Abstract!Transitioned(rec, cmd) = Transitioned(rec, cmd)
                     /\ Abstract!TransitionResult(rec, cmd) = TransitionResult(rec, cmd)
<1>1. Abstract!Accepted = Accepted
  BY Zenon DEF Abstract!Accepted, Accepted
<1>2. Abstract!Absent = Absent /\ Abstract!Unborn = Unborn
  BY Zenon, <1>1 DEF Abstract!Absent, Absent, Abstract!Unborn, Unborn
<1>3. Abstract!TerminalStates = TerminalStates /\ Abstract!TaskStates = TaskStates
  BY Zenon DEF Abstract!TerminalStates, TerminalStates, Abstract!TaskStates, TaskStates
<1>4. \A rec : Abstract!Started(rec) = Started(rec) /\ (Abstract!Retained(rec) <=> Retained(rec))
  BY Zenon, <1>3 DEF Abstract!Started, Started, Abstract!Retained, Retained
<1>5. \A rec, cmd : Abstract!Transitioned(rec, cmd) = Transitioned(rec, cmd)
  BY Zenon DEF Abstract!Transitioned, Transitioned
<1>6. ASSUME NEW rec, NEW cmd
      PROVE  Abstract!TransitionResult(rec, cmd) = TransitionResult(rec, cmd)
  <2>1. Abstract!AllowsTransitionTo(rec.state, cmd.state) <=> AllowsTransitionTo(rec.state, cmd.state)
    BY Zenon, <1>3 DEF Abstract!AllowsTransitionTo, AllowsTransitionTo
  <2>2. Abstract!TerminalCancelAnnotation(rec, cmd) <=> TerminalCancelAnnotation(rec, cmd)
    BY Zenon, <1>3 DEF Abstract!TerminalCancelAnnotation, TerminalCancelAnnotation, Abstract!IsTerminal, IsTerminal
  <2> QED
    BY Zenon, <1>4, <2>1, <2>2 DEF Abstract!TransitionResult, TransitionResult
<1> QED
  BY Zenon, <1>1, <1>2, <1>4, <1>5, <1>6

\* A write of one row, seen through decode_summary.
LEMMA WrittenSummary ==
    ASSUME RowInv, NEW id \in Ids, NEW row, RowWritten(id, row)
    PROVE  /\ Summary' = [Summary EXCEPT ![id] = row.lifecycle]
           /\ Requested' = [Requested EXCEPT ![id] = row.request]
           /\ Progressed' = [Progressed EXCEPT ![id] = row.progress[2]]
           /\ Summary'[id] = row.lifecycle /\ Requested'[id] = row.request
           /\ Progressed'[id] = row.progress[2]
<1>1. tasks'[id] = row /\ \A o \in Ids \ {id} : tasks'[o] = tasks[o]
  BY Zenon DEF RowWritten, RowInv
<1> QED
  BY Zenon, <1>1 DEF Summary, Requested, Progressed, DecodeSummary

\* What the abstract variables say of a task.
LEMMA AbstractValues ==
    /\ Summary = [id \in Ids |-> tasks[id].lifecycle]
    /\ Requested = [id \in Ids |-> tasks[id].request]
    /\ Progressed = [id \in Ids |-> tasks[id].progress[2]]
BY Zenon DEF Summary, Requested, Progressed, DecodeSummary

\* accept_encoded is Accept: the key it looked up is no other retained task's.
LEMMA AcceptImplements ==
    ASSUME RowInv, NEW id \in Ids, NEW r \in Requests, NEW row, RowAccepted(id, r, row),
           Owner' = Owner, owner_epoch' = owner_epoch
    PROVE  Abstract!Next
<1>1. /\ Summary' = [Summary EXCEPT ![id] = Accepted] /\ Summary'[id] = Accepted
      /\ Requested' = [Requested EXCEPT ![id] = r] /\ Requested'[id] = r
      /\ Progressed' = [Progressed EXCEPT ![id] = 0]
  BY WrittenSummary DEF RowAccepted
<1>2. Abstract!Apply([Summary EXCEPT ![id] = Accepted], [Requested EXCEPT ![id] = r],
                     [Progressed EXCEPT ![id] = 0])
  <2>1. PICK s : s = [Summary EXCEPT ![id] = Accepted]
    BY Zenon
  <2>2. PICK q : q = [Requested EXCEPT ![id] = r]
    BY Zenon
  <2>3. PICK p : p = [Progressed EXCEPT ![id] = 0]
    BY Zenon
  <2>4. Abstract!Apply(s, q, p)
    BY Zenon, <1>1, <2>1, <2>2, <2>3, AppliesAll
  <2> QED
    BY Zenon, <2>1, <2>2, <2>3, <2>4 DEF Abstract!Apply
<1>3. ~Retained(Summary[id]) /\ Summary[id].state = "Unborn"
  BY Zenon, AbstractValues DEF RowAccepted, Retained, TaskStates, TerminalStates
<1>4. Summary'[id] # Summary[id]
  BY <1>1, <1>3 DEF Accepted
<1>5. ASSUME NEW other \in Ids \ {id}, Retained(Summary'[other]), KeyOf[r] # NoKey
      PROVE  KeyOf[Requested'[other]] # KeyOf[r]
  <2>1. Summary'[other] = tasks[other].lifecycle /\ Requested'[other] = tasks[other].request
    BY Zenon, <1>1, AbstractValues
  <2> QED
    BY Zenon, <1>5, <2>1 DEF RowAccepted, Exists
<1>6. Abstract!Accept(id)
  BY Zenon, <1>1, <1>2, <1>3, <1>5, SharedRecords DEF Abstract!Accept, Summary, Requested, Progressed
<1> QED
  BY Zenon, <1>4, <1>6 DEF Abstract!Next, Summary


\* start_encoded is Start.
LEMMA StartImplements ==
    ASSUME RowInv, NEW id \in Ids, NEW row, RowStarted(id, row),
           Owner' = Owner, owner_epoch' = owner_epoch
    PROVE  Abstract!Next
<1>1. Summary[id] = tasks[id].lifecycle /\ Summary[id].state = "Queued"
  BY Zenon, AbstractValues DEF RowStarted
<1>2. /\ Summary' = [Summary EXCEPT ![id] = Started(Summary[id])] /\ Summary'[id] = Started(Summary[id])
      /\ Requested' = [Requested EXCEPT ![id] = tasks[id].request]
      /\ Progressed' = [Progressed EXCEPT ![id] = 0]
  BY <1>1, WrittenSummary DEF RowStarted
<1>3. Requested' = Requested
  BY Zenon, <1>2, AbstractValues
<1>4. Abstract!Apply([Summary EXCEPT ![id] = Started(Summary[id])], Requested, [Progressed EXCEPT ![id] = 0])
  <2>1. PICK s : s = [Summary EXCEPT ![id] = Started(Summary[id])]
    BY Zenon
  <2>2. PICK q : q = Requested
    BY Zenon
  <2>3. PICK p : p = [Progressed EXCEPT ![id] = 0]
    BY Zenon
  <2>4. Abstract!Apply(s, q, p)
    BY Zenon, <1>2, <1>3, <2>1, <2>2, <2>3, AppliesAll
  <2> QED
    BY Zenon, <2>1, <2>2, <2>3, <2>4 DEF Abstract!Apply
<1>5. Summary'[id] # Summary[id]
  BY <1>1, <1>2 DEF Started
<1>6. Abstract!Start(id)
  <2>1. Abstract!Started(Summary[id]) = Started(Summary[id])
    BY Zenon, SharedRecords
  <2> QED
    BY Zenon, <1>1, <1>4, <2>1 DEF Abstract!Start, Summary, Requested, Progressed
<1> QED
  BY Zenon, <1>5, <1>6 DEF Abstract!Next, Summary

\* transition_encoded is Transition.
LEMMA TransitionImplements ==
    ASSUME RowInv, NEW id \in Ids, NEW cmd \in Commands, NEW row, RowTransitioned(id, cmd, row),
           Owner' = Owner, owner_epoch' = owner_epoch
    PROVE  Abstract!Next
<1>1. Summary[id] = tasks[id].lifecycle /\ TransitionResult(Summary[id], cmd) = "Ok"
  BY Zenon, AbstractValues DEF RowTransitioned
<1>2. Summary[id].state_version \in Nat
  BY <1>1 DEF RowInv, RowOK, Rows
<1>3. PICK new : new = Transitioned(Summary[id], cmd)
  BY Zenon
<1>4. /\ new.state = cmd.state /\ new.cancel_requested = cmd.cancel_requested
      /\ new.cancel_error = cmd.cancel_error /\ new.retry = cmd.retry
      /\ new.state_version = Summary[id].state_version + 1
  BY Zenon, <1>3 DEF Transitioned
<1>5. /\ Summary' = [Summary EXCEPT ![id] = new] /\ Summary'[id] = new
      /\ Requested' = [Requested EXCEPT ![id] = tasks[id].request]
      /\ Progressed' = [Progressed EXCEPT ![id] = tasks[id].progress[2]]
  BY <1>1, <1>3, WrittenSummary DEF RowTransitioned
<1>6. Requested' = Requested /\ Progressed' = Progressed
  BY Zenon, <1>5, AbstractValues
<1> DEFINE again == [state_version |-> Summary[id].state_version, attempt |-> Summary[id].attempt,
                     state |-> new.state, cancel_requested |-> new.cancel_requested,
                     cancel_error |-> new.cancel_error, retry |-> new.retry, diagnostics_valid |-> TRUE]
<1>7. TransitionResult(Summary[id], again) = "Ok" /\ Transitioned(Summary[id], again) = new
  <2>1. TransitionResult(Summary[id], again) = "Ok"
    BY Zenon, <1>1, <1>4 DEF TransitionResult, TerminalCancelAnnotation
  <2>2. Transitioned(Summary[id], again) = new
    BY Zenon, <1>3, <1>4 DEF Transitioned
  <2> QED
    BY Zenon, <2>1, <2>2
<1>8. Abstract!Apply([Summary EXCEPT ![id] = new], Requested, Progressed)
  <2>1. PICK s : s = [Summary EXCEPT ![id] = new]
    BY Zenon
  <2>2. PICK q : q = Requested
    BY Zenon
  <2>3. PICK p : p = Progressed
    BY Zenon
  <2>4. Abstract!Apply(s, q, p)
    BY Zenon, <1>5, <1>6, <2>1, <2>2, <2>3, AppliesAll
  <2> QED
    BY Zenon, <2>1, <2>2, <2>3, <2>4 DEF Abstract!Apply
<1>9. Summary'[id] # Summary[id]
  BY <1>2, <1>4, <1>5
<1>10. Retained(new)
  BY Zenon, <1>5, WrittenSummary DEF RowTransitioned, RowWritten
<1>11. /\ Abstract!TransitionResult(Summary[id], again) = "Ok"
       /\ Abstract!Transitioned(Summary[id], again) = new
       /\ Abstract!Retained(new)
  BY Zenon, <1>7, <1>10, SharedRecords
<1>12. Abstract!Transition(id, new.state, new.cancel_requested, new.cancel_error, new.retry)
  BY Zenon, <1>8, <1>11 DEF Abstract!Transition, Summary, Requested, Progressed
<1> QED
  BY Zenon, <1>5, <1>9, <1>11, <1>12 DEF Abstract!Next, Summary

\* update_progress is Progress.
LEMMA ProgressImplements ==
    ASSUME RowInv, NEW id \in Ids, NEW row, RowProgressed(id, row),
           Owner' = Owner, owner_epoch' = owner_epoch
    PROVE  Abstract!Next
<1>1. Summary[id].state = "Running" /\ Progressed[id] = tasks[id].progress[2]
  BY Zenon, AbstractValues DEF RowProgressed
<1>2. /\ Summary' = [Summary EXCEPT ![id] = tasks[id].lifecycle]
      /\ Requested' = [Requested EXCEPT ![id] = tasks[id].request]
      /\ Progressed' = [Progressed EXCEPT ![id] = row.progress[2]]
      /\ Progressed'[id] = row.progress[2]
  BY WrittenSummary DEF RowProgressed
<1>3. Summary' = Summary /\ Requested' = Requested /\ Progressed' = [Progressed EXCEPT ![id] = Progressed'[id]]
  BY Zenon, <1>2, AbstractValues
<1>4. Progressed'[id] > Progressed[id]
  BY Zenon, <1>1, <1>2 DEF RowProgressed
<1>5. Abstract!Apply(Summary, Requested, [Progressed EXCEPT ![id] = Progressed'[id]])
  <2>1. PICK s : s = Summary
    BY Zenon
  <2>2. PICK q : q = Requested
    BY Zenon
  <2>3. PICK p : p = [Progressed EXCEPT ![id] = Progressed'[id]]
    BY Zenon
  <2>4. Abstract!Apply(s, q, p)
    BY Zenon, <1>3, <2>1, <2>2, <2>3, AppliesAll
  <2> QED
    BY Zenon, <2>1, <2>2, <2>3, <2>4 DEF Abstract!Apply
<1>6. Abstract!Progress(id)
  BY Zenon, <1>1, <1>4, <1>5 DEF Abstract!Progress, Summary, Requested, Progressed
<1> QED
  BY Zenon, <1>6 DEF Abstract!Next

\* prune_terminal_before is Forget.
LEMMA PruneImplements ==
    ASSUME RowInv, NEW ids \in SUBSET Ids, RowsPruned(ids), Owner' = Owner, owner_epoch' = owner_epoch
    PROVE  Abstract!Next
<1>1. /\ NoRow("Removed").lifecycle = Absent /\ NoRow("Removed").request = NoRequest
      /\ NoRow("Removed").progress[2] = 0
  BY AbsentRow DEF AbsentStates, Absent
<1>2. \A id \in ids : tasks'[id] = NoRow("Removed") /\ IsTerminal(tasks[id].lifecycle.state)
  BY Zenon DEF RowsPruned
<1>3. \A id \in Ids \ ids : tasks'[id] = tasks[id]
  BY Zenon DEF RowsPruned
<1>4. \A id \in ids : /\ IsTerminal(Summary[id].state)
                      /\ Summary'[id] = Absent /\ Requested'[id] = NoRequest /\ Progressed'[id] = 0
  BY Zenon, <1>1, <1>2 DEF Summary, Requested, Progressed, DecodeSummary
<1>5. \A id \in Ids \ ids :
          Summary'[id] = Summary[id] /\ Requested'[id] = Requested[id] /\ Progressed'[id] = Progressed[id]
  BY Zenon, <1>3 DEF Summary, Requested, Progressed, DecodeSummary
<1>6. Abstract!Apply(Summary, Requested, Progressed)
  <2>1. PICK s : s = Summary
    BY Zenon
  <2>2. PICK q : q = Requested
    BY Zenon
  <2>3. PICK p : p = Progressed
    BY Zenon
  <2>4. Abstract!Apply(s, q, p)
    BY Zenon, <1>4, <1>5, <2>1, <2>2, <2>3, Applies
  <2> QED
    BY Zenon, <2>1, <2>2, <2>3, <2>4 DEF Abstract!Apply
<1>7. Abstract!Forget
  BY Zenon, <1>6 DEF Abstract!Forget, Summary, Requested, Progressed
<1> QED
  BY Zenon, <1>7 DEF Abstract!Next


\* The abstract variables that rows give.
LEMMA SameRows ==
    ASSUME UNCHANGED tasks
    PROVE  Summary' = Summary /\ Requested' = Requested /\ Progressed' = Progressed
BY Zenon DEF Summary, Requested, Progressed, DecodeSummary

\* A step of an instance on itself changes the owner as TaskStore allows: close
\* and release_owner end an ownership, acquire_owner begins one with a new epoch
\* or uses one up.
LEMMA HandlesImplement ==
    ASSUME LockInv, LockInv', NEW s \in Stores, Handles(s)
    PROVE  Abstract!Next \/ UNCHANGED Abstract!svars
<1>1. UNCHANGED tasks
  BY Zenon DEF Handles, OpenIdentity, OpenLock, OpenVerified, OpenConnection, OpenSchema, Close,
         AcquireOwner, ReleaseOwner, EnableOutbox, database
<1>2. Summary' = Summary /\ Requested' = Requested /\ Progressed' = Progressed
  BY Zenon, <1>1, SameRows
<1>3. OwnerIsHolder /\ OwnerIsHolder'
  BY OwnerIs, PTL
<1>4. store \in [Stores -> Instances]
  BY Zenon DEF LockInv
<1>5. ASSUME \A o \in Stores : store'[o].epoch = store[o].epoch, owner_epoch' = owner_epoch
      PROVE  UNCHANGED Abstract!svars
  BY Zenon, <1>2, <1>5, OwnerKept DEF Abstract!svars, Summary, Requested, Progressed
<1>6. ASSUME store[s].epoch # 0, store'[s].epoch = 0, owner_epoch' = owner_epoch,
             \A o \in Stores \ {s} : store'[o] = store[o]
      PROVE  Abstract!Next
  <2>1. Owner # 0 /\ \A o \in Stores : store'[o].epoch = 0
    BY <1>3, <1>6 DEF OwnerIsHolder
  <2>2. Owner' = 0
    BY Zenon, <1>3, <2>1 DEF OwnerIsHolder
  <2>3. Abstract!ReleaseOwner
    BY Zenon, <1>2, <1>6, <2>1, <2>2 DEF Abstract!ReleaseOwner, Summary, Requested, Progressed
  <2> QED
    BY Zenon, <2>3 DEF Abstract!Next
<1>7. CASE OpenIdentity(s)
  BY Zenon, <1>4, <1>5, <1>7 DEF OpenIdentity, Instances, database
<1>8. CASE OpenLock(s)
  BY Zenon, <1>4, <1>5, <1>8 DEF OpenLock, Instances, database
<1>9. CASE OpenVerified(s)
  BY Zenon, <1>4, <1>5, <1>9 DEF OpenVerified, Instances, database
<1>10. CASE OpenConnection(s)
  BY Zenon, <1>4, <1>5, <1>10 DEF OpenConnection, Instances, database
<1>11. CASE OpenSchema(s)
  BY Zenon, <1>4, <1>5, <1>11 DEF OpenSchema, Instances, database
<1>12. CASE EnableOutbox(s)
  BY Zenon, <1>4, <1>5, <1>12 DEF EnableOutbox, Instances, database
<1>13. CASE Close(s)
  <2>1. store'[s].epoch = 0 /\ owner_epoch' = owner_epoch /\ \A o \in Stores \ {s} : store'[o] = store[o]
    BY Zenon, <1>4, <1>13 DEF Close, Closed, database
  <2>2. CASE store[s].epoch = 0
    BY Zenon, <1>5, <2>1, <2>2
  <2>3. CASE store[s].epoch # 0
    BY Zenon, <1>6, <2>1, <2>3
  <2> QED
    BY Zenon, <2>2, <2>3
<1>14. CASE \E e \in 1 .. EpochBound : ReleaseOwner(s, e)
  <2>1. /\ store[s].epoch # 0 /\ store'[s].epoch = 0 /\ owner_epoch' = owner_epoch
        /\ \A o \in Stores \ {s} : store'[o] = store[o]
    BY <1>4, <1>14, SqliteAssumption DEF ReleaseOwner, Instances, database
  <2> QED
    BY Zenon, <1>6, <2>1
<1>15. CASE AcquireOwner(s)
  <2>1. owner_epoch' = owner_epoch + 1 /\ owner_epoch' # 0
    BY <1>15, InstanceFields DEF AcquireOwner
  <2>2. \A o \in Stores : store[o].epoch = 0
    BY Zenon, <1>15, InstanceFields, SqliteAssumption DEF AcquireOwner, LockFree
  <2>3. Owner = 0
    BY Zenon, <1>3, <2>2 DEF OwnerIsHolder
  <2>4. CASE store' = [store EXCEPT ![s].lock_file = TRUE, ![s].epoch = owner_epoch']
    <3>1. store'[s].epoch = owner_epoch'
      BY Zenon, <1>4, <2>4 DEF Instances
    <3>2. Owner' = owner_epoch'
      BY Zenon, <1>3, <2>1, <3>1 DEF OwnerIsHolder
    <3>3. Abstract!AcquireOwner
      BY Zenon, <1>2, <2>1, <2>3, <3>2 DEF Abstract!AcquireOwner, Summary, Requested, Progressed
    <3> QED
      BY Zenon, <3>3 DEF Abstract!Next
  <2>5. CASE store' = [store EXCEPT ![s].lock_file = TRUE]
    <3>1. \A o \in Stores : store'[o].epoch = store[o].epoch
      BY Zenon, <1>4, <2>5 DEF Instances
    <3>2. Owner' = Owner
      BY Zenon, <3>1, OwnerKept
    <3>3. Abstract!SkipEpoch
      BY Zenon, <1>2, <2>1, <3>2 DEF Abstract!SkipEpoch, Summary, Requested, Progressed
    <3> QED
      BY Zenon, <3>3 DEF Abstract!Next
  <2> QED
    BY Zenon, <1>15, <2>4, <2>5 DEF AcquireOwner
<1> QED
  BY Zenon, <1>7, <1>8, <1>9, <1>10, <1>11, <1>12, <1>13, <1>14, <1>15 DEF Handles

\* Through any number of instances, crashes, replaced files and late closures
\* the database behaves as one atomic TaskStore.
THEOREM SqliteImplementsTaskStore == Spec => ImplementsTaskStore
<1>1. Init => Abstract!Init
  <2> SUFFICES ASSUME Init PROVE Abstract!Init
    BY Zenon
  <2>1. /\ NoRow("Unborn").lifecycle = Unborn /\ NoRow("Unborn").request = NoRequest
        /\ NoRow("Unborn").progress[2] = 0
    BY AbsentRow DEF AbsentStates, Unborn
  <2>2. /\ Summary = [id \in Ids |-> Unborn] /\ Requested = [id \in Ids |-> NoRequest]
        /\ Progressed = [id \in Ids |-> 0]
    BY Zenon, <2>1 DEF Init, Summary, Requested, Progressed, DecodeSummary
  <2>3. Owner = 0
    BY Zenon DEF Init, Owner, Closed
  <2>4. Abstract!Unborn = Unborn
    BY Zenon, SharedRecords
  <2> QED
    BY Zenon, <2>2, <2>3, <2>4 DEF Init, Abstract!Init, Summary, Requested, Progressed
<1>2. ASSUME SqliteInv, SqliteInv', [Next]_vars
      PROVE  Abstract!Next \/ UNCHANGED Abstract!svars
  <2>0. LockInv /\ LockInv' /\ RowInv
    BY Zenon, <1>2 DEF SqliteInv
  <2>1. ASSUME UNCHANGED <<tasks, store, owner_epoch>>
        PROVE  UNCHANGED Abstract!svars
    <3>1. Owner' = Owner
      BY Zenon, <2>1 DEF Owner
    <3> QED
      BY Zenon, <2>1, <3>1, SameRows DEF Abstract!svars, Summary, Requested, Progressed
  <2>2. CASE ReplaceFile \/ UNCHANGED vars
    BY Zenon, <2>1, <2>2 DEF ReplaceFile, database, vars
  <2>3. ASSUME NEW s \in Stores, NEW row \in outbox, RemoveOutboxRow(s, row)
        PROVE  UNCHANGED Abstract!svars
    BY Zenon, <2>1, <2>3 DEF RemoveOutboxRow
  <2>4. ASSUME NEW s \in Stores, Write(s)
        PROVE  Abstract!Next
    <3>1. UNCHANGED <<store, owner_epoch>>
      BY Zenon, <2>4, WriteKeeps
    <3>2. Owner' = Owner /\ owner_epoch' = owner_epoch
      BY Zenon, <3>1 DEF Owner
    <3> QED
      BY Zenon, <2>0, <2>4, <3>2, WriteIsRowStep, AcceptImplements, StartImplements, TransitionImplements,
         ProgressImplements, PruneImplements
  <2> QED
    BY Zenon, <1>2, <2>0, <2>2, <2>3, <2>4, HandlesImplement, Steps
<1>3. SqliteInv /\ SqliteInv' /\ [Next]_vars => [Abstract!Next]_Abstract!svars
  BY Zenon, <1>2
<1> QED
  BY <1>1, <1>3, SqliteInvariant, PTL DEF Spec, ImplementsTaskStore, Abstract!Spec
=============================================================================
