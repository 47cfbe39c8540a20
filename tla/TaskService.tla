---------------------------- MODULE TaskService ----------------------------
(***************************************************************************)
(* The core of TypedTaskExecutionService: the scheduler that starts queued *)
(* tasks, the spawned run_one supervisors that execute a handler and       *)
(* persist its outcome, concurrent cancel and resume_blocked callers, the  *)
(* external cancellation hooks they share, and recovery after a restart.   *)
(*                                                                         *)
(* All of them meet only in the store, through reads that are stale as     *)
(* soon as they return and compare-and-set writes on (state_version,       *)
(* attempt).  Every await of the code on the store is a step boundary of   *)
(* this model: a get and the write that uses it are different steps.       *)
(*                                                                         *)
(* Resources are abstracted to a free choice (a reservation may or may not *)
(* be available), the notifier that wakes the scheduler is left out, and   *)
(* the shutdown supervisor is reduced to the condition it waits for.       *)
(***************************************************************************)
EXTENDS TaskRecord, FiniteSets

CONSTANTS
    TaskIds,               \* numeric task ids, in acceptance order
    Clients,               \* concurrent callers of cancel and resume_blocked
    Flights,               \* slots for spawned external cancellation hooks
    CancellationMode,      \* the mode of the handler of each task
    MaxRunning,            \* max_running_tasks
    MaxAttempts,           \* max_attempts
    AttemptBound,          \* bound: no attempt beyond this one is started
    VersionBound,          \* bound: no call begins on a task at this version
    StoreMayFail,          \* store calls may return an operational error
    RetentionEvicts,       \* terminal records may be evicted or pruned
    OversizedDiagnostics,  \* handlers may report messages over the byte limit
    CallersMayDrop,        \* a caller's future may be dropped at an await
    Restarts               \* the process may crash, stop and start again

Modes == {"Cooperative", "ExternalHook", "Unsupported"}

ASSUME ServiceAssumption ==
    /\ TaskIds \subseteq Nat /\ IsFiniteSet(TaskIds)
    /\ IsFiniteSet(Flights)
    /\ CancellationMode \in [TaskIds -> Modes]
    /\ MaxRunning \in Nat \ {0}
    /\ MaxAttempts \in Nat \ {0}
    /\ AttemptBound \in Nat
    /\ VersionBound \in Nat
    /\ {StoreMayFail, RetentionEvicts, OversizedDiagnostics,
        CallersMayDrop, Restarts} \subseteq BOOLEAN

VARIABLES
    svc,            \* "down", "recovering" or "serving"
    shutting_down,  \* TypedServiceCore.shutting_down
    fault,          \* TypedServiceCore.fault is Some
    inadmissible,   \* tasks no registered handler, codec or capacity accepts
    task,           \* the store: the record of each task
    page,           \* summaries the scheduler has listed and not yet visited
    sched,          \* the scheduler's program counter and current summary
    run,            \* run_one supervisors, by (task, attempt)
    signal,         \* TypedServiceCore.cancellations
    call,           \* cancel and resume_blocked calls in progress
    flight,         \* run_external_cancel operations in progress
    ext             \* TypedServiceCore.external_cancellations

vars == <<svc, shutting_down, fault, inadmissible, task, page, sched,
          run, signal, call, flight, ext>>

\* The in-process state that a crash or a completed shutdown discards.
process == <<page, sched, run, signal, call, flight, ext>>

control == <<svc, shutting_down, fault, inadmissible>>

Keys == TaskIds \X (1 .. AttemptBound)

-----------------------------------------------------------------------------
(***************************************************************************)
(* Program counters and the values actors carry from a read to a write.    *)
(***************************************************************************)

\* A summary as a reader keeps it.
Snapshot(id) ==
    [id |-> id,
     state |-> task[id].state,
     state_version |-> task[id].state_version,
     attempt |-> task[id].attempt,
     cancel_requested |-> task[id].cancel_requested,
     cancel_error |-> task[id].cancel_error]

NoSnapshot ==
    [id |-> 0, state |-> "Unborn", state_version |-> 0, attempt |-> 0,
     cancel_requested |-> FALSE, cancel_error |-> FALSE]

Snapshots ==
    [id : Nat, state : TaskStates \cup AbsentStates, state_version : Nat,
     attempt : Nat, cancel_requested : BOOLEAN, cancel_error : BOOLEAN]

\* What a handler returned: the state to persist, TaskRunError.retryable, and
\* whether its diagnostics fit the persisted byte limits.
Outcome(state, retryable, diagnostics_valid) ==
    [state |-> state, retryable |-> retryable, diagnostics_valid |-> diagnostics_valid]

Outcomes ==
    [state : TerminalStates, retryable : BOOLEAN, diagnostics_valid : BOOLEAN]

\* The ways the match on the handler's execution result calls finish: only
\* an error is retryable, and only an error carries diagnostics of its own.
HandlerOutcomes ==
    {o \in Outcomes :
        /\ o.retryable => o.state = "Failed"
        /\ ~o.diagnostics_valid => OversizedDiagnostics /\ o.state = "Failed"}

NoOutcome == Outcome("Failed", FALSE, TRUE)

SchedIdle == [pc |-> "idle", snap |-> NoSnapshot]
RunIdle == [pc |-> "none", outcome |-> NoOutcome, snap |-> NoSnapshot]
CallIdle == [pc |-> "idle", snap |-> NoSnapshot]
FlightIdle == [pc |-> "none", phase |-> "request", key |-> <<0, 0>>,
               version |-> 0, result |-> "Success"]

SchedPc == {"idle", "scan", "start", "block", "check"}
RunPc == {"none", "load", "insert", "check", "handler",
          "finish_get", "finish_put", "finish_check", "forget"}
CallPc == {"idle", "cancel_waiting", "request", "signal", "join", "resume"}
FlightPc == {"none", "get", "put", "hook", "settle"}
FlightPhase == {"request", "clear", "record"}
FlightResult == {"Success", "AlreadyTerminal", "HookFailed", "ServiceFailed"}

SchedRecords == [pc : SchedPc, snap : Snapshots]
RunRecords == [pc : RunPc, outcome : Outcomes, snap : Snapshots]
CallRecords == [pc : CallPc, snap : Snapshots]
FlightRecords == [pc : FlightPc, phase : FlightPhase, key : Nat \X Nat,
                  version : Nat, result : FlightResult]

\* in_flight counts handler supervisors and external hooks alike.
ActiveRuns == {k \in Keys : run[k].pc # "none"}
ActiveFlights == {f \in Flights : flight[f].pc # "none"}
InFlight == Cardinality(ActiveRuns) + Cardinality(ActiveFlights)

LatchFault == fault' = TRUE /\ shutting_down' = TRUE /\ UNCHANGED <<svc, inadmissible>>

\* The check at the head of submit, cancel and resume_blocked, made while the
\* admission read lock is held.
Admitted == svc = "serving" /\ ~fault /\ ~shutting_down

Command(snap, state, cancel_requested, cancel_error) ==
    [state_version |-> snap.state_version, attempt |-> snap.attempt, state |-> state,
     cancel_requested |-> cancel_requested, cancel_error |-> cancel_error,
     retry |-> "none", diagnostics_valid |-> TRUE]

Commit(id, cmd) == task' = [task EXCEPT ![id] = Transitioned(@, cmd)]

-----------------------------------------------------------------------------
Init ==
    /\ svc = "serving"
    /\ shutting_down = FALSE
    /\ fault = FALSE
    /\ inadmissible \in SUBSET TaskIds
    /\ task = [id \in TaskIds |-> [Accepted EXCEPT !.state = "Unborn"]]
    /\ page = {}
    /\ sched = SchedIdle
    /\ run = [k \in Keys |-> RunIdle]
    /\ signal = [k \in Keys |-> "absent"]
    /\ call = [c \in Clients |-> CallIdle]
    /\ flight = [f \in Flights |-> FlightIdle]
    /\ ext = [k \in Keys |-> "none"]

\* submit: a created task is queued; a rejected request changes nothing.
Submit(id) ==
    /\ Admitted
    /\ task[id].state = "Unborn"
    /\ task' = [task EXCEPT ![id] = Accepted]
    /\ UNCHANGED <<control, process>>

\* The clock passes a retry deadline.
DeadlinePasses(id) ==
    /\ task[id].state = "Queued"
    /\ task[id].retry = "pending"
    /\ task' = [task EXCEPT ![id].retry = "due"]
    /\ UNCHANGED <<control, process>>

\* A store evicts a terminal record (history_capacity, payload budget) or an
\* application job prunes it.
Evict(id) ==
    /\ RetentionEvicts
    /\ IsTerminal(task[id].state)
    /\ task' = [task EXCEPT ![id].state = "Removed"]
    /\ UNCHANGED <<control, process>>

-----------------------------------------------------------------------------
(***************************************************************************)
(* The scheduler: scheduler_loop and scan_ready_pages.                     *)
(***************************************************************************)
Ready ==
    {id \in TaskIds : /\ task[id].state = "Queued"
                      /\ task[id].retry # "pending"
                      /\ task[id].attempt < AttemptBound}

\* list_ready_queued, when the loop finds a free slot.
SchedulerScan ==
    /\ svc = "serving"
    /\ sched.pc = "idle"
    /\ ~shutting_down /\ ~fault
    /\ InFlight < MaxRunning
    /\ Ready # {}
    /\ page' = {Snapshot(id) : id \in Ready}
    /\ sched' = [pc |-> "scan", snap |-> NoSnapshot]
    /\ UNCHANGED <<control, task, run, signal, call, flight, ext>>

\* The page is in (accepted_at_ms, id) order.
First(summaries) == CHOOSE s \in summaries : \A t \in summaries : s.id <= t.id

\* Mutant: the limit is checked when the scan starts and not again.
VisitNextUnlimited(s) ==
    /\ sched.pc = "scan"
    /\ page # {}
    /\ s = First(page)
    /\ ~shutting_down
    /\ page' = page \ {s}
    /\ UNCHANGED <<control, task, run, signal, call, flight, ext>>

VisitNext(s) ==
    /\ sched.pc = "scan"
    /\ page # {}
    /\ s = First(page)
    /\ ~shutting_down
    /\ InFlight < MaxRunning
    /\ page' = page \ {s}
    /\ UNCHANGED <<control, task, run, signal, call, flight, ext>>

\* dispatch_is_eligible and reserve_task_resources let the task through.
SchedulerReserve ==
    \E s \in page :
        /\ VisitNext(s)
        /\ s.id \notin inadmissible
        /\ sched' = [pc |-> "start", snap |-> s]

\* The resources are taken, or the fairness anchor reserves them for another.
SchedulerBypass ==
    \E s \in page :
        /\ VisitNext(s)
        /\ s.id \notin inadmissible
        /\ sched' = [pc |-> "scan", snap |-> NoSnapshot]

\* No handler, payload identity, codec or capacity accepts the task.
SchedulerRefuse ==
    \E s \in page :
        /\ VisitNext(s)
        /\ s.id \in inadmissible
        /\ sched' = [pc |-> "block", snap |-> s]

SchedulerEndScan ==
    /\ sched.pc = "scan"
    /\ page = {} \/ shutting_down \/ InFlight >= MaxRunning
    /\ page' = {}
    /\ sched' = SchedIdle
    /\ UNCHANGED <<control, task, run, signal, call, flight, ext>>

\* Under the admission read lock: give up when shutdown has begun, otherwise
\* start the observed revision and spawn its supervisor.
SchedulerStart ==
    LET id == sched.snap.id
        k == <<id, task[id].attempt + 1>>
        answer == StartResult(task[id], sched.snap.state_version)
    IN  /\ sched.pc = "start"
        /\ IF shutting_down
           THEN sched' = SchedIdle /\ page' = {} /\ UNCHANGED <<task, run>>
           ELSE /\ sched' = [pc |-> "scan", snap |-> NoSnapshot]
                /\ UNCHANGED page
                /\ IF answer = "Ok"
                   THEN /\ task' = [task EXCEPT ![id] = Started(@)]
                        /\ run' = [run EXCEPT ![k] = [RunIdle EXCEPT !.pc = "load"]]
                   ELSE UNCHANGED <<task, run>>
        /\ UNCHANGED <<control, signal, call, flight, ext>>

\* mark_blocked: the write.
SchedulerBlock ==
    LET id == sched.snap.id
        cmd == Command(sched.snap, "Blocked", FALSE, FALSE)
        answer == TransitionResult(task[id], cmd)
    IN  /\ sched.pc = "block"
        /\ \/ /\ answer = "Ok"
              /\ Commit(id, cmd)
              /\ sched' = [pc |-> "scan", snap |-> NoSnapshot]
              /\ UNCHANGED control
           \/ /\ answer = "Conflict"
              /\ sched' = [sched EXCEPT !.pc = "check"]
              /\ UNCHANGED <<task, control>>
           \/ /\ answer \notin {"Ok", "Conflict"}
              /\ sched' = [pc |-> "scan", snap |-> NoSnapshot]
              /\ LatchFault
              /\ UNCHANGED task
        /\ UNCHANGED <<page, run, signal, call, flight, ext>>

\* Mutant: every conflict is taken for an inconsistency.
CheckCompetingTransitionStrict(id, expected_version) == LatchFault

\* check_competing_transition
CheckCompetingTransition(id, expected_version) ==
    IF Retained(task[id]) /\ task[id].state_version # expected_version
    THEN UNCHANGED control
    ELSE LatchFault

SchedulerCheck ==
    /\ sched.pc = "check"
    /\ CheckCompetingTransition(sched.snap.id, sched.snap.state_version)
    /\ sched' = [pc |-> "scan", snap |-> NoSnapshot]
    /\ UNCHANGED <<task, page, run, signal, call, flight, ext>>

\* A store error during a scan latches a fault and ends the loop.
SchedulerStoreFails ==
    /\ StoreMayFail
    /\ svc = "serving"
    /\ sched.pc # "idle" \/ ~shutting_down
    /\ LatchFault
    /\ page' = {}
    /\ sched' = SchedIdle
    /\ UNCHANGED <<task, run, signal, call, flight, ext>>

-----------------------------------------------------------------------------
(***************************************************************************)
(* One supervised attempt: run_one, then finish.                           *)
(***************************************************************************)
RunStep(k, from) ==
    /\ run[k].pc = from
    /\ UNCHANGED <<page, sched, call, flight>>

FinishWith(o) == [pc |-> "finish_get", outcome |-> o, snap |-> NoSnapshot]

\* The first get: a task that is no longer running ends the supervisor; a
\* payload that cannot be decoded is finished as a failure.
RunLoad(k) ==
    /\ RunStep(k, "load")
    /\ IF task[k[1]].state # "Running"
       THEN run' = [run EXCEPT ![k] = RunIdle]
       ELSE \/ run' = [run EXCEPT ![k].pc = "insert"]
            \/ \E o \in HandlerOutcomes :
                   /\ o.state = "Failed" /\ ~o.retryable
                   /\ run' = [run EXCEPT ![k] = FinishWith(o)]
    /\ UNCHANGED <<control, task, signal, ext>>

\* The attempt's cancellation flag becomes visible to cancel ...
RunInsertSignal(k) ==
    /\ RunStep(k, "insert")
    /\ signal' = [signal EXCEPT ![k] = "clear"]
    /\ run' = [run EXCEPT ![k].pc = "check"]
    /\ UNCHANGED <<control, task, ext>>

\* Mutant: the task is not read again after the flag was inserted.
RunCheckCancelSkipped(k) ==
    /\ RunStep(k, "check")
    /\ run' = [run EXCEPT ![k].pc = "handler"]
    /\ UNCHANGED <<control, task, signal, ext>>

\* ... before the second get looks for a request made earlier.
RunCheckCancel(k) ==
    /\ RunStep(k, "check")
    /\ signal' = IF Retained(task[k[1]]) /\ task[k[1]].cancel_requested
                 THEN [signal EXCEPT ![k] = "set"]
                 ELSE signal
    /\ run' = [run EXCEPT ![k].pc = "handler"]
    /\ UNCHANGED <<control, task, ext>>

HandlerReturns(k) ==
    /\ RunStep(k, "handler")
    /\ \E o \in HandlerOutcomes : run' = [run EXCEPT ![k] = FinishWith(o)]
    /\ signal' = [signal EXCEPT ![k] = "absent"]
    /\ UNCHANGED <<control, task, ext>>

\* finish: the read of the latest revision.
FinishGet(k) ==
    LET t == task[k[1]]
    IN  /\ RunStep(k, "finish_get")
        /\ IF ~Retained(t)
           THEN LatchFault /\ run' = [run EXCEPT ![k] = RunIdle] /\ UNCHANGED ext
           ELSE /\ UNCHANGED control
                /\ IF IsTerminal(t.state)
                   THEN /\ ext' = [ext EXCEPT ![k] = "none"]
                        /\ run' = [run EXCEPT ![k] = RunIdle]
                   ELSE /\ run' = [run EXCEPT ![k] =
                                       [pc |-> "finish_put", outcome |-> run[k].outcome,
                                        snap |-> Snapshot(k[1])]]
                        /\ UNCHANGED ext
        /\ UNCHANGED <<task, signal>>

\* Mutant: a cancelled attempt that failed is retried.
RetriesIgnoringCancel(k) == run[k].outcome.retryable /\ k[2] < MaxAttempts

Retries(k) ==
    /\ run[k].outcome.retryable
    /\ ~run[k].snap.cancel_requested
    /\ k[2] < MaxAttempts

FinishCommand(k) ==
    [state_version |-> run[k].snap.state_version,
     attempt |-> k[2],
     state |-> IF Retries(k) THEN "Queued" ELSE run[k].outcome.state,
     cancel_requested |-> run[k].snap.cancel_requested,
     cancel_error |-> run[k].snap.cancel_error,
     retry |-> IF Retries(k) THEN "pending" ELSE "none",
     diagnostics_valid |-> Retries(k) \/ run[k].outcome.diagnostics_valid]

\* finish: the compare-and-set write of the outcome.
FinishPut(k) ==
    LET answer == TransitionResult(task[k[1]], FinishCommand(k))
    IN  /\ RunStep(k, "finish_put")
        /\ \/ /\ answer = "Ok"
              /\ Commit(k[1], FinishCommand(k))
              /\ run' = [run EXCEPT ![k] = [RunIdle EXCEPT !.pc = "forget"]]
              /\ UNCHANGED control
           \/ /\ answer = "Conflict"
              /\ run' = [run EXCEPT ![k].pc = "finish_check"]
              /\ UNCHANGED <<task, control>>
           \/ /\ answer \notin {"Ok", "Conflict"}
              /\ run' = [run EXCEPT ![k] = RunIdle]
              /\ LatchFault
              /\ UNCHANGED task
        /\ UNCHANGED <<signal, ext>>

\* finish: a persisted outcome drops the attempt's external-cancel entry.
FinishForget(k) ==
    /\ RunStep(k, "forget")
    /\ ext' = [ext EXCEPT ![k] = "none"]
    /\ run' = [run EXCEPT ![k] = RunIdle]
    /\ UNCHANGED <<control, task, signal>>

\* finish: a conflict is accepted when a newer revision exists.
FinishCheck(k) ==
    /\ RunStep(k, "finish_check")
    /\ CheckCompetingTransition(k[1], run[k].snap.state_version)
    /\ run' = [run EXCEPT ![k] = RunIdle]
    /\ UNCHANGED <<task, signal, ext>>

RunStoreFails(k) ==
    /\ StoreMayFail
    /\ run[k].pc \in {"load", "check", "finish_get", "finish_put", "finish_check"}
    /\ LatchFault
    /\ run' = [run EXCEPT ![k] = RunIdle]
    /\ UNCHANGED <<task, page, sched, signal, call, flight, ext>>

-----------------------------------------------------------------------------
(***************************************************************************)
(* Callers: cancel and resume_blocked.                                     *)
(***************************************************************************)
CallStep(c, from) ==
    /\ call[c].pc = from
    /\ UNCHANGED <<page, sched, run>>

\* A call begins with the admission check and a get.  Calls that return
\* without changing anything (terminal, unsupported, already requested,
\* not blocked, cancellation pending) are not steps.
BeginCall(c, id, pc) ==
    /\ CallStep(c, "idle")
    /\ Admitted
    /\ Retained(task[id])
    /\ task[id].state_version < VersionBound
    /\ call' = [call EXCEPT ![c] = [pc |-> pc, snap |-> Snapshot(id)]]
    /\ UNCHANGED <<control, task, signal, flight, ext>>

CancelBegin(c, id) ==
    \/ /\ task[id].state \in {"Queued", "Blocked"}
       /\ BeginCall(c, id, "cancel_waiting")
    \/ /\ task[id].state = "Running"
       /\ CancellationMode[id] = "ExternalHook"
       /\ BeginCall(c, id, "join")
    \/ /\ task[id].state = "Running"
       /\ CancellationMode[id] = "Cooperative"
       /\ ~task[id].cancel_requested
       /\ BeginCall(c, id, "request")

ResumeBegin(c, id) ==
    /\ task[id].state = "Blocked"
    /\ ~task[id].cancel_requested
    /\ BeginCall(c, id, "resume")

\* One compare-and-set; any other answer than Ok goes back to the caller.
CallWrite(c, cmd, next) ==
    LET id == call[c].snap.id
    IN  /\ IF TransitionResult(task[id], cmd) = "Ok"
           THEN Commit(id, cmd) /\ call' = [call EXCEPT ![c] = next]
           ELSE UNCHANGED task /\ call' = [call EXCEPT ![c] = CallIdle]
        /\ UNCHANGED <<control, signal, flight, ext>>

CancelWaiting(c) ==
    /\ CallStep(c, "cancel_waiting")
    /\ CallWrite(c, Command(call[c].snap, "Cancelled", FALSE, FALSE), CallIdle)

CancelRequest(c) ==
    /\ CallStep(c, "request")
    /\ CallWrite(c, Command(call[c].snap, "Running", TRUE, FALSE),
                 [call[c] EXCEPT !.pc = "signal"])

ResumeWrite(c) ==
    /\ CallStep(c, "resume")
    /\ CallWrite(c, Command(call[c].snap, "Queued", FALSE, FALSE), CallIdle)

\* The persisted request is signalled to the attempt's flag, if it is there.
CancelSignal(c) ==
    LET k == <<call[c].snap.id, call[c].snap.attempt>>
    IN  /\ CallStep(c, "signal")
        /\ signal' = IF signal[k] = "absent" THEN signal
                     ELSE [signal EXCEPT ![k] = "set"]
        /\ call' = [call EXCEPT ![c] = CallIdle]
        /\ UNCHANGED <<control, task, flight, ext>>

\* Mutant: callers do not join an operation in progress.
CancelJoinAlwaysStarts(c) ==
    LET k == <<call[c].snap.id, call[c].snap.attempt>>
    IN  /\ CallStep(c, "join")
        /\ \E f \in Flights :
               /\ flight[f].pc = "none"
               /\ flight' = [flight EXCEPT ![f] =
                                 [FlightIdle EXCEPT !.pc = "get", !.key = k]]
        /\ ext' = [ext EXCEPT ![k] = "InFlight"]
        /\ call' = [call EXCEPT ![c] = CallIdle]
        /\ UNCHANGED <<control, task, signal>>

\* start_or_join_external_cancel.  The caller then only waits for the result.
CancelJoin(c) ==
    LET k == <<call[c].snap.id, call[c].snap.attempt>>
    IN  /\ CallStep(c, "join")
        /\ \/ /\ ext[k] # "none"
              /\ UNCHANGED <<flight, ext>>
           \/ /\ ext[k] = "none"
              /\ \E f \in Flights :
                     /\ flight[f].pc = "none"
                     /\ flight' = [flight EXCEPT ![f] =
                                       [FlightIdle EXCEPT !.pc = "get", !.key = k]]
              /\ ext' = [ext EXCEPT ![k] = "InFlight"]
        /\ call' = [call EXCEPT ![c] = CallIdle]
        /\ UNCHANGED <<control, task, signal>>

\* The caller's future is dropped while it waits for the store.  A SQLite
\* write that was issued commits all the same, so the call may end between
\* its write and the statements after it.
CallDropped(c) ==
    /\ CallersMayDrop
    /\ call[c].pc # "idle"
    /\ call' = [call EXCEPT ![c] = CallIdle]
    /\ UNCHANGED <<control, task, page, sched, run, signal, flight, ext>>

\* store_result: an operational error of a caller's get or write.
CallStoreFails(c) ==
    /\ StoreMayFail
    /\ \/ call[c].pc \in {"cancel_waiting", "request", "resume"}
       \/ call[c].pc = "idle" /\ Admitted
    /\ LatchFault
    /\ call' = [call EXCEPT ![c] = CallIdle]
    /\ UNCHANGED <<task, page, sched, run, signal, flight, ext>>

-----------------------------------------------------------------------------
(***************************************************************************)
(* run_external_cancel.  Its three loops have one shape, a get and a write *)
(* that is retried on conflict: "request" persists the intent before the   *)
(* hook runs, "clear" removes an earlier diagnostic after it succeeded,    *)
(* "record" (record_external_cancel_failure) stores why it failed.         *)
(***************************************************************************)
FlightStep(f, from) ==
    /\ flight[f].pc = from
    /\ UNCHANGED <<page, sched, run, signal, call>>

Settled(fl, result) == [fl EXCEPT !.pc = "settle", !.version = 0, !.result = result]

FlightGet(f) ==
    LET fl == flight[f]
        t == task[fl.key[1]]
    IN  /\ FlightStep(f, "get")
        /\ flight' = [flight EXCEPT ![f] =
               IF ~Retained(t) THEN Settled(fl, "ServiceFailed")
               ELSE IF t.state # "Running" \/ t.attempt # fl.key[2]
                    THEN Settled(fl, "AlreadyTerminal")
               ELSE IF fl.phase = "request" /\ t.cancel_requested /\ ~t.cancel_error
                    THEN [fl EXCEPT !.pc = "hook"]
               ELSE IF fl.phase = "clear" /\ ~t.cancel_error
                    THEN Settled(fl, "Success")
               ELSE [fl EXCEPT !.pc = "put", !.version = t.state_version]]
        /\ UNCHANGED <<control, task, ext>>

\* Mutant: the failure of a hook is not stored.
FlightCommandNoDiagnostic(fl) ==
    [state_version |-> fl.version, attempt |-> fl.key[2], state |-> "Running",
     cancel_requested |-> TRUE, cancel_error |-> FALSE,
     retry |-> "none", diagnostics_valid |-> TRUE]

FlightCommand(fl) ==
    [state_version |-> fl.version, attempt |-> fl.key[2], state |-> "Running",
     cancel_requested |-> TRUE, cancel_error |-> fl.phase = "record",
     retry |-> "none", diagnostics_valid |-> TRUE]

AfterPut(fl) ==
    CASE fl.phase = "request" -> [fl EXCEPT !.pc = "hook", !.version = 0]
      [] fl.phase = "clear"   -> Settled(fl, "Success")
      [] fl.phase = "record"  -> Settled(fl, "HookFailed")

FlightPut(f) ==
    LET fl == flight[f]
        id == fl.key[1]
        answer == TransitionResult(task[id], FlightCommand(fl))
    IN  /\ FlightStep(f, "put")
        /\ \/ /\ answer = "Ok"
              /\ Commit(id, FlightCommand(fl))
              /\ flight' = [flight EXCEPT ![f] = AfterPut(fl)]
           \/ /\ answer = "Conflict"
              /\ flight' = [flight EXCEPT ![f] = [fl EXCEPT !.pc = "get", !.version = 0]]
              /\ UNCHANGED task
           \/ /\ answer \notin {"Ok", "Conflict"}
              /\ flight' = [flight EXCEPT ![f] = Settled(fl, "ServiceFailed")]
              /\ UNCHANGED task
        /\ UNCHANGED <<control, ext>>

\* The hook returns Ok, or an error or panic that is to be recorded.
HookReturns(f) ==
    /\ FlightStep(f, "hook")
    /\ \E phase \in {"clear", "record"} :
           flight' = [flight EXCEPT ![f] = [@ EXCEPT !.pc = "get", !.phase = phase]]
    /\ UNCHANGED <<control, task, ext>>

\* The entry is replaced or removed, a service failure is latched, the result
\* is published to the waiting callers and the in-flight slot is released.
FlightSettle(f) ==
    /\ FlightStep(f, "settle")
    /\ ext' = [ext EXCEPT ![flight[f].key] =
                   IF flight[f].result = "Success" THEN "Succeeded" ELSE "none"]
    /\ IF flight[f].result = "ServiceFailed" THEN LatchFault ELSE UNCHANGED control
    /\ flight' = [flight EXCEPT ![f] = FlightIdle]
    /\ UNCHANGED task

FlightStoreFails(f) ==
    /\ StoreMayFail
    /\ flight[f].pc \in {"get", "put"}
    /\ flight' = [flight EXCEPT ![f] = Settled(@, "ServiceFailed")]
    /\ UNCHANGED <<control, task, page, sched, run, signal, call, ext>>

-----------------------------------------------------------------------------
(***************************************************************************)
(* The service's lifetime.                                                 *)
(***************************************************************************)
DiscardProcess ==
    /\ svc' = "down"
    /\ shutting_down' = FALSE
    /\ fault' = FALSE
    /\ page' = {}
    /\ sched' = SchedIdle
    /\ run' = [k \in Keys |-> RunIdle]
    /\ signal' = [k \in Keys |-> "absent"]
    /\ call' = [c \in Clients |-> CallIdle]
    /\ flight' = [f \in Flights |-> FlightIdle]
    /\ ext' = [k \in Keys |-> "none"]
    /\ UNCHANGED <<inadmissible, task>>

\* The process dies with a persistent store.
Crash ==
    /\ Restarts
    /\ svc # "down"
    /\ DiscardProcess

\* shutdown, or dropping the last handle.
RequestShutdown ==
    /\ Restarts
    /\ svc = "serving"
    /\ ~shutting_down
    /\ shutting_down' = TRUE
    /\ UNCHANGED <<svc, fault, inadmissible, task, process>>

\* The supervisor releases the store after the scheduler stopped, admitted
\* calls returned and every active operation ended.
ShutdownCompletes ==
    /\ svc = "serving"
    /\ shutting_down
    /\ sched.pc = "idle"
    /\ \A c \in Clients : call[c].pc = "idle"
    /\ ActiveRuns = {} /\ ActiveFlights = {}
    /\ DiscardProcess

\* A new service acquires the store, possibly with another configuration.
Restart ==
    /\ svc = "down"
    /\ svc' = "recovering"
    /\ inadmissible' \in SUBSET TaskIds
    /\ UNCHANGED <<shutting_down, fault, task, process>>

\* Mutant: an interrupted attempt is repeated although it was to be cancelled.
RecoverRequeuesAll(id) ==
    /\ svc = "recovering"
    /\ task[id].state = "Running"
    /\ Commit(id, Command(Snapshot(id), "Queued", task[id].cancel_requested, task[id].cancel_error))
    /\ UNCHANGED <<control, process>>

\* recover_unfinished: one running record of the listed pages.
Recover(id) ==
    LET t == task[id]
        cmd == Command(Snapshot(id), IF t.cancel_requested THEN "Blocked" ELSE "Queued",
                       t.cancel_requested, t.cancel_error)
    IN  /\ svc = "recovering"
        /\ t.state = "Running"
        /\ Commit(id, cmd)
        /\ UNCHANGED <<control, process>>

RecoveryCompletes ==
    /\ svc = "recovering"
    /\ \A id \in TaskIds : task[id].state # "Running"
    /\ svc' = "serving"
    /\ UNCHANGED <<shutting_down, fault, inadmissible, task, process>>

\* A store error during recovery releases the store again.
RecoveryFails ==
    /\ StoreMayFail
    /\ svc = "recovering"
    /\ svc' = "down"
    /\ UNCHANGED <<shutting_down, fault, inadmissible, task, process>>

-----------------------------------------------------------------------------
SchedulerStep ==
    \/ SchedulerScan \/ SchedulerReserve \/ SchedulerBypass \/ SchedulerRefuse
    \/ SchedulerEndScan \/ SchedulerStart \/ SchedulerBlock \/ SchedulerCheck
    \/ SchedulerStoreFails

AttemptStep(k) ==
    \/ RunLoad(k) \/ RunInsertSignal(k) \/ RunCheckCancel(k) \/ HandlerReturns(k)
    \/ FinishGet(k) \/ FinishPut(k) \/ FinishForget(k) \/ FinishCheck(k)
    \/ RunStoreFails(k)

CallerStep(c) ==
    \/ \E id \in TaskIds : CancelBegin(c, id) \/ ResumeBegin(c, id)
    \/ CancelWaiting(c) \/ CancelRequest(c) \/ CancelSignal(c) \/ CancelJoin(c)
    \/ ResumeWrite(c) \/ CallDropped(c) \/ CallStoreFails(c)

HookStep(f) ==
    \/ FlightGet(f) \/ FlightPut(f) \/ HookReturns(f) \/ FlightSettle(f)
    \/ FlightStoreFails(f)

LifetimeStep ==
    \/ Crash \/ RequestShutdown \/ ShutdownCompletes \/ Restart
    \/ (\E id \in TaskIds : Recover(id)) \/ RecoveryCompletes \/ RecoveryFails

StoreStep ==
    \E id \in TaskIds : Submit(id) \/ DeadlinePasses(id) \/ Evict(id)

Next ==
    \/ StoreStep
    \/ SchedulerStep
    \/ \E k \in Keys : AttemptStep(k)
    \/ \E c \in Clients : CallerStep(c)
    \/ \E f \in Flights : HookStep(f)
    \/ LifetimeStep

Spec == Init /\ [][Next]_vars

-----------------------------------------------------------------------------
(***************************************************************************)
(* Properties.                                                             *)
(***************************************************************************)
TaskRecords ==
    [state : TaskStates \cup AbsentStates, state_version : Nat, attempt : Nat,
     cancel_requested : BOOLEAN, cancel_error : BOOLEAN, retry : RetryStates]

\* Every variable has the shape its Rust counterpart gives it.
TypeOK ==
    /\ svc \in {"down", "recovering", "serving"}
    /\ shutting_down \in BOOLEAN
    /\ fault \in BOOLEAN
    /\ inadmissible \in SUBSET TaskIds
    /\ task \in [TaskIds -> TaskRecords]
    /\ page \in SUBSET Snapshots
    /\ sched \in SchedRecords
    /\ run \in [Keys -> RunRecords]
    /\ signal \in [Keys -> {"absent", "clear", "set"}]
    /\ call \in [Clients -> CallRecords]
    /\ flight \in [Flights -> FlightRecords]
    /\ ext \in [Keys -> {"none", "InFlight", "Succeeded"}]

\* Supervisors that have not yet persisted their attempt's outcome.
Executing(k) == run[k].pc \notin {"none", "forget"}

\* While a supervisor works on an attempt, the store says Running with that
\* very attempt: no stale cancel, mark_blocked, resume or recovery write can
\* take a task away from its handler, and so two attempts of one task never
\* execute at the same time.
AttemptFenced ==
    \A k \in Keys :
        Executing(k) => /\ task[k[1]].state = "Running"
                        /\ task[k[1]].attempt = k[2]

\* A summary read earlier either still describes its task or is outdated by a
\* later revision; an outdated one can be recognised by its version alone.
Current(s) ==
    /\ s.id \in TaskIds
    /\ task[s.id].state # "Unborn"
    /\ s.state_version <= task[s.id].state_version
    /\ s.state_version = task[s.id].state_version =>
           /\ task[s.id].state = s.state
           /\ task[s.id].attempt = s.attempt
           /\ task[s.id].cancel_requested = s.cancel_requested
           /\ task[s.id].cancel_error = s.cancel_error

\* The states in which each pending call has seen its task.
SeenBy(pc) ==
    CASE pc = "cancel_waiting" -> {"Queued", "Blocked"}
      [] pc = "resume"         -> {"Blocked"}
      [] OTHER                 -> {"Running"}

RunCurrent(k) ==
    run[k].pc \in {"finish_put", "finish_check"} =>
        /\ Current(run[k].snap)
        /\ run[k].snap.id = k[1]
        /\ run[k].snap.state = "Running"
        /\ run[k].snap.attempt = k[2]

CallCurrent(c) ==
    call[c].pc # "idle" =>
        /\ Current(call[c].snap)
        /\ call[c].snap.state \in SeenBy(call[c].pc)
        /\ call[c].pc = "resume" => ~call[c].snap.cancel_requested

FlightCurrent(f) ==
    LET t == task[flight[f].key[1]]
    IN  /\ flight[f].pc # "none" => flight[f].key[1] \in TaskIds
        /\ flight[f].pc = "put" =>
               /\ flight[f].version <= t.state_version
               /\ flight[f].version = t.state_version =>
                      t.state = "Running" /\ t.attempt = flight[f].key[2]

\* Every summary that a later compare-and-set relies on is in that sense
\* current: the scheduler's page, finish's read, pending calls and hooks.
SnapshotsCurrent ==
    /\ \A s \in page : Current(s) /\ s.state = "Queued"
    /\ sched.pc \in {"start", "block", "check"} =>
           Current(sched.snap) /\ sched.snap.state = "Queued"
    /\ \A k \in Keys : RunCurrent(k)
    /\ \A c \in Clients : CallCurrent(c)
    /\ \A f \in Flights : FlightCurrent(f)

\* A task waiting in the queue carries no cancellation request.
QueuedUnrequested ==
    \A id \in TaskIds :
        task[id].state \in {"Unborn", "Queued"} => ~task[id].cancel_requested

\* Between two services nothing of the old process acts on the store.
NoProcessWhenDown ==
    svc # "serving" =>
        /\ page = {}
        /\ sched = SchedIdle
        /\ \A k \in Keys : run[k] = RunIdle
        /\ \A c \in Clients : call[c] = CallIdle
        /\ \A f \in Flights : flight[f] = FlightIdle

\* A persisted cancellation request is never followed by another attempt:
\* finish does not retry, recovery blocks the task, resume_blocked refuses.
NoAttemptAfterCancel ==
    [][\A id \in TaskIds :
           Retained(task[id]) /\ task[id].cancel_requested
               => task'[id].attempt = task[id].attempt]_vars

\* A handler whose attempt has a persisted cooperative cancellation request
\* sees its flag set, unless the requesting call is just about to set it:
\* either cancel finds the flag that run_one inserted, or run_one's second
\* get finds the request.
CancelSignalled ==
    \A k \in Keys :
        /\ run[k].pc = "handler"
        /\ CancellationMode[k[1]] = "Cooperative"
        /\ task[k[1]].cancel_requested
        /\ \A c \in Clients :
               ~(call[c].pc = "signal" /\ call[c].snap.id = k[1] /\ call[c].snap.attempt = k[2])
        => signal[k] = "set"

\* At most one external hook of an attempt runs at a time, although the entry
\* that callers share is removed by finish while the hook may still run.
OneHookPerAttempt ==
    \A f, g \in Flights :
        flight[f].pc = "hook" /\ flight[g].pc = "hook" /\ flight[f].key = flight[g].key
            => f = g

\* A hook runs only for a request that is persisted with its attempt, and a
\* hook failure that callers are told about is stored while the attempt lasts.
HookResultsPersisted ==
    \A f \in Flights :
        LET t == task[flight[f].key[1]]
        IN  /\ flight[f].pc # "none"
            /\ t.state = "Running"
            /\ t.attempt = flight[f].key[2]
            => /\ flight[f].pc = "hook" => t.cancel_requested
               /\ flight[f].pc = "settle" /\ flight[f].result = "HookFailed"
                      => t.cancel_requested /\ t.cancel_error

\* The scheduler never has more than max_running_tasks handlers in progress,
\* even though hooks take slots between its check and the start.
RunningWithinLimit == Cardinality(ActiveRuns) <= MaxRunning

\* Without a failing store nothing latches a service fault: every conflict is
\* explained by a newer revision and no task disappears under its readers.
NoSpuriousFault == ~fault

\* A task that the store shows as running has a supervisor that will persist
\* its outcome, as long as the service serves without a fault.
RunningHasSupervisor ==
    svc = "serving" /\ ~fault =>
        \A id \in TaskIds :
            task[id].state = "Running" => Executing(<<id, task[id].attempt>>)

(***************************************************************************)
(* The service implements the task lifecycle: hide everything but the      *)
(* state, the attempt and the cancellation flag of each stored record.     *)
(***************************************************************************)
Lifecycle ==
    INSTANCE TaskLifecycle
        WITH state    <- [id \in TaskIds |-> task[id].state],
             attempts <- [id \in TaskIds |-> task[id].attempt],
             intent   <- [id \in TaskIds |-> task[id].cancel_requested]

\* Every behaviour of the service, whatever is stale, dropped, crashed or
\* restarted in it, is a behaviour of the abstract lifecycle: a terminal state
\* is final, an attempt begins only from the queue and only without a pending
\* cancellation, and only waiting tasks are cancelled without their handler.
ImplementsLifecycle == Lifecycle!Spec
=============================================================================
