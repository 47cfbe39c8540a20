------------------------------ MODULE Shutdown ------------------------------
(***************************************************************************)
(* How the service starts and stops.  Building it acquires exclusive       *)
(* ownership of the store under a guard; a guard dropped with the owner    *)
(* unreleased hands it to a cleanup thread.  Shutdown callers, the drop of *)
(* the last handle and latched faults request the stop; the shutdown       *)
(* supervisor closes admission, waits for the scheduler and for every      *)
(* operation in flight, and releases the owner, again and again if asked.  *)
(*                                                                         *)
(* Every wait is a tokio Notify.  notify_waiters reaches only the futures  *)
(* that exist, so what matters is when a future is created relative to the *)
(* check of the condition it stands for; both are steps of their own here. *)
(* What the operations do to tasks is the subject of TaskService, what the *)
(* scheduler does with its scan that of SchedulerLoop.                     *)
(***************************************************************************)
EXTENDS Naturals, Sequences, FiniteSets

CONSTANTS
    Callers,        \* concurrent callers of shutdown
    Clients,        \* concurrent callers of submit, cancel and resume_blocked
    Ops,            \* slots for supervised attempts and cancellation hooks
    MaxResults,     \* bound: no further call once this many results exist
    StoreMayFail,   \* store calls may fail, which latches a fault
    ReleaseMayFail, \* release_owner may fail
    HandleMayDrop,  \* the last public handle may be dropped
    RetryQueued     \* a queued retry's deadline ends the scheduler's sleep

ASSUME ShutdownAssumption ==
    /\ MaxResults \in Nat
    /\ "scheduler" \notin Clients
    /\ {StoreMayFail, ReleaseMayFail, HandleMayDrop, RetryQueued} \subseteq BOOLEAN

VARIABLES
    startup,                    \* how far the building of the service is
    owned, guard,               \* the store has an owner; OwnerReleaseGuard
    shutting_down, fault, handle, owner_released,
    readers, writer,            \* admission: who holds it, and the supervisor's claim
    scheduler, scheduler_stopped,
    notified, permit,           \* scheduler_changed and the scheduler's future
    op,                         \* what each operation in flight does
    client,                     \* what each submit, cancel or resume does
    supervisor, woken,          \* the supervisor's stage and step; its future
    close_error,                \* notification_close_error
    progress,                   \* shutdown_progress
    caller                      \* what each shutdown call does

owner == <<startup, owned, guard>>
flags == <<owner, shutting_down, fault, handle, owner_released>>
admission == <<readers, writer>>
sched == <<scheduler, scheduler_stopped, notified, permit>>
sup == <<supervisor, woken, close_error>>
vars == <<flags, admission, sched, op, client, sup, progress, caller>>

-----------------------------------------------------------------------------
Active == {o \in Ops : op[o] \in {"run", "store", "notify", "latched"}}

Init ==
    /\ startup = "acquire" /\ owned = FALSE /\ guard = "none"
    /\ shutting_down = FALSE /\ fault = FALSE /\ handle = "none" /\ owner_released = FALSE
    /\ readers = {} /\ writer = "no"
    /\ scheduler = "unspawned" /\ scheduler_stopped = FALSE
    /\ notified = "none" /\ permit = FALSE
    /\ op = [o \in Ops |-> "none"]
    /\ client = [c \in Clients |-> "idle"]
    /\ supervisor = [stage |-> "unspawned", step |-> "arm"] /\ woken = FALSE /\ close_error = FALSE
    /\ progress = [attempt |-> 0, results |-> <<>>, retryable_release |-> FALSE,
                   retry_requested |-> FALSE]
    /\ caller = [c \in Callers |-> [pc |-> "idle", attempt |-> 0, woken |-> FALSE]]

\* notify_waiters on scheduler_changed.
WakeScheduler == notified' = IF notified = "waiting" THEN "done" ELSE notified

\* notify_one on scheduler_changed.
NotifyScheduler ==
    IF notified = "waiting"
    THEN notified' = "done" /\ UNCHANGED permit
    ELSE permit' = TRUE /\ UNCHANGED notified

\* notify_waiters on what the supervisor waits for in one of these stages.
WakeSupervisor(stages) ==
    woken' = (woken \/ (supervisor.stage \in stages /\ supervisor.step # "arm"))

GoTo(stage) == supervisor' = [stage |-> stage, step |-> "arm"]

\* The second half of request_shutdown.
NotifyRequest == WakeScheduler /\ WakeSupervisor({"request", "retry"}) /\ UNCHANGED permit

-----------------------------------------------------------------------------
(***************************************************************************)
(* TypedTaskExecutionService::new and the owner release guard.             *)
(***************************************************************************)

\* The guard is dropped: an owner it still holds is queued for the cleanup.
DropGuard == guard' = IF guard = "armed" THEN "queued" ELSE guard

\* acquire_owner.  A caller that drops the future before the answer arrives
\* has no guard yet, and the store may have an owner by then.
StartupAcquires ==
    /\ startup = "acquire"
    /\ \/ startup' = "prepare" /\ owned' = TRUE /\ guard' = "armed"
       \/ StoreMayFail /\ startup' = "failed" /\ UNCHANGED <<owned, guard>>
       \/ HandleMayDrop /\ startup' = "failed" /\ owned' = TRUE /\ UNCHANGED guard
    /\ UNCHANGED <<shutting_down, fault, handle, owner_released, admission, sched, op, client, sup,
                   progress, caller>>

\* The publisher is set up and the outbox enabled, or the owner released.
StartupPrepares ==
    /\ startup = "prepare"
    /\ startup' \in IF StoreMayFail THEN {"recover", "release"} ELSE {"recover"}
    /\ UNCHANGED <<owned, guard, shutting_down, fault, handle, owner_released, admission, sched, op,
                   client, sup, progress, caller>>

\* recover_unfinished; then the scheduler and the supervisor are spawned and
\* the caller gets the handle.
StartupRecovers ==
    /\ startup = "recover"
    /\ \/ /\ startup' = "running"
          /\ handle' = "held"
          /\ scheduler' = "check" /\ permit' = TRUE
          /\ GoTo("request")
       \/ /\ StoreMayFail
          /\ startup' = "release"
          /\ UNCHANGED <<handle, scheduler, permit, supervisor>>
    /\ UNCHANGED <<owned, guard, shutting_down, fault, owner_released, admission, scheduler_stopped,
                   notified, op, client, woken, close_error, progress, caller>>

\* A failed start releases the owner before it returns the error.
StartupReleases ==
    /\ startup = "release"
    /\ startup' = "failed"
    /\ \/ owned' = FALSE /\ guard' = "disarmed"
       \/ ReleaseMayFail /\ DropGuard /\ UNCHANGED owned
    /\ UNCHANGED <<shutting_down, fault, handle, owner_released, admission, sched, op, client, sup,
                   progress, caller>>

\* The caller drops the future of the build, and the guard with it.
StartupDropped ==
    /\ HandleMayDrop
    /\ startup \in {"prepare", "recover", "release"}
    /\ startup' = "failed"
    /\ DropGuard
    /\ UNCHANGED <<owned, shutting_down, fault, handle, owner_released, admission, sched, op, client,
                   sup, progress, caller>>

\* run_cleanup_worker tries once and only logs an error.
CleanupReleases ==
    /\ guard = "queued"
    /\ \/ guard' = "disarmed" /\ owned' = FALSE
       \/ ReleaseMayFail /\ guard' = "logged" /\ UNCHANGED owned
    /\ UNCHANGED <<startup, shutting_down, fault, handle, owner_released, admission, sched, op, client,
                   sup, progress, caller>>

-----------------------------------------------------------------------------
(***************************************************************************)
(* The scheduler.                                                          *)
(***************************************************************************)
SchedulerAt(from, to) == scheduler = from /\ scheduler' = to

SchedulerCheck ==
    /\ scheduler = "check"
    /\ scheduler' = IF shutting_down \/ fault THEN "exit" ELSE "arm"
    /\ UNCHANGED <<flags, admission, scheduler_stopped, notified, permit, op, client, sup, progress, caller>>

SchedulerArm ==
    /\ SchedulerAt("arm", "scan")
    /\ notified' = IF permit THEN "done" ELSE "waiting"
    /\ permit' = FALSE
    /\ UNCHANGED <<flags, admission, scheduler_stopped, op, client, sup, progress, caller>>

\* scan_ready_pages finds a task it can start.
SchedulerPick ==
    /\ SchedulerAt("scan", "picked")
    /\ ~shutting_down
    /\ \E o \in Ops : op[o] = "none"
    /\ UNCHANGED <<flags, admission, scheduler_stopped, notified, permit, op, client, sup, progress, caller>>

SchedulerAdmit ==
    /\ SchedulerAt("picked", "admitted")
    /\ writer = "no"
    /\ readers' = readers \cup {"scheduler"}
    /\ UNCHANGED <<flags, writer, scheduler_stopped, notified, permit, op, client, sup, progress, caller>>

\* start_encoded commits under admission.
SchedulerStart ==
    /\ SchedulerAt("admitted", "spawn")
    /\ ~shutting_down
    /\ readers' = readers \ {"scheduler"}
    /\ UNCHANGED <<flags, writer, scheduler_stopped, notified, permit, op, client, sup, progress, caller>>

SchedulerTurnedAway ==
    /\ SchedulerAt("admitted", "deadline")
    /\ shutting_down
    /\ readers' = readers \ {"scheduler"}
    /\ UNCHANGED <<flags, writer, scheduler_stopped, notified, permit, op, client, sup, progress, caller>>

\* in_flight.fetch_add and the spawn of run_one.
SchedulerSpawn ==
    /\ SchedulerAt("spawn", "scan")
    /\ \E o \in Ops : op[o] = "none" /\ op' = [op EXCEPT ![o] = "run"]
    /\ UNCHANGED <<flags, admission, scheduler_stopped, notified, permit, client, sup, progress, caller>>

\* The scan is over, whether it was complete or not.
SchedulerEndScan ==
    /\ SchedulerAt("scan", "deadline")
    /\ UNCHANGED <<flags, admission, scheduler_stopped, notified, permit, op, client, sup, progress, caller>>

\* next_retry_deadline
SchedulerDeadline ==
    /\ SchedulerAt("deadline", "sleep")
    /\ UNCHANGED <<flags, admission, scheduler_stopped, notified, permit, op, client, sup, progress, caller>>

\* A complete scan missed its fairness anchor: the loop starts over.  The
\* dropped future passes a notification on if notify_one sent it.
SchedulerRescan ==
    /\ SchedulerAt("scan", "check")
    /\ ~shutting_down
    /\ notified' = "none"
    /\ permit' \in {permit, permit \/ notified = "done"}
    /\ UNCHANGED <<flags, admission, scheduler_stopped, op, client, sup, progress, caller>>

\* The notification, or the timeout towards a retry deadline, ends the sleep.
SchedulerWake ==
    /\ SchedulerAt("sleep", "check")
    /\ notified = "done" \/ RetryQueued
    /\ notified' = "none"
    /\ UNCHANGED <<flags, admission, scheduler_stopped, permit, op, client, sup, progress, caller>>

\* A store call fails: latch_fault, then return; only mark_blocked goes on,
\* and as the flag is now set the scan ends with it.
SchedulerFails ==
    /\ StoreMayFail
    /\ \/ scheduler \in {"scan", "admitted", "deadline"} /\ scheduler' = "store"
       \/ scheduler = "scan" /\ scheduler' = "block_store"
    /\ fault' = TRUE
    /\ readers' = readers \ {"scheduler"}
    /\ UNCHANGED <<owner, shutting_down, handle, owner_released, writer, scheduler_stopped, notified, permit,
                   op, client, sup, progress, caller>>

SchedulerLatch ==
    \/ /\ SchedulerAt("store", "notify") \/ SchedulerAt("block_store", "block_notify")
       /\ shutting_down' = TRUE
       /\ UNCHANGED <<owner, fault, handle, owner_released, admission, scheduler_stopped, notified, permit,
                      op, client, sup, progress, caller>>
    \/ /\ SchedulerAt("notify", "exit") \/ SchedulerAt("block_notify", "deadline")
       /\ WakeScheduler
       /\ WakeSupervisor({"request", "retry", "drain"})
       /\ UNCHANGED <<flags, admission, scheduler_stopped, permit, op, client, supervisor, close_error, progress, caller>>

\* The spawned wrapper: scheduler_stopped, then its notification.
SchedulerStop ==
    \/ /\ SchedulerAt("exit", "announce")
       /\ scheduler_stopped' = TRUE
       /\ UNCHANGED <<flags, admission, notified, permit, op, client, sup, progress, caller>>
    \/ /\ SchedulerAt("announce", "stopped")
       /\ WakeSupervisor({"scheduler"})
       /\ UNCHANGED <<flags, admission, scheduler_stopped, notified, permit, op, client, supervisor,
                      close_error, progress, caller>>

-----------------------------------------------------------------------------
(***************************************************************************)
(* Operations in flight.                                                   *)
(***************************************************************************)

\* A store failure or a panic inside the operation latches a fault and ends it.
OpLatch(o) ==
    \/ /\ StoreMayFail
       /\ op[o] = "run" /\ op' = [op EXCEPT ![o] = "store"]
       /\ fault' = TRUE
       /\ UNCHANGED <<owner, shutting_down, handle, owner_released, admission, sched, client, sup, progress, caller>>
    \/ /\ op[o] = "store" /\ op' = [op EXCEPT ![o] = "notify"]
       /\ shutting_down' = TRUE
       /\ UNCHANGED <<owner, fault, handle, owner_released, admission, sched, client, sup, progress, caller>>
    \/ /\ op[o] = "notify" /\ op' = [op EXCEPT ![o] = "latched"]
       /\ WakeScheduler
       /\ WakeSupervisor({"request", "retry", "drain"})
       /\ UNCHANGED <<flags, admission, scheduler, scheduler_stopped, permit, client, supervisor,
                      close_error, progress, caller>>

\* InFlightGuard: fetch_sub, then both notifications.
InFlightGuardDrop(o) ==
    \/ /\ op[o] \in {"run", "latched"} /\ op' = [op EXCEPT ![o] = "ended"]
       /\ UNCHANGED <<flags, admission, sched, client, sup, progress, caller>>
    \/ /\ op[o] = "ended" /\ op' = [op EXCEPT ![o] = "none"]
       /\ NotifyScheduler
       /\ WakeSupervisor({"drain"})
       /\ UNCHANGED <<flags, admission, scheduler, scheduler_stopped, client, supervisor, close_error, progress, caller>>

-----------------------------------------------------------------------------
(***************************************************************************)
(* Callers of submit, cancel and resume_blocked hold admission throughout. *)
(***************************************************************************)
ClientEnter(c) ==
    /\ client[c] = "idle" /\ handle = "held"
    /\ writer = "no"
    /\ client' = [client EXCEPT ![c] = "admitted"]
    /\ readers' = readers \cup {c}
    /\ UNCHANGED <<flags, writer, sched, op, sup, progress, caller>>

\* Mutant: a caller that had to wait for admission does not look at the flags.
ClientCheckSkipped(c) ==
    /\ client[c] = "admitted"
    /\ client' = [client EXCEPT ![c] = "writing"]
    /\ UNCHANGED <<flags, admission, sched, op, sup, progress, caller>>

ClientCheck(c) ==
    /\ client[c] = "admitted"
    /\ IF shutting_down \/ fault \/ owner_released
       THEN client' = [client EXCEPT ![c] = "idle"] /\ readers' = readers \ {c}
       ELSE client' = [client EXCEPT ![c] = "writing"] /\ UNCHANGED readers
    /\ UNCHANGED <<flags, writer, sched, op, sup, progress, caller>>

\* The write is done and the scheduler notified; or start_or_join spawns the
\* task's external cancellation hook.
ClientDone(c) ==
    /\ client[c] = "writing"
    /\ client' = [client EXCEPT ![c] = "idle"]
    /\ readers' = readers \ {c}
    /\ \/ NotifyScheduler /\ UNCHANGED op
       \/ \E o \in Ops : op[o] = "none" /\ op' = [op EXCEPT ![o] = "run"]
          /\ UNCHANGED <<notified, permit>>
    /\ UNCHANGED <<flags, writer, scheduler, scheduler_stopped, sup, progress, caller>>

\* store_result latches a fault before the caller returns.
ClientLatch(c) ==
    \/ /\ StoreMayFail
       /\ client[c] = "writing" /\ client' = [client EXCEPT ![c] = "store"]
       /\ fault' = TRUE
       /\ UNCHANGED <<owner, shutting_down, handle, owner_released, admission, sched, op, sup, progress, caller>>
    \/ /\ client[c] = "store" /\ client' = [client EXCEPT ![c] = "notify"]
       /\ shutting_down' = TRUE
       /\ UNCHANGED <<owner, fault, handle, owner_released, admission, sched, op, sup, progress, caller>>
    \/ /\ client[c] = "notify" /\ client' = [client EXCEPT ![c] = "idle"]
       /\ WakeScheduler
       /\ WakeSupervisor({"request", "retry", "drain"})
       /\ readers' = readers \ {c}
       /\ UNCHANGED <<flags, writer, scheduler, scheduler_stopped, permit, op, supervisor, close_error, progress, caller>>

\* The last handle is dropped, which no call in progress allows.
PublicLifetimeDrop ==
    \/ /\ HandleMayDrop
       /\ handle = "held" /\ handle' = "store"
       /\ \A c \in Clients : client[c] = "idle"
       /\ \A c \in Callers : caller[c].pc = "idle"
       /\ UNCHANGED <<owner, shutting_down, fault, owner_released, admission, sched, op, client, sup, progress, caller>>
    \/ /\ handle = "store" /\ handle' = "notify"
       /\ shutting_down' = TRUE
       /\ UNCHANGED <<owner, fault, owner_released, admission, sched, op, client, sup, progress, caller>>
    \/ /\ handle = "notify" /\ handle' = "gone"
       /\ NotifyRequest
       /\ UNCHANGED <<owner, shutting_down, fault, owner_released, admission, scheduler, scheduler_stopped, op,
                      client, supervisor, close_error, progress, caller>>

-----------------------------------------------------------------------------
(***************************************************************************)
(* shutdown.                                                               *)
(***************************************************************************)
CallerAt(c, from, to) ==
    caller[c].pc = from /\ caller' = [caller EXCEPT ![c].pc = to]

ShutdownBegin(c) ==
    /\ handle = "held"
    /\ Len(progress.results) < MaxResults
    /\ CallerAt(c, "idle", "notify")
    /\ shutting_down' = TRUE
    /\ UNCHANGED <<owner, fault, handle, owner_released, admission, sched, op, client, sup, progress>>

ShutdownNotify(c) ==
    /\ CallerAt(c, "notify", "join")
    /\ NotifyRequest
    /\ UNCHANGED <<flags, admission, scheduler, scheduler_stopped, op, client, supervisor, close_error, progress>>

\* Mutant: every call after a failed release asks for another one.
ShutdownJoinAlwaysRetries(c) ==
    LET retry == progress.retryable_release
        attempt == IF retry THEN progress.attempt + 1 ELSE progress.attempt
    IN  /\ caller[c].pc = "join"
        /\ progress' = [progress EXCEPT !.attempt = attempt, !.retry_requested = @ \/ retry]
        /\ caller' = [caller EXCEPT ![c] = [pc |-> IF retry THEN "retry" ELSE "arm",
                                            attempt |-> attempt, woken |-> FALSE]]
        /\ UNCHANGED <<flags, admission, sched, op, client, sup>>

\* Join the attempt under way, or ask for another release of the owner.
ShutdownJoin(c) ==
    LET retry == progress.retryable_release /\ Len(progress.results) > progress.attempt
        attempt == IF retry THEN progress.attempt + 1 ELSE progress.attempt
    IN  /\ caller[c].pc = "join"
        /\ progress' = [progress EXCEPT !.attempt = attempt, !.retry_requested = @ \/ retry]
        /\ caller' = [caller EXCEPT ![c] = [pc |-> IF retry THEN "retry" ELSE "arm",
                                            attempt |-> attempt, woken |-> FALSE]]
        /\ UNCHANGED <<flags, admission, sched, op, client, sup>>

ShutdownRetry(c) ==
    /\ CallerAt(c, "retry", "arm")
    /\ WakeSupervisor({"request", "retry"})
    /\ UNCHANGED <<flags, admission, sched, op, client, supervisor, close_error, progress>>

ShutdownWait(c) ==
    /\ \/ /\ caller[c].pc = "arm"
          /\ caller' = [caller EXCEPT ![c].pc = "check", ![c].woken = FALSE]
       \/ /\ Len(progress.results) <= caller[c].attempt
          /\ CallerAt(c, "check", "await")
       \/ /\ caller[c].woken
          /\ CallerAt(c, "await", "arm")
    /\ UNCHANGED <<flags, admission, sched, op, client, sup, progress>>

\* results.get(attempt) is what the call returns.
ShutdownReturn(c) ==
    /\ Len(progress.results) > caller[c].attempt
    /\ CallerAt(c, "check", "idle")
    /\ UNCHANGED <<flags, admission, sched, op, client, sup, progress>>

-----------------------------------------------------------------------------
(***************************************************************************)
(* shutdown_supervisor.                                                    *)
(***************************************************************************)
\* Mutant: the condition is checked before the future exists.
SupervisorWaitCheckFirst(stage, ready, next) ==
    /\ supervisor.stage = stage
    /\ CASE supervisor.step = "arm" ->
               /\ IF ready THEN GoTo(next) ELSE supervisor' = [stage |-> stage, step |-> "check"]
               /\ woken' = FALSE
         [] supervisor.step = "check" ->
               supervisor' = [stage |-> stage, step |-> "await"] /\ woken' = FALSE
         [] supervisor.step = "await" -> woken /\ GoTo(stage) /\ UNCHANGED woken

\* The loop all waits share: create the future, check the condition, await.
SupervisorWait(stage, ready, next) ==
    /\ supervisor.stage = stage
    /\ CASE supervisor.step = "arm" ->
               supervisor' = [stage |-> stage, step |-> "check"] /\ woken' = FALSE
         [] supervisor.step = "check" ->
               /\ IF ready THEN GoTo(next) ELSE supervisor' = [stage |-> stage, step |-> "await"]
               /\ UNCHANGED woken
         [] supervisor.step = "await" -> woken /\ GoTo(stage) /\ UNCHANGED woken

SupervisorWaits ==
    /\ \/ SupervisorWait("request", shutting_down, "admission")
       \/ SupervisorWait("scheduler", scheduler_stopped, "drain")
       \/ SupervisorWait("drain", Active = {}, "close")
    /\ UNCHANGED <<flags, admission, sched, op, client, close_error, progress, caller>>

\* After a failed release: another request for it, or nobody is left to ask
\* and the guard is dropped.
SupervisorAwaitsRetry ==
    /\ SupervisorWait("retry", handle # "held" \/ progress.retry_requested,
                      IF handle # "held" THEN "finished" ELSE "release")
    /\ IF supervisor'.stage = "finished" THEN DropGuard ELSE UNCHANGED guard
    /\ UNCHANGED <<startup, owned, shutting_down, fault, handle, owner_released, admission, sched, op,
                   client, close_error, progress, caller>>

\* admission.write(): queue behind the holders, ahead of everyone else.
SupervisorClaimsAdmission ==
    /\ supervisor.stage = "admission" /\ writer = "no"
    /\ writer' = "waiting"
    /\ UNCHANGED <<flags, readers, sched, op, client, sup, progress, caller>>

SupervisorStopsScheduler ==
    /\ supervisor.stage = "admission" /\ writer = "waiting" /\ readers = {}
    /\ WakeScheduler
    /\ writer' = "no"
    /\ GoTo("scheduler")
    /\ UNCHANGED <<flags, readers, scheduler, scheduler_stopped, permit, op, client, woken, close_error,
                   progress, caller>>

SupervisorClosesPublisher ==
    /\ supervisor.stage = "close"
    /\ close_error' \in BOOLEAN
    /\ GoTo("release")
    /\ UNCHANGED <<flags, admission, sched, op, client, woken, progress, caller>>

ShutdownOutcome(released) ==
    CASE fault \/ ~released -> "StoreUnavailable"
      [] ~fault /\ released /\ close_error -> "NotificationClose"
      [] OTHER -> "Complete"

\* One call of owner_guard.release() and its result for the callers.
SupervisorReleases ==
    /\ supervisor.stage = "release"
    /\ \E released \in IF ReleaseMayFail THEN BOOLEAN ELSE {TRUE} :
           /\ owner_released' = released
           /\ owned' = ~released
           /\ guard' = IF released THEN "disarmed" ELSE guard
           /\ progress' = [progress EXCEPT !.results = Append(@, ShutdownOutcome(released)),
                                           !.retryable_release = ~released,
                                           !.retry_requested = FALSE]
    /\ GoTo("answer")
    /\ UNCHANGED <<startup, shutting_down, fault, handle, admission, sched, op, client, woken, close_error, caller>>

\* Mutant: the guard stays where it is when the supervisor panics.
SupervisorPanicsHolding ==
    /\ StoreMayFail
    /\ supervisor.stage \in {"close", "release"}
    /\ progress' = [progress EXCEPT
                        !.results = IF Len(@) = progress.attempt THEN Append(@, "StoreUnavailable")
                                    ELSE [@ EXCEPT ![progress.attempt + 1] = "StoreUnavailable"],
                        !.retryable_release = FALSE,
                        !.retry_requested = FALSE]
    /\ GoTo("answer")
    /\ UNCHANGED <<flags, admission, sched, op, client, woken, close_error, caller>>

\* The store or the publisher panics: the guard is dropped, armed, and the
\* attempt under way is answered.
SupervisorPanics ==
    /\ StoreMayFail
    /\ supervisor.stage \in {"close", "release"}
    /\ DropGuard
    /\ progress' = [progress EXCEPT
                        !.results = IF Len(@) = progress.attempt THEN Append(@, "StoreUnavailable")
                                    ELSE [@ EXCEPT ![progress.attempt + 1] = "StoreUnavailable"],
                        !.retryable_release = FALSE,
                        !.retry_requested = FALSE]
    /\ GoTo("answer")
    /\ UNCHANGED <<startup, owned, shutting_down, fault, handle, owner_released, admission, sched, op,
                   client, woken, close_error, caller>>

\* shutdown_completed.notify_waiters().
SupervisorAnswers ==
    /\ supervisor.stage = "answer"
    /\ caller' = [c \in Callers |->
                     [caller[c] EXCEPT !.woken = @ \/ caller[c].pc \in {"check", "await"}]]
    /\ GoTo(IF progress.retryable_release THEN "retry" ELSE "finished")
    /\ UNCHANGED <<flags, admission, sched, op, client, woken, close_error, progress>>

-----------------------------------------------------------------------------
SchedulerStep ==
    \/ SchedulerCheck \/ SchedulerArm \/ SchedulerPick \/ SchedulerAdmit \/ SchedulerStart
    \/ SchedulerTurnedAway \/ SchedulerSpawn \/ SchedulerEndScan \/ SchedulerRescan
    \/ SchedulerDeadline \/ SchedulerWake
    \/ SchedulerLatch \/ SchedulerStop

OpStep(o) == OpLatch(o) \/ InFlightGuardDrop(o)

ClientStep(c) == ClientCheck(c) \/ ClientDone(c) \/ ClientLatch(c)

CallerStep(c) ==
    ShutdownNotify(c) \/ ShutdownJoin(c) \/ ShutdownRetry(c) \/ ShutdownWait(c) \/ ShutdownReturn(c)

StartupStep == StartupAcquires \/ StartupPrepares \/ StartupRecovers \/ StartupReleases

SupervisorStep ==
    \/ SupervisorWaits \/ SupervisorAwaitsRetry \/ SupervisorClaimsAdmission \/ SupervisorStopsScheduler
    \/ SupervisorClosesPublisher \/ SupervisorReleases \/ SupervisorAnswers

Next ==
    \/ StartupStep \/ StartupDropped \/ CleanupReleases
    \/ SchedulerStep \/ SchedulerFails
    \/ SupervisorStep \/ SupervisorPanics
    \/ PublicLifetimeDrop
    \/ \E o \in Ops : OpStep(o)
    \/ \E c \in Clients : ClientEnter(c) \/ ClientStep(c)
    \/ \E c \in Callers : ShutdownBegin(c) \/ CallerStep(c)

Spec == Init /\ [][Next]_vars

\* Spawned futures are polled, calls in progress and a drop that has begun go
\* on, the cleanup thread runs, handlers and hooks return.
Fairness ==
    /\ WF_vars(StartupStep)
    /\ WF_vars(CleanupReleases)
    /\ WF_vars(handle \in {"store", "notify"} /\ PublicLifetimeDrop)
    /\ WF_vars(SchedulerStep)
    /\ WF_vars(SupervisorStep)
    /\ \A o \in Ops : WF_vars(OpStep(o))
    /\ \A c \in Clients : WF_vars(ClientStep(c))
    /\ \A c \in Callers : WF_vars(CallerStep(c))

FairSpec == Spec /\ Fairness

-----------------------------------------------------------------------------
Outcomes == {"Complete", "StoreUnavailable", "NotificationClose"}

\* Every variable has the shape its Rust counterpart gives it.
TypeOK ==
    /\ shutting_down \in BOOLEAN /\ fault \in BOOLEAN /\ owner_released \in BOOLEAN
    /\ startup \in {"acquire", "prepare", "recover", "release", "running", "failed"}
    /\ owned \in BOOLEAN /\ guard \in {"none", "armed", "queued", "disarmed", "logged"}
    /\ handle \in {"none", "held", "store", "notify", "gone"}
    /\ readers \in SUBSET (Clients \cup {"scheduler"}) /\ writer \in {"no", "waiting"}
    /\ scheduler \in {"unspawned", "check", "arm", "scan", "picked", "admitted", "spawn", "deadline", "sleep",
                      "store", "notify", "block_store", "block_notify", "exit", "announce", "stopped"}
    /\ scheduler_stopped \in BOOLEAN
    /\ notified \in {"none", "waiting", "done"} /\ permit \in BOOLEAN
    /\ op \in [Ops -> {"none", "run", "store", "notify", "latched", "ended"}]
    /\ client \in [Clients -> {"idle", "admitted", "writing", "store", "notify"}]
    /\ supervisor \in [stage : {"unspawned", "request", "admission", "scheduler", "drain", "close", "release",
                                "answer", "retry", "finished"},
                       step : {"arm", "check", "await"}]
    /\ woken \in BOOLEAN /\ close_error \in BOOLEAN
    /\ progress \in [attempt : Nat, results : Seq(Outcomes), retryable_release : BOOLEAN,
                     retry_requested : BOOLEAN]
    /\ caller \in [Callers -> [pc : {"idle", "notify", "join", "retry", "arm", "check", "await"},
                               attempt : Nat, woken : BOOLEAN]]

\* A service that runs loses the ownership of the store, whoever releases it,
\* only when none of it can write any more: the scheduler has exited, no
\* attempt or hook is in flight and no caller of submit, cancel or resume is
\* past its check.
ReleasedWhenQuiet ==
    startup = "running" /\ ~owned =>
        /\ scheduler \in {"announce", "stopped"}
        /\ Active = {}
        /\ \A c \in Clients : client[c] \notin {"writing", "store", "notify"}

\* No attempt is started once shutdown has passed admission.
DispatchStops ==
    [][scheduler = "admitted" /\ scheduler' = "spawn"
       => supervisor.stage \in {"request", "admission"}]_vars

\* The results line up with the attempts callers joined: every earlier attempt
\* has been answered, and a requested release is the one under way.
ResultsAligned ==
    /\ Len(progress.results) \in {progress.attempt, progress.attempt + 1}
    /\ progress.retry_requested => Len(progress.results) = progress.attempt
    /\ supervisor.stage = "release" => Len(progress.results) = progress.attempt

\* Ok(()) means the owner is released and stays so.
CompleteIsFinal ==
    \A i \in DOMAIN progress.results :
        progress.results[i] = "Complete" => owner_released /\ i = Len(progress.results)

\* A caller of shutdown gets the result of the release it joined, and an Ok is
\* the last word.
AnswersExact == ResultsAligned /\ CompleteIsFinal

\* Every call of shutdown returns.
ShutdownReturns == \A c \in Callers : caller[c].pc # "idle" ~> caller[c].pc = "idle"

\* An acquired owner is given back once the start fails or is dropped or the
\* service stops: directly, by the guard or, after a panic or when the last
\* handle is gone, by the cleanup thread, whose one attempt may fail.  After a
\* failed release a service with a handle waits to be asked again.
OwnerGivenBack ==
    guard # "none" /\ (shutting_down \/ startup = "failed") ~>
        \/ guard \in {"disarmed", "logged"}
        \/ supervisor.stage = "retry" /\ handle = "held"
=============================================================================
