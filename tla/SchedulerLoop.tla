--------------------------- MODULE SchedulerLoop ---------------------------
(***************************************************************************)
(* How scheduler_loop sleeps and is woken: the tokio Notify it arms before *)
(* it looks for work, the pages it lists with the time it sampled, the     *)
(* resource-waiting task it lets newer ones bypass, the retry deadline it  *)
(* sleeps towards, and the submitters, cancellers and supervisors that     *)
(* notify it after their store writes.                                     *)
(*                                                                         *)
(* The service is up and every task is admissible: faults, Blocked tasks   *)
(* and the compare-and-set writes are the subject of TaskService.  The     *)
(* engine's ledger is abstracted to the sets of leases it grants together. *)
(***************************************************************************)
EXTENDS Naturals, FiniteSets

CONSTANTS
    TaskIds,         \* numeric ids, in acceptance order
    MaxRunning,      \* max_running_tasks
    PageSize,        \* scan_page_size
    Fits,            \* the sets of tasks whose leases can be held together
    MaxBypasses,     \* max_resource_bypasses
    MaxAttempts,     \* max_attempts
    RetryDelay,      \* the retry policy's delay, in clock ticks
    MaxTime,         \* bound: the clock stops here
    CallersMayDrop   \* a caller's future may be dropped before it notifies

ASSUME LoopAssumption ==
    /\ TaskIds \subseteq Nat \ {0} /\ IsFiniteSet(TaskIds)
    /\ {MaxRunning, PageSize, MaxBypasses, MaxAttempts} \subseteq Nat \ {0}
    /\ \A held \in Fits : \A fewer \in SUBSET held : fewer \in Fits
    /\ \A id \in TaskIds : {id} \in Fits
    /\ RetryDelay \in Nat
    /\ MaxTime \in Nat \ {0}
    /\ CallersMayDrop \in BOOLEAN

VARIABLES
    now,        \* the wall clock
    task,       \* the store: state, attempt and retry_not_before_ms (0: none)
    caller,     \* a submit or cancel of the task is about to notify
    lost,       \* history: a caller was dropped instead since the future was armed
    sup,        \* the run_one supervisor of the task's attempt
    ended,      \* supervisors with only their InFlightGuard left to drop
    pc,         \* scheduler_loop
    notified,   \* its Notified future
    permit,     \* the permit scheduler_changed has stored
    scan_now,   \* the time sampled for this scan
    after,      \* the page cursor: the ids at or before it
    page,       \* listed and not yet visited
    more,       \* the page has a next cursor
    anchor,     \* fairness: the oldest task waiting for resources (0: none)
    bypasses,   \* fairness: newer tasks started since
    saw_anchor, \* this scan has met the anchor
    retry_at    \* the deadline the loop sleeps towards (0: none)

vars == <<now, task, caller, lost, sup, ended, pc, notified, permit, scan_now, after, page, more,
          anchor, bypasses, saw_anchor, retry_at>>

fairness == <<anchor, bypasses>>
scan == <<scan_now, after, page, more, anchor, bypasses, saw_anchor>>

-----------------------------------------------------------------------------
(***************************************************************************)
(* tokio::sync::Notify with its single waiter.                             *)
(***************************************************************************)

\* notify_one completes a registered future or leaves a permit.
NotifyOne ==
    IF notified = "waiting"
    THEN notified' = "done" /\ UNCHANGED permit
    ELSE permit' = TRUE /\ UNCHANGED notified

\* notified() and enable(): a stored permit completes the future at once.
Enable ==
    /\ notified' = IF permit THEN "ready" ELSE "waiting"
    /\ permit' = FALSE

\* A future that was notified and never polled passes the notification on.
DropNotified ==
    /\ notified' = "none"
    /\ permit' = (permit \/ notified = "done")

-----------------------------------------------------------------------------
Running == {id \in TaskIds : sup[id] # "none"}
Leases == {id \in TaskIds : sup[id] = "handler"}

InFlight == Cardinality(Running) + ended

\* try_prepare_typed: a lease is held while the handler runs.
Available(id) == Leases \cup {id} \in Fits

\* Queued without a retry deadline.
Fresh(id) == task[id].state = "Queued" /\ task[id].due = 0

Init ==
    /\ now = 1
    /\ task = [id \in TaskIds |-> [state |-> "Unborn", attempt |-> 0, due |-> 0]]
    /\ caller = [id \in TaskIds |-> "idle"]
    /\ lost = FALSE
    /\ sup = [id \in TaskIds |-> "none"]
    /\ ended = 0
    /\ pc = "arm"
    /\ notified = "none"
    /\ permit = TRUE            \* recover_unfinished ends with notify_one
    /\ scan_now = 0
    /\ after = {}
    /\ page = {}
    /\ more = FALSE
    /\ anchor = 0
    /\ bypasses = 0
    /\ saw_anchor = TRUE
    /\ retry_at = 0

Tick ==
    /\ now < MaxTime
    /\ now' = now + 1
    /\ UNCHANGED <<task, caller, lost, sup, ended, pc, notified, permit, scan, retry_at>>

-----------------------------------------------------------------------------
(***************************************************************************)
(* Callers: the store write, then scheduler_changed.notify_one().          *)
(***************************************************************************)
Submit(id) ==
    /\ task[id].state = "Unborn"
    /\ task' = [task EXCEPT ![id] = [state |-> "Queued", attempt |-> 0, due |-> 0]]
    /\ caller' = [caller EXCEPT ![id] = "notify"]
    /\ UNCHANGED <<now, lost, sup, ended, pc, notified, permit, scan, retry_at>>

CancelQueued(id) ==
    /\ task[id].state = "Queued"
    /\ caller[id] = "idle"
    /\ task' = [task EXCEPT ![id] = [state |-> "Done", attempt |-> @.attempt, due |-> 0]]
    /\ caller' = [caller EXCEPT ![id] = "notify"]
    /\ UNCHANGED <<now, lost, sup, ended, pc, notified, permit, scan, retry_at>>

CallerNotify(id) ==
    /\ caller[id] = "notify"
    /\ caller' = [caller EXCEPT ![id] = "idle"]
    /\ NotifyOne
    /\ UNCHANGED <<now, task, lost, sup, ended, pc, scan, retry_at>>

\* The future is dropped while a SQLite write that commits is being awaited.
CallerDropped(id) ==
    /\ CallersMayDrop
    /\ caller[id] = "notify"
    /\ caller' = [caller EXCEPT ![id] = "idle"]
    /\ lost' = TRUE
    /\ UNCHANGED <<now, task, sup, ended, pc, notified, permit, scan, retry_at>>

-----------------------------------------------------------------------------
(***************************************************************************)
(* Supervisors.  run_one drops the lease when the handler returns, finish  *)
(* persists the outcome, and the InFlightGuard is dropped last.            *)
(***************************************************************************)
HandlerReturns(id) ==
    /\ sup[id] = "handler"
    /\ sup' = [sup EXCEPT ![id] = "finish"]
    /\ UNCHANGED <<now, task, caller, lost, ended, pc, notified, permit, scan, retry_at>>

Finish(id) ==
    /\ sup[id] = "finish"
    /\ \/ task' = [task EXCEPT ![id] = [state |-> "Done", attempt |-> @.attempt, due |-> 0]]
       \/ /\ task[id].attempt < MaxAttempts
          /\ now + RetryDelay <= MaxTime
          /\ task' = [task EXCEPT ![id] =
                          [state |-> "Queued", attempt |-> @.attempt, due |-> now + RetryDelay]]
    /\ sup' = [sup EXCEPT ![id] = "none"]
    /\ ended' = ended + 1
    /\ UNCHANGED <<now, caller, lost, pc, notified, permit, scan, retry_at>>

\* Mutant: an ended operation does not wake the scheduler.
InFlightGuardDropSilent ==
    /\ ended > 0
    /\ ended' = ended - 1
    /\ UNCHANGED <<now, task, caller, lost, sup, pc, notified, permit, scan, retry_at>>

InFlightGuardDrop ==
    /\ ended > 0
    /\ ended' = ended - 1
    /\ NotifyOne
    /\ UNCHANGED <<now, task, caller, lost, sup, pc, scan, retry_at>>

-----------------------------------------------------------------------------
(***************************************************************************)
(* scheduler_loop and scan_ready_pages.                                    *)
(***************************************************************************)
LoopStep(from) ==
    /\ pc = from
    /\ UNCHANGED <<now, caller, lost>>

LoopArm ==
    /\ pc = "arm"
    /\ Enable
    /\ lost' = FALSE
    /\ pc' = "slots"
    /\ UNCHANGED <<now, caller, task, sup, ended, scan, retry_at>>

LoopSlots ==
    /\ LoopStep("slots")
    /\ IF InFlight < MaxRunning
       THEN pc' = "list" /\ scan_now' = now /\ after' = {} /\ saw_anchor' = (anchor = 0)
       ELSE pc' = "deadline" /\ UNCHANGED <<scan_now, after, saw_anchor>>
    /\ UNCHANGED <<task, sup, ended, notified, permit, page, more, fairness, retry_at>>

\* list_ready_queued after the cursor.
ReadyAfter(cursor) ==
    {id \in TaskIds \ cursor : task[id].state = "Queued" /\ task[id].due <= scan_now}

\* The first PageSize of them.
PageOf(ids) == {id \in ids : Cardinality({other \in ids : other < id}) < PageSize}

IsMin(id, ids) == id \in ids /\ \A other \in ids : id <= other

LoopListPage ==
    LET ready == ReadyAfter(after)
    IN  /\ LoopStep("list")
        /\ IF InFlight >= MaxRunning
           THEN pc' = "deadline" /\ UNCHANGED <<page, after, more>>
           ELSE /\ pc' = "visit"
                /\ page' = PageOf(ready)
                /\ more' = (PageOf(ready) # ready)
                /\ after' = after \cup {id \in TaskIds : \E last \in PageOf(ready) : id <= last}
        /\ UNCHANGED <<task, sup, ended, notified, permit, scan_now, fairness, saw_anchor, retry_at>>

\* No lease: the oldest task refused becomes the anchor.
Refused(id) ==
    /\ ~Available(id)
    /\ anchor' = IF anchor = 0 THEN id ELSE anchor
    /\ saw_anchor' = (saw_anchor \/ anchor' = id)
    /\ UNCHANGED <<task, sup, bypasses>>

\* The lease is given back: the anchor has been bypassed often enough.
HeldBack(id) == anchor # 0 /\ bypasses >= MaxBypasses /\ id > anchor

PassedOver(id) ==
    /\ Available(id)
    /\ HeldBack(id) \/ task[id].state # "Queued"    \* or start_encoded conflicts
    /\ saw_anchor' = (saw_anchor \/ anchor = id)
    /\ UNCHANGED <<task, sup, fairness>>

\* start_encoded commits and run_one is spawned.
Started(id) ==
    /\ Available(id)
    /\ ~HeldBack(id)
    /\ task[id].state = "Queued"
    /\ task' = [task EXCEPT ![id] = [state |-> "Running", attempt |-> @.attempt + 1, due |-> 0]]
    /\ sup' = [sup EXCEPT ![id] = "handler"]
    /\ anchor' = IF anchor = id THEN 0 ELSE anchor
    /\ bypasses' = CASE anchor = id -> 0
                     [] anchor # 0 /\ id > anchor -> bypasses + 1
                     [] OTHER -> bypasses
    /\ saw_anchor' = (saw_anchor \/ anchor = id)

\* The next listed task.
LoopVisit ==
    /\ LoopStep("visit")
    /\ InFlight < MaxRunning
    /\ \E id \in TaskIds :
           /\ IsMin(id, page)
           /\ page' = page \ {id}
           /\ Refused(id) \/ PassedOver(id) \/ Started(id)
    /\ UNCHANGED <<ended, pc, notified, permit, scan_now, after, more, retry_at>>

\* Every record is visited, or the slots ran out before that.
LoopLeavePage ==
    /\ LoopStep("visit")
    /\ page = {} \/ InFlight >= MaxRunning
    /\ page' = {}
    /\ pc' = "endpage"
    /\ UNCHANGED <<task, sup, ended, notified, permit, scan_now, after, more, fairness, saw_anchor, retry_at>>

\* The slots are counted again before the next page.
LoopEndPage ==
    /\ LoopStep("endpage")
    /\ \/ InFlight >= MaxRunning /\ pc' = "deadline"
       \/ InFlight < MaxRunning /\ more /\ pc' = "list"
       \/ InFlight < MaxRunning /\ ~more /\ saw_anchor /\ pc' = "deadline"
    /\ UNCHANGED <<task, sup, ended, notified, permit, scan, retry_at>>

\* Mutant: a complete scan that misses the anchor keeps waiting for it.
LoopAnchorGoneKept ==
    /\ LoopStep("endpage")
    /\ InFlight < MaxRunning /\ ~more /\ ~saw_anchor
    /\ pc' = "deadline"
    /\ UNCHANGED <<task, sup, ended, notified, permit, scan, retry_at>>

\* A complete scan did not meet the anchor: forget it and scan again at once.
LoopAnchorGone ==
    /\ LoopStep("endpage")
    /\ InFlight < MaxRunning /\ ~more /\ ~saw_anchor
    /\ anchor' = 0 /\ bypasses' = 0
    /\ DropNotified
    /\ pc' = "arm"
    /\ UNCHANGED <<task, sup, ended, scan_now, after, page, more, saw_anchor, retry_at>>

\* next_retry_deadline with the time of this moment.
LoopDeadline ==
    LET queued == {id \in TaskIds : task[id].state = "Queued"}
        future == {due \in {task[id].due : id \in queued} : due > now}
    IN  /\ LoopStep("deadline")
        /\ \/ future = {} /\ retry_at' = 0
           \/ \E due \in future : IsMin(due, future) /\ retry_at' = due
        /\ pc' = "sleep"
        /\ UNCHANGED <<task, sup, ended, notified, permit, scan>>

\* The notification arrives, or the timeout towards the deadline elapses.
LoopWake ==
    /\ LoopStep("sleep")
    /\ notified \in {"ready", "done"} \/ (retry_at # 0 /\ now >= retry_at)
    /\ notified' = "none"
    /\ pc' = "arm"
    /\ retry_at' = 0
    /\ UNCHANGED <<task, sup, ended, permit, scan>>

-----------------------------------------------------------------------------
CallerStep(id) == Submit(id) \/ CancelQueued(id) \/ CallerNotify(id) \/ CallerDropped(id)

SupervisorStep(id) == HandlerReturns(id) \/ Finish(id)

SchedulerStep ==
    \/ LoopArm \/ LoopSlots \/ LoopListPage \/ LoopVisit
    \/ LoopLeavePage \/ LoopEndPage \/ LoopAnchorGone \/ LoopDeadline \/ LoopWake

Next ==
    \/ Tick
    \/ SchedulerStep
    \/ InFlightGuardDrop
    \/ \E id \in TaskIds : CallerStep(id) \/ SupervisorStep(id)

Spec == Init /\ [][Next]_vars

\* Spawned futures are polled, callers that are not dropped go on, handlers
\* return and time passes.
Fairness ==
    /\ WF_vars(Tick)
    /\ WF_vars(SchedulerStep)
    /\ WF_vars(InFlightGuardDrop)
    /\ \A id \in TaskIds : WF_vars(CallerNotify(id)) /\ WF_vars(SupervisorStep(id))

FairSpec == Spec /\ Fairness

-----------------------------------------------------------------------------
TaskRecords ==
    [state : {"Unborn", "Queued", "Running", "Done"}, attempt : Nat, due : Nat]

\* Every variable has the shape its Rust counterpart gives it.
TypeOK ==
    /\ now \in Nat
    /\ task \in [TaskIds -> TaskRecords]
    /\ caller \in [TaskIds -> {"idle", "notify"}]
    /\ lost \in BOOLEAN
    /\ sup \in [TaskIds -> {"none", "handler", "finish"}]
    /\ ended \in Nat
    /\ pc \in {"arm", "slots", "list", "visit", "endpage", "deadline", "sleep"}
    /\ notified \in {"none", "waiting", "ready", "done"}
    /\ permit \in BOOLEAN
    /\ scan_now \in Nat
    /\ after \in SUBSET TaskIds
    /\ page \in SUBSET TaskIds
    /\ more \in BOOLEAN
    /\ anchor \in TaskIds \cup {0}
    /\ bypasses \in Nat
    /\ saw_anchor \in BOOLEAN
    /\ retry_at \in Nat

\* Someone who has not notified the scheduler yet is about to.
NotifierPending ==
    ended > 0 \/ \E id \in TaskIds : caller[id] = "notify" \/ sup[id] = "finish"

\* A queued task that could run: it has a slot and a lease, and no task that
\* is still queued has been bypassed so often that this one must wait.
Startable(id) ==
    /\ Fresh(id)
    /\ InFlight < MaxRunning
    /\ Available(id)
    /\ ~(HeldBack(id) /\ task[anchor].state = "Queued")

\* The scheduler never sleeps on work it could start: if it waits for a
\* notification while a task without a deadline could run, somebody is about
\* to notify, or was dropped after its store write and never will.  This is
\* why the future is armed before the slots are counted and the pages are
\* listed, why leases are returned before the InFlightGuard notifies, and why
\* a scan that misses the anchor starts over.
SleepJustified ==
    pc = "sleep" /\ notified = "waiting" /\ (\E id \in TaskIds : Startable(id))
    => NotifierPending \/ lost

\* The anchor is forgotten only when it is no longer queued.  The code does not
\* have this property: see "Observations" in the README.
AnchorKept ==
    [][anchor # 0 /\ anchor' # anchor => task'[anchor].state # "Queued"]_vars

\* Under fairness, and with no caller dropped half way, every submitted task is
\* started or cancelled.
FreshDispatched == \A id \in TaskIds : Fresh(id) ~> ~Fresh(id)

\* Under fairness every queued retry is started, once its deadline passes, or
\* cancelled.  The code does not have this property either.
RetryDispatched ==
    \A id \in TaskIds : task[id].state = "Queued" /\ task[id].due # 0 ~> task[id].state # "Queued"
=============================================================================
