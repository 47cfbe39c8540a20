--------------------------- MODULE TaskLifecycle ---------------------------
(***************************************************************************)
(* What the service promises about one task, whoever acts on it and in     *)
(* whatever order: the abstract specification that TaskService implements. *)
(* There are no versions, snapshots, supervisors or callers here; a task   *)
(* has a state, the number of the attempt last started, and the caller's   *)
(* intent to cancel the running attempt.                                   *)
(***************************************************************************)
EXTENDS Naturals

CONSTANT TaskIds

VARIABLES state, attempts, intent

lvars == <<state, attempts, intent>>

Terminal == {"Succeeded", "Failed", "Panicked", "Cancelled"}

Init ==
    /\ state = [id \in TaskIds |-> "Unborn"]
    /\ attempts = [id \in TaskIds |-> 0]
    /\ intent = [id \in TaskIds |-> FALSE]

Move(id, from, to) ==
    /\ state[id] \in from
    /\ state' = [state EXCEPT ![id] = to]

Accept(id) == Move(id, {"Unborn"}, "Queued") /\ UNCHANGED <<attempts, intent>>

\* An attempt begins only for a task nobody wants cancelled.
Begin(id) ==
    /\ ~intent[id]
    /\ Move(id, {"Queued"}, "Running")
    /\ attempts' = [attempts EXCEPT ![id] = @ + 1]
    /\ UNCHANGED intent

\* The intent to cancel a running attempt is recorded, and stays recorded.
RequestCancel(id) ==
    /\ state[id] = "Running"
    /\ intent' = [intent EXCEPT ![id] = TRUE]
    /\ UNCHANGED <<state, attempts>>

Conclude(id) ==
    /\ \E outcome \in Terminal : Move(id, {"Running"}, outcome)
    /\ UNCHANGED <<attempts, intent>>

\* A failed attempt is retried, or an interrupted one repeated after a
\* restart; with a pending intent the latter is parked instead.
Requeue(id) ==
    /\ ~intent[id]
    /\ Move(id, {"Running", "Blocked"}, "Queued")
    /\ UNCHANGED <<attempts, intent>>

Park(id) ==
    /\ Move(id, IF intent[id] THEN {"Running"} ELSE {"Queued"}, "Blocked")
    /\ UNCHANGED <<attempts, intent>>

CancelWaiting(id) ==
    /\ Move(id, {"Queued", "Blocked"}, "Cancelled")
    /\ intent' = [intent EXCEPT ![id] = FALSE]
    /\ UNCHANGED attempts

Forget(id) == Move(id, Terminal, "Removed") /\ UNCHANGED <<attempts, intent>>

TaskStep(id) ==
    \/ Accept(id) \/ Begin(id) \/ RequestCancel(id) \/ Conclude(id) \/ Requeue(id)
    \/ Park(id) \/ CancelWaiting(id) \/ Forget(id)

Next == \E id \in TaskIds : TaskStep(id)

Spec == Init /\ [][Next]_lvars
=============================================================================
