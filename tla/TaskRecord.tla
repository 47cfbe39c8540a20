----------------------------- MODULE TaskRecord -----------------------------
(***************************************************************************)
(* The lifecycle columns of a stored task and the two compare-and-set      *)
(* writes every store offers on them: start_encoded and                    *)
(* transition_encoded.  Both stores (memory and SQLite) evaluate these     *)
(* conditions under one lock or in one transaction, so a write is a single *)
(* step for every module that uses this one.                               *)
(*                                                                         *)
(* A task record has the fields                                            *)
(*   state, state_version, attempt, cancel_requested, cancel_error, retry  *)
(* where cancel_error only says whether a diagnostic is present and retry  *)
(* abstracts retry_not_before_ms: "none", "pending" (a deadline still in   *)
(* the future) or "due" (a deadline that has passed).                      *)
(***************************************************************************)
EXTENDS Naturals

\* TaskState, without the diagnostics its variants carry.
TerminalStates == {"Succeeded", "Failed", "Panicked", "Cancelled"}

TaskStates == {"Queued", "Running", "Blocked"} \cup TerminalStates

IsTerminal(state) == state \in TerminalStates

\* TaskState::allows_transition_to
AllowsTransitionTo(state, next) ==
    \/ state = "Queued"  /\ next \in {"Running", "Blocked", "Cancelled"}
    \/ state = "Running" /\ next \in TaskStates
    \/ state = "Blocked" /\ next \in {"Queued", "Cancelled"}

\* A record that is not in the store: never accepted, or evicted or pruned.
AbsentStates == {"Unborn", "Removed"}

Retained(rec) == rec.state \in TaskStates

RetryStates == {"none", "pending", "due"}

\* The summary accept_encoded stores for a new task.
Accepted ==
    [state |-> "Queued", state_version |-> 0, attempt |-> 0,
     cancel_requested |-> FALSE, cancel_error |-> FALSE, retry |-> "none"]

Unborn == [Accepted EXCEPT !.state = "Unborn"]
Absent == [Accepted EXCEPT !.state = "Removed"]

-----------------------------------------------------------------------------
(***************************************************************************)
(* start_encoded: the answer, and the record after an "Ok".                *)
(***************************************************************************)
StartResult(rec, expected_version) ==
    IF ~Retained(rec) THEN "NotFound"
    ELSE IF rec.state_version # expected_version \/ rec.state # "Queued" THEN "Conflict"
    ELSE "Ok"

Started(rec) ==
    [state |-> "Running",
     state_version |-> rec.state_version + 1,
     attempt |-> rec.attempt + 1,
     cancel_requested |-> rec.cancel_requested,
     cancel_error |-> rec.cancel_error,
     retry |-> "none"]

(***************************************************************************)
(* transition_encoded.  A command has the fields state_version and attempt *)
(* (what the caller expects), state, cancel_requested, cancel_error, retry *)
(* and diagnostics_valid (validate_diagnostics on the new state).          *)
(***************************************************************************)
TerminalCancelAnnotation(rec, cmd) ==
    /\ IsTerminal(rec.state)
    /\ rec.state = cmd.state
    /\ cmd.cancel_requested
    /\ cmd.cancel_error

\* Mutant: the expected revision and attempt are not compared.
TransitionResultBlind(rec, cmd) ==
    IF ~Retained(rec) THEN "NotFound"
    ELSE IF AllowsTransitionTo(rec.state, cmd.state) THEN "Ok"
    ELSE "Conflict"

TransitionResult(rec, cmd) ==
    IF ~cmd.diagnostics_valid THEN "InvalidRequest"
    ELSE IF ~Retained(rec) THEN "NotFound"
    ELSE IF \/ rec.state_version # cmd.state_version
            \/ rec.attempt # cmd.attempt
            \/ /\ ~AllowsTransitionTo(rec.state, cmd.state)
               /\ ~TerminalCancelAnnotation(rec, cmd)
         THEN "Conflict"
    ELSE IF cmd.retry # "none" /\ cmd.state # "Queued" THEN "InvalidRequest"
    ELSE "Ok"

\* Mutant: updating the flags of a running task does not make a revision.
TransitionedSameVersion(rec, cmd) ==
    [state |-> cmd.state,
     state_version |-> IF cmd.state = rec.state THEN rec.state_version
                       ELSE rec.state_version + 1,
     attempt |-> rec.attempt,
     cancel_requested |-> cmd.cancel_requested,
     cancel_error |-> cmd.cancel_error,
     retry |-> cmd.retry]

Transitioned(rec, cmd) ==
    [state |-> cmd.state,
     state_version |-> rec.state_version + 1,
     attempt |-> rec.attempt,
     cancel_requested |-> cmd.cancel_requested,
     cancel_error |-> cmd.cancel_error,
     retry |-> cmd.retry]
=============================================================================
