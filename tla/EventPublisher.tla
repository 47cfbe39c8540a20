-------------------------- MODULE EventPublisher --------------------------
(***************************************************************************)
(* The notification outbox and its publisher: lifecycle writes leave event *)
(* rows in the store, one worker publishes them in order and deletes them, *)
(* operators have a failing head archived, and close drains the worker up  *)
(* to a deadline and then aborts it.  Rows survive a crash, the rest does  *)
(* not.  A store call of the worker is one step: its closure finishes even *)
(* when the worker is aborted meanwhile.                                   *)
(***************************************************************************)
EXTENDS Naturals, FiniteSets, Functions, Sequences

CONSTANTS
    Tasks,           \* task ids
    Clock,           \* bound: what the wall clock may show, in any order
    VersionBound,    \* bound: revisions, of all tasks
    PageLimit,       \* rows the worker lists at once
    ControlCapacity, \* commands the control channel holds
    CommandBound,    \* bound: quarantine commands in all
    RestartBound     \* bound: crashes and restarts

ASSUME PublisherAssumption ==
    /\ Tasks \subseteq Nat /\ IsFiniteSet(Tasks)
    /\ Clock \subseteq Nat
    /\ PageLimit \in Nat \ {0}
    /\ ControlCapacity \in Nat \ {0}
    /\ {VersionBound, CommandBound, RestartBound} \subseteq Nat

VARIABLES
    version,    \* the last revision of each task
    outbox,     \* task_event_outbox
    archive,    \* task_event_outbox_quarantine
    admitted,   \* events the bus has accepted at least once
    worker,     \* the publisher task: where it is, its page, its failure
    signal,     \* stored permits of the two Notify: changed, close_changed
    controls,   \* the bounded channel of quarantine commands
    closing,
    closer,     \* the call of close: "none", "waiting", "drained", "expired"
    commands,   \* quarantine commands sent so far
    restarts

durable == <<version, outbox, archive, admitted>>
vars == <<version, outbox, archive, admitted, worker, signal, controls, closing, closer,
          commands, restarts>>

-----------------------------------------------------------------------------
NoEvent == [task |-> 0, version |-> 0, created |-> 0]

\* ORDER BY created_at_ms, task_id, state_version
RowBefore(a, b) ==
    \/ a.created < b.created
    \/ a.created = b.created /\ a.task < b.task
    \/ a.created = b.created /\ a.task = b.task /\ a.version < b.version

\* An event without the time its row was made.
Event(row) == <<row.task, row.version>>
Events(rows) == {Event(r) : r \in rows}

Oldest(rows) == CHOOSE r \in rows : \A other \in rows \ {r} : RowBefore(r, other)

\* list_outbox: the first rows.  A page is a set, read in the order of the query.
ListOutbox(limit) ==
    {row \in outbox : Cardinality({other \in outbox : RowBefore(other, row)}) < limit}

\* Mutant: the row has the time of the wall clock.
CreatedAtClock(rows, now) == now

\* insert_event_outbox: the clock, but never before a row that is still there.
CreatedAt(rows, now) ==
    CHOOSE at \in {now} \cup {r.created : r \in rows} :
        \A other \in {now} \cup {r.created : r \in rows} : other <= at

NewWorker == [pc |-> "top", page |-> {}, failure |-> NoEvent, quarantined |-> FALSE]

Init ==
    /\ version = [t \in Tasks |-> 0]
    /\ outbox = {} /\ archive = {} /\ admitted = {}
    /\ worker = NewWorker
    /\ signal = [changed |-> FALSE, close_changed |-> FALSE]
    /\ controls = <<>>
    /\ closing = FALSE
    /\ closer = "none"
    /\ commands = 0
    /\ restarts = 0

-----------------------------------------------------------------------------
(***************************************************************************)
(* The service.  It closes its publisher after its last write, and the     *)
(* caller of a write may be dropped between the commit and notify.         *)
(***************************************************************************)
Commit(t, now, notified) ==
    /\ ~closing
    /\ FoldFunction(+, 0, version) < VersionBound
    /\ version' = [version EXCEPT ![t] = @ + 1]
    /\ outbox' = outbox \cup
           {[task |-> t, version |-> version[t] + 1, created |-> CreatedAt(outbox, now)]}
    /\ signal' = [signal EXCEPT !.changed = @ \/ notified]
    /\ UNCHANGED <<archive, admitted, worker, controls, closing, closer, commands, restarts>>

\* quarantine_failed, for a row the operator has seen; the reply is not
\* waited for.
QuarantineFailed(row) ==
    /\ commands < CommandBound
    /\ ~closing
    /\ Len(controls) < ControlCapacity
    /\ controls' = Append(controls, row)
    /\ commands' = commands + 1
    /\ UNCHANGED <<durable, worker, signal, closing, closer, restarts>>

\* close, up to where it waits for the worker.
Close ==
    /\ closer = "none"
    /\ closing' = TRUE
    /\ signal' = [changed |-> TRUE, close_changed |-> signal.close_changed \/ ~closing]
    /\ closer' = "waiting"
    /\ UNCHANGED <<durable, worker, controls, commands, restarts>>

\* The handle of the worker is gone: close answers Ok.
CloseAgain ==
    /\ closer \in {"drained", "expired"}
    /\ closer' = "drained"
    /\ UNCHANGED <<durable, worker, signal, controls, closing, commands, restarts>>

\* The caller of close is dropped: the worker handle stays for a later call.
CloseDropped ==
    /\ closer = "waiting"
    /\ closer' = "none"
    /\ UNCHANGED <<durable, worker, signal, controls, closing, commands, restarts>>

CloseJoins ==
    /\ closer = "waiting"
    /\ worker.pc = "done"
    /\ closer' = "drained"
    /\ UNCHANGED <<durable, worker, signal, controls, closing, commands, restarts>>

\* The deadline: the worker is aborted where it waits.  A deletion that was
\* handed to the store is still carried out, one that waited for its turn is
\* not.
CloseExpires ==
    /\ closer = "waiting"
    /\ worker.pc # "done"
    /\ worker' = [worker EXCEPT !.pc = "aborted"]
    /\ closer' = "expired"
    /\ controls' = <<>>
    /\ \/ UNCHANGED outbox
       \/ worker.pc = "mark" /\ outbox' = outbox \ {Oldest(worker.page)}
    /\ UNCHANGED <<version, archive, admitted, signal, closing, commands, restarts>>

\* A crash, or a service dropped or shut down, and the next one.
Restart ==
    /\ restarts < RestartBound
    /\ restarts' = restarts + 1
    /\ worker' = NewWorker
    /\ signal' = [changed |-> FALSE, close_changed |-> FALSE]
    /\ controls' = <<>>
    /\ closing' = FALSE
    /\ closer' = "none"
    /\ UNCHANGED <<durable, commands>>

-----------------------------------------------------------------------------
(***************************************************************************)
(* PublisherState.                                                         *)
(***************************************************************************)
Same(a, b) == a.task = b.task /\ a.version = b.version

\* Mutant: the row the command names is archived wherever it is.
QuarantinesAnywhere(command) ==
    {row \in outbox : Same(row, command)}

\* process_control and quarantine_outbox_head: the row archived, if any.
Quarantines(command) ==
    {row \in outbox : /\ worker.failure # NoEvent /\ Same(worker.failure, command)
                      /\ row = Oldest(outbox) /\ Same(row, command)}

\* One turn of process_queued_controls, wherever the worker calls it, and the
\* control branch of its two select!.
ProcessControl(next, unlucky) ==
    LET gone == Quarantines(Head(controls))
    IN  /\ controls # <<>>
        /\ controls' = Tail(controls)
        /\ outbox' = outbox \ gone
        /\ archive' = archive \cup Events(gone)
        /\ worker' = IF gone = {} THEN [worker EXCEPT !.pc = unlucky]
                     ELSE [worker EXCEPT !.pc = next, !.quarantined = TRUE, !.failure = NoEvent]
        /\ UNCHANGED <<version, admitted, signal, closing, closer, commands, restarts>>

Draining == {"top", "entry", "failed", "exit"}

ProcessQueuedControls ==
    /\ worker.pc \in Draining
    /\ ProcessControl(worker.pc, worker.pc)

Goto(w) ==
    /\ worker' = w
    /\ UNCHANGED <<durable, signal, controls, closing, closer, commands, restarts>>

At(pc) == [worker EXCEPT !.pc = pc, !.quarantined = FALSE]

\* The top of the loop: list_event_outbox(128), which may fail.
List ==
    /\ worker.pc = "top"
    /\ controls = <<>>
    /\ \/ LET page == ListOutbox(PageLimit)
          IN  Goto([At(IF page = {} THEN "empty" ELSE "page") EXCEPT !.page = page])
       \/ Goto([At("backoff") EXCEPT !.page = {}])

Empty ==
    /\ worker.pc = "empty"
    /\ Goto(At(IF closing THEN "exit" ELSE "idle"))

\* Mutant: the worker returns without another look at the channel.
ExitAtOnce ==
    /\ worker.pc = "exit"
    /\ Goto(At("done"))

\* A closing worker with an empty page answers the commands still queued.
Exit ==
    /\ worker.pc = "exit"
    /\ controls = <<>>
    /\ Goto(At(IF worker.quarantined THEN "top" ELSE "done"))

\* Mutant: nothing but a notification ends the wait.
IdleUntilNotified ==
    /\ worker.pc = "idle"
    /\ signal.changed
    /\ worker' = At("top")
    /\ signal' = [signal EXCEPT !.changed = FALSE]
    /\ UNCHANGED <<durable, controls, closing, closer, commands, restarts>>

\* select! of a notification, a command and the poll every second.
Idle ==
    /\ worker.pc = "idle"
    /\ \/ /\ signal.changed
          /\ worker' = At("top")
          /\ signal' = [signal EXCEPT !.changed = FALSE]
          /\ UNCHANGED <<durable, controls, closing, closer, commands, restarts>>
       \/ ProcessControl("top", "top")
       \/ Goto(At("top"))

\* The for loop: clear_failure_if_head_changed, then the queued commands.
TakeEntry ==
    /\ worker.pc = "page"
    /\ Goto([At("entry") EXCEPT
                !.failure = IF Same(@, Oldest(worker.page)) THEN @ ELSE NoEvent])

Entry ==
    /\ worker.pc = "entry"
    /\ controls = <<>>
    /\ Goto(At(IF worker.quarantined THEN "top" ELSE "publish"))

Fail == Goto([At("failed") EXCEPT !.failure = Oldest(worker.page)])

\* Mutant: the row is deleted first.
PublishAdmittedLate ==
    /\ worker.pc = "publish"
    /\ outbox' = outbox \ {Oldest(worker.page)}
    /\ worker' = At("mark")
    /\ UNCHANGED <<version, archive, admitted, signal, controls, closing, closer, commands, restarts>>

\* publish_checked, accepted by the provider.
PublishAdmitted ==
    /\ worker.pc = "publish"
    /\ admitted' = admitted \cup {Event(Oldest(worker.page))}
    /\ worker' = At("mark")
    /\ UNCHANGED <<version, outbox, archive, signal, controls, closing, closer, commands, restarts>>

\* Decoding the row or publishing it fails.
PublishFails ==
    /\ worker.pc = "publish"
    /\ Fail

\* mark_event_published, clear_failure_for and the next entry.
MarkPublished ==
    /\ worker.pc = "mark"
    /\ outbox' = outbox \ {Oldest(worker.page)}
    /\ worker' = [At(IF Cardinality(worker.page) = 1 THEN "top" ELSE "page") EXCEPT
                     !.page = @ \ {Oldest(@)},
                     !.failure = IF Same(@, Oldest(worker.page)) THEN NoEvent ELSE @]
    /\ UNCHANGED <<version, archive, admitted, signal, controls, closing, closer, commands, restarts>>

MarkFails ==
    /\ worker.pc = "mark"
    /\ Fail

Failed ==
    /\ worker.pc = "failed"
    /\ controls = <<>>
    /\ Goto(At(IF worker.quarantined THEN "top" ELSE "backoff"))

\* wait_after_failure: close, a command that archives the head, or the delay.
Backoff ==
    /\ worker.pc = "backoff"
    /\ \/ /\ signal.close_changed
          /\ worker' = At("top")
          /\ signal' = [signal EXCEPT !.close_changed = FALSE]
          /\ UNCHANGED <<durable, controls, closing, closer, commands, restarts>>
       \/ ProcessControl("top", "backoff")
       \/ Goto(At("top"))

Worker ==
    \/ ProcessQueuedControls \/ List \/ Empty \/ Exit \/ Idle \/ TakeEntry \/ Entry
    \/ PublishAdmitted \/ PublishFails \/ MarkPublished \/ MarkFails \/ Failed \/ Backoff

Service ==
    \/ \E t \in Tasks, now \in Clock, notified \in BOOLEAN : Commit(t, now, notified)
    \/ \E row \in outbox : QuarantineFailed(row)
    \/ Close \/ CloseAgain \/ CloseDropped \/ CloseJoins \/ CloseExpires
    \/ Restart

Next == Worker \/ Service

Spec == Init /\ [][Next]_vars

\* The runtime keeps polling the worker and its timers; the store and the bus
\* do not fail for ever.
FairSpec ==
    /\ Spec
    /\ WF_vars(Worker)
    /\ SF_vars(List /\ worker'.pc # "backoff")
    /\ SF_vars(PublishAdmitted)
    /\ SF_vars(MarkPublished)

-----------------------------------------------------------------------------
(***************************************************************************)
(* Properties.                                                             *)
(***************************************************************************)
\* No event is lost: each revision that was committed is in the outbox until
\* the bus has accepted its event or an operator has had it archived, through
\* failures of either, an abort by close, and crashes.
NothingLost ==
    \A t \in Tasks, v \in 1 .. VersionBound :
        v <= version[t] => <<t, v>> \in Events(outbox) \cup admitted \cup archive

\* The bus gets the events of a task in the order of its revisions, although
\* the clock may step back, later rows may sort before a failing one, and the
\* worker uses a page that other writes have made stale.
PublishedInOrder ==
    \A e \in admitted, v \in 1 .. VersionBound :
        v < e[2] => <<e[1], v>> \in admitted \cup archive

\* Only the oldest row is ever archived, and only while the worker holds it as
\* its failure: a command that comes late archives nothing else.
OnlyTheFailedHeadIsArchived ==
    [][\A row \in outbox : Event(row) \in archive' \ archive =>
           /\ row = worker.failure
           /\ \A other \in outbox \ {row} : RowBefore(row, other)]_vars

\* A worker that returns has answered every command that quarantine_failed
\* accepted: the gate lets none in after close has begun.
CommandsAnswered == worker.pc = "done" => controls = <<>>

\* As long as the service runs, every row is published or archived in the end:
\* a notification that was lost is made up for by the poll.
OutboxDrains == []<>(outbox = {} \/ closing)
=============================================================================
