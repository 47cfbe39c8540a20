----------------------------- MODULE TaskStore -----------------------------
(***************************************************************************)
(* What the TaskStore trait asks of every store: acceptance, the two       *)
(* version-checked lifecycle writes, progress, pruning and ownership, each *)
(* of them atomic.  MemoryTaskStore and SqliteTaskStore implement this     *)
(* specification.  A store may forget records, but only finished ones, and *)
(* it may do so in the same step as any other operation.                   *)
(***************************************************************************)
EXTENDS TaskRecord, FiniteSets

CONSTANTS
    Ids,        \* task identities
    Requests,   \* encoded requests
    KeyOf,      \* the idempotency key of each request, or NoKey
    NoKey,
    NoRequest   \* the request of a task that is not retained

VARIABLES
    summary,    \* the lifecycle record of each task
    request,    \* the request of each retained task
    progress,   \* the progress_version of the current attempt, 0 if none
    owner,      \* the current owner's epoch, 0 if there is none
    issued      \* the last epoch issued

svars == <<summary, request, progress, owner, issued>>

Init ==
    /\ summary = [id \in Ids |-> Unborn]
    /\ request = [id \in Ids |-> NoRequest]
    /\ progress = [id \in Ids |-> 0]
    /\ owner = 0
    /\ issued = 0

\* The lifecycle records become s, the requests r and the progress p, except
\* that some of the tasks that are then finished are forgotten.
Apply(s, r, p) ==
    LET gone == {id \in Ids : IsTerminal(s[id].state) /\ summary'[id] = Absent}
    IN  /\ summary' = [id \in Ids |-> IF id \in gone THEN Absent ELSE s[id]]
        /\ request' = [id \in Ids |-> IF id \in gone THEN NoRequest ELSE r[id]]
        /\ progress' = [id \in Ids |-> IF id \in gone THEN 0 ELSE p[id]]
        /\ UNCHANGED <<owner, issued>>

\* The key of a new task belongs to no other task that is retained after the
\* step: with two of them a replay could find the wrong one.
Accept(id) ==
    LET r == request'[id]
    IN  /\ ~Retained(summary[id])
        /\ r \in Requests
        /\ Apply([summary EXCEPT ![id] = Accepted], [request EXCEPT ![id] = r],
                 [progress EXCEPT ![id] = 0])
        /\ \A other \in Ids \ {id} :
               Retained(summary'[other]) /\ KeyOf[r] # NoKey => KeyOf[request'[other]] # KeyOf[r]

Start(id) ==
    /\ summary[id].state = "Queued"
    /\ Apply([summary EXCEPT ![id] = Started(@)], request, [progress EXCEPT ![id] = 0])

\* A lifecycle write is one the state machine of a task allows, or a late
\* cancellation diagnostic for a finished task; it makes one new revision.
Transition(id, state, requested, error, retry) ==
    LET cmd == [state_version |-> summary[id].state_version,
                attempt |-> summary[id].attempt,
                state |-> state,
                cancel_requested |-> requested,
                cancel_error |-> error,
                retry |-> retry,
                diagnostics_valid |-> TRUE]
    IN  /\ TransitionResult(summary[id], cmd) = "Ok"
        /\ Apply([summary EXCEPT ![id] = Transitioned(@, cmd)], request, progress)

\* Progress of the running attempt only moves forward.
Progress(id) ==
    /\ summary[id].state = "Running"
    /\ progress'[id] > progress[id]
    /\ Apply(summary, request, [progress EXCEPT ![id] = progress'[id]])

Forget == Apply(summary, request, progress)

\* An epoch is new to every owner that ever was.
AcquireOwner ==
    /\ owner = 0
    /\ issued' = issued + 1
    /\ owner' = issued'
    /\ UNCHANGED <<summary, request, progress>>

\* An acquisition that fails late may use up an epoch.
SkipEpoch ==
    /\ issued' = issued + 1
    /\ UNCHANGED <<summary, request, progress, owner>>

ReleaseOwner ==
    /\ owner # 0
    /\ owner' = 0
    /\ UNCHANGED <<summary, request, progress, issued>>

Next ==
    \/ \E id \in Ids :
           /\ summary'[id] # summary[id]
           /\ \/ Accept(id)
              \/ Start(id)
              \/ LET s == summary'[id]
                 IN  /\ Retained(s)
                     /\ Transition(id, s.state, s.cancel_requested, s.cancel_error, s.retry)
              \/ \E state \in TerminalStates : Transition(id, state, FALSE, FALSE, "none")
    \/ \E id \in Ids : Progress(id)
    \/ Forget
    \/ AcquireOwner
    \/ SkipEpoch
    \/ ReleaseOwner

Spec == Init /\ [][Next]_svars
=============================================================================
