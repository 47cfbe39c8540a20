------------------------ MODULE TaskService_proofs ------------------------
(***************************************************************************)
(* Proofs about TaskService, for every set of tasks, callers and hooks and *)
(* every bound.                                                            *)
(***************************************************************************)
EXTENDS TaskService, TLAPS

Commands ==
    [state_version : Nat, attempt : Nat, state : TaskStates, cancel_requested : BOOLEAN,
     cancel_error : BOOLEAN, retry : RetryStates, diagnostics_valid : BOOLEAN]

\* The two store writes keep records well formed.
LEMMA StoreWritesTyped ==
    /\ \A rec \in TaskRecords : Started(rec) \in TaskRecords
    /\ \A rec \in TaskRecords, cmd \in Commands : Transitioned(rec, cmd) \in TaskRecords
    /\ Accepted \in TaskRecords
<1>1. \A rec \in TaskRecords : Started(rec) \in TaskRecords
  BY DEF TaskRecords, Started, TaskStates, RetryStates
<1>2. \A rec \in TaskRecords, cmd \in Commands : Transitioned(rec, cmd) \in TaskRecords
  BY DEF TaskRecords, Transitioned, Commands
<1>3. Accepted \in TaskRecords
  BY Zenon DEF TaskRecords, Accepted, TaskStates, RetryStates
<1> QED
  BY Zenon, <1>1, <1>2, <1>3

\* Summaries and commands built from typed state are typed.
LEMMA ReadsTyped ==
    ASSUME TypeOK
    PROVE  /\ \A id \in TaskIds : Snapshot(id) \in Snapshots
           /\ NoSnapshot \in Snapshots
           /\ \A snap \in Snapshots, state \in TaskStates, r, e \in BOOLEAN :
                  Command(snap, state, r, e) \in Commands
BY Zenon, ServiceAssumption
   DEF TypeOK, Snapshot, NoSnapshot, Snapshots, Command, Commands, TaskRecords,
       AbsentStates, RetryStates

\* A commit of a typed command keeps the store typed.
LEMMA CommitTyped ==
    ASSUME TypeOK, NEW id, NEW cmd \in Commands, Commit(id, cmd)
    PROVE  task' \in [TaskIds -> TaskRecords]
BY Zenon, StoreWritesTyped DEF TypeOK, Commit

\* The program counters of actors at rest.
LEMMA IdleTyped ==
    /\ NoOutcome \in Outcomes
    /\ SchedIdle \in SchedRecords
    /\ RunIdle \in RunRecords
    /\ CallIdle \in CallRecords
    /\ FlightIdle \in FlightRecords
BY Zenon DEF SchedRecords, RunRecords, CallRecords, FlightRecords, NoOutcome, Outcome,
       Outcomes, TerminalStates, SchedIdle, SchedPc, RunIdle, RunPc, CallIdle, CallPc, FlightIdle, FlightPc, FlightPhase, FlightResult,
       NoSnapshot, Snapshots, AbsentStates

\* Initially every variable has its type.
LEMMA InitTyped == Init => TypeOK
<1> SUFFICES ASSUME Init PROVE TypeOK
  BY Zenon
<1>1. [Accepted EXCEPT !.state = "Unborn"] \in TaskRecords
  BY Zenon DEF TaskRecords, Accepted, AbsentStates, RetryStates
<1> QED
  BY Zenon, <1>1, IdleTyped DEF Init, TypeOK

\* Steps of the store alone keep the types.
LEMMA StoreStepTyped == TypeOK /\ StoreStep => TypeOK'
<1> SUFFICES ASSUME TypeOK, NEW id \in TaskIds,
                    Submit(id) \/ DeadlinePasses(id) \/ Evict(id)
             PROVE  TypeOK'
  BY Zenon DEF StoreStep
<1>1. UNCHANGED <<control, process>>
  BY Zenon DEF Submit, DeadlinePasses, Evict
<1>2. task' \in [TaskIds -> TaskRecords]
  <2>1. CASE Submit(id)
    BY Zenon, <2>1, StoreWritesTyped DEF TypeOK, Submit
  <2>2. CASE DeadlinePasses(id)
    BY <2>2 DEF TypeOK, DeadlinePasses, TaskRecords, RetryStates
  <2>3. CASE Evict(id)
    BY <2>3 DEF TypeOK, Evict, TaskRecords, AbsentStates
  <2> QED
    BY Zenon, <2>1, <2>2, <2>3
<1> QED
  BY Zenon, <1>1, <1>2 DEF TypeOK, control, process

\* Steps of the scheduler keep the types.
LEMMA SchedulerStepTyped == TypeOK /\ SchedulerStep => TypeOK'
<1> SUFFICES ASSUME TypeOK, SchedulerStep
             PROVE  TypeOK'
  BY Zenon
<1> DEFINE AtScan == [pc |-> "scan", snap |-> NoSnapshot]
<1>0. /\ AtScan \in SchedRecords
      /\ \A s \in Snapshots, pc \in SchedPc : [pc |-> pc, snap |-> s] \in SchedRecords
  BY Zenon, ReadsTyped DEF SchedRecords, SchedPc
<1> HIDE DEF AtScan
<1>1. CASE SchedulerScan
  <2>1. page' \in SUBSET Snapshots
    BY Zenon, <1>1, ReadsTyped DEF SchedulerScan, Ready
  <2> QED
    BY Zenon, <1>0, <1>1, <2>1 DEF TypeOK, SchedulerScan, control, AtScan
<1>2. CASE SchedulerReserve \/ SchedulerBypass \/ SchedulerRefuse
  <2>1. PICK s \in page : VisitNext(s) /\ sched' \in SchedRecords
    BY <1>0, <1>2 DEF SchedulerReserve, SchedulerBypass, SchedulerRefuse, TypeOK, SchedRecords, SchedPc, AtScan
  <2> QED
    BY Zenon, <2>1 DEF TypeOK, VisitNext, control
<1>3. CASE SchedulerEndScan
  BY Zenon, <1>3, IdleTyped DEF TypeOK, SchedulerEndScan, control
<1>4. CASE SchedulerStart
  <2> DEFINE k == <<sched.snap.id, task[sched.snap.id].attempt + 1>>
  <2>1. task' \in [TaskIds -> TaskRecords]
    BY <1>4, StoreWritesTyped DEF TypeOK, SchedulerStart
  <2>2. run' \in [Keys -> RunRecords]
    <3>1. [RunIdle EXCEPT !.pc = "load"] \in RunRecords
      BY Zenon, IdleTyped DEF RunRecords, RunPc
    <3>2. run' = run \/ run' = [run EXCEPT ![k] = [RunIdle EXCEPT !.pc = "load"]]
      BY Zenon, <1>4 DEF SchedulerStart
    <3> QED
      BY Zenon, <3>1, <3>2 DEF TypeOK
  <2>3. sched' \in SchedRecords /\ page' \in SUBSET Snapshots
    BY Zenon, <1>0, <1>4, IdleTyped DEF TypeOK, SchedulerStart, AtScan
  <2> QED
    BY Zenon, <1>4, <2>1, <2>2, <2>3 DEF TypeOK, SchedulerStart, control
<1>5. CASE SchedulerBlock
  <2> DEFINE cmd == Command(sched.snap, "Blocked", FALSE, FALSE)
  <2>1. cmd \in Commands
    BY Zenon, ReadsTyped DEF TypeOK, TaskStates, SchedRecords
  <2>2. UNCHANGED task \/ Commit(sched.snap.id, cmd)
    BY Zenon, <1>5 DEF SchedulerBlock
  <2>3. task' \in [TaskIds -> TaskRecords]
    BY Zenon, <2>1, <2>2, CommitTyped DEF TypeOK
  <2>4. sched' \in SchedRecords
    BY Zenon, <1>0, <1>5 DEF TypeOK, SchedulerBlock, AtScan, SchedRecords, SchedPc
  <2> QED
    BY Zenon, <1>5, <2>3, <2>4 DEF TypeOK, SchedulerBlock, control, LatchFault
<1>6. CASE SchedulerCheck
  BY Zenon, <1>0, <1>6 DEF TypeOK, SchedulerCheck, CheckCompetingTransition, control, LatchFault, AtScan
<1>7. CASE SchedulerStoreFails
  BY Zenon, <1>7, IdleTyped DEF TypeOK, SchedulerStoreFails, LatchFault
<1> QED
  BY Zenon, <1>1, <1>2, <1>3, <1>4, <1>5, <1>6, <1>7 DEF SchedulerStep

\* Steps of a supervised attempt keep the types.
LEMMA AttemptStepTyped ==
    ASSUME TypeOK, NEW k \in Keys, AttemptStep(k)
    PROVE  TypeOK'
<1>0. k[1] \in TaskIds /\ k[2] \in Nat
  BY ServiceAssumption DEF Keys
<1>f. \A o \in Outcomes : FinishWith(o) \in RunRecords
  BY Zenon, ReadsTyped DEF FinishWith, RunRecords, RunPc
<1>1. CASE RunLoad(k)
  <2>1. run' \in [Keys -> RunRecords]
    BY <1>f, <1>1, IdleTyped DEF TypeOK, RunLoad, RunRecords, RunPc, HandlerOutcomes
  <2> QED
    BY Zenon, <1>1, <2>1 DEF TypeOK, RunLoad, RunStep, control
<1>2. CASE RunInsertSignal(k)
  BY <1>2 DEF TypeOK, RunInsertSignal, RunStep, control, RunRecords, RunPc
<1>3. CASE RunCheckCancel(k)
  BY <1>3 DEF TypeOK, RunCheckCancel, RunStep, control, RunRecords, RunPc
<1>4. CASE HandlerReturns(k)
  <2>1. run' \in [Keys -> RunRecords]
    BY Zenon, <1>f, <1>4 DEF TypeOK, HandlerReturns, HandlerOutcomes
  <2> QED
    BY Zenon, <1>4, <2>1 DEF TypeOK, HandlerReturns, RunStep, control
<1>5. CASE FinishGet(k)
  <2>1. run' \in [Keys -> RunRecords]
    <3>1. [pc |-> "finish_put", outcome |-> run[k].outcome, snap |-> Snapshot(k[1])] \in RunRecords
      BY Zenon, <1>0, ReadsTyped DEF TypeOK, RunRecords, RunPc
    <3> QED
      BY Zenon, <1>5, <3>1, IdleTyped DEF TypeOK, FinishGet
  <2>2. fault' \in BOOLEAN /\ shutting_down' \in BOOLEAN /\ svc' = svc /\ inadmissible' = inadmissible
    BY Zenon, <1>5 DEF TypeOK, FinishGet, LatchFault, control
  <2>3. ext' \in [Keys -> {"none", "InFlight", "Succeeded"}]
    BY Zenon, <1>5 DEF TypeOK, FinishGet
  <2> QED
    BY Zenon, <1>5, <2>1, <2>2, <2>3 DEF TypeOK, FinishGet, RunStep
<1>6. CASE FinishPut(k)
  <2>1. FinishCommand(k) \in Commands
    <3>1. run[k] \in RunRecords
      BY Zenon DEF TypeOK
    <3>2. Retries(k) \in BOOLEAN
      BY Zenon DEF Retries
    <3> QED
      BY Zenon, <1>0, <3>1, <3>2
         DEF FinishCommand, Commands, RunRecords, Snapshots, Outcomes, TaskStates, RetryStates
  <2>2. task' \in [TaskIds -> TaskRecords]
    BY Zenon, <1>6, <2>1, CommitTyped DEF TypeOK, FinishPut
  <2>3. [RunIdle EXCEPT !.pc = "forget"] \in RunRecords
    BY Zenon, IdleTyped DEF RunRecords, RunPc
  <2>4. run' \in [Keys -> RunRecords]
    BY <1>6, <2>3, IdleTyped DEF TypeOK, FinishPut, RunRecords, RunPc
  <2>5. fault' \in BOOLEAN /\ shutting_down' \in BOOLEAN /\ svc' = svc /\ inadmissible' = inadmissible
    BY Zenon, <1>6 DEF TypeOK, FinishPut, LatchFault, control
  <2> QED
    BY Zenon, <1>6, <2>2, <2>4, <2>5 DEF TypeOK, FinishPut, RunStep
<1>7. CASE FinishForget(k)
  BY Zenon, <1>7, IdleTyped DEF TypeOK, FinishForget, RunStep, control
<1>8. CASE FinishCheck(k)
  <2>1. run' \in [Keys -> RunRecords]
    BY Zenon, <1>8, IdleTyped DEF TypeOK, FinishCheck
  <2> QED
    BY Zenon, <1>8, <2>1 DEF TypeOK, FinishCheck, RunStep, CheckCompetingTransition, LatchFault, control
<1>9. CASE RunStoreFails(k)
  BY Zenon, <1>9, IdleTyped DEF TypeOK, RunStoreFails, LatchFault
<1> QED
  BY Zenon, <1>1, <1>2, <1>3, <1>4, <1>5, <1>6, <1>7, <1>8, <1>9 DEF AttemptStep

\* Steps of a caller keep the types.
LEMMA CallerStepTyped ==
    ASSUME TypeOK, NEW c \in Clients, CallerStep(c)
    PROVE  TypeOK'
<1>0. call[c] \in CallRecords /\ call[c].snap \in Snapshots
  BY Zenon DEF TypeOK, CallRecords
<1>1. ASSUME NEW id \in TaskIds, CancelBegin(c, id) \/ ResumeBegin(c, id)
      PROVE  TypeOK'
  <2>1. PICK pc \in CallPc : BeginCall(c, id, pc)
    BY Zenon, <1>1 DEF CancelBegin, ResumeBegin, CallRecords, CallPc
  <2>2. [pc |-> pc, snap |-> Snapshot(id)] \in CallRecords
    BY Zenon, ReadsTyped DEF CallRecords
  <2> QED
    BY Zenon, <2>1, <2>2 DEF TypeOK, BeginCall, CallStep, control
<1>2. ASSUME NEW cmd \in Commands, NEW next \in CallRecords, CallWrite(c, cmd, next),
             UNCHANGED <<page, sched, run>>
      PROVE  TypeOK'
  <2>1. task' \in [TaskIds -> TaskRecords]
    BY Zenon, <1>2, CommitTyped DEF TypeOK, CallWrite
  <2> QED
    BY Zenon, <1>2, <2>1, IdleTyped DEF TypeOK, CallWrite, control
<1>3. CASE CancelWaiting(c)
  <2>1. Command(call[c].snap, "Cancelled", FALSE, FALSE) \in Commands
    BY Zenon, <1>0, ReadsTyped DEF TaskStates, TerminalStates
  <2> QED
    BY Zenon, <1>2, <1>3, <2>1, IdleTyped DEF CancelWaiting, CallStep
<1>4. CASE CancelRequest(c)
  <2>1. Command(call[c].snap, "Running", TRUE, FALSE) \in Commands
    BY Zenon, <1>0, ReadsTyped DEF TaskStates
  <2>2. [call[c] EXCEPT !.pc = "signal"] \in CallRecords
    BY Zenon, <1>0 DEF CallRecords, CallPc
  <2> QED
    BY Zenon, <1>2, <1>4, <2>1, <2>2 DEF CancelRequest, CallStep
<1>5. CASE CancelSignal(c)
  <2>1. call' \in [Clients -> CallRecords]
    BY Zenon, <1>5, IdleTyped DEF TypeOK, CancelSignal
  <2>2. signal' \in [Keys -> {"absent", "clear", "set"}]
    BY Zenon, <1>5 DEF TypeOK, CancelSignal
  <2> QED
    BY Zenon, <1>5, <2>1, <2>2 DEF TypeOK, CancelSignal, CallStep, control
<1>6. CASE CancelJoin(c)
  <2> DEFINE k == <<call[c].snap.id, call[c].snap.attempt>>
  <2>1. k \in Nat \X Nat
    BY Zenon, <1>0 DEF Snapshots
  <2>2. [FlightIdle EXCEPT !.pc = "get", !.key = k]
            \in FlightRecords
    BY Zenon, <2>1, IdleTyped DEF FlightRecords, FlightPc
  <2> DEFINE Goal == /\ flight' \in [Flights -> FlightRecords]
                     /\ ext' \in [Keys -> {"none", "InFlight", "Succeeded"}]
  <2>3. Goal
    <3>1. CASE UNCHANGED <<flight, ext>>
      BY Zenon, <3>1 DEF TypeOK
    <3>2. ASSUME NEW f \in Flights,
                 flight' = [flight EXCEPT ![f] = [FlightIdle EXCEPT !.pc = "get", !.key = k]],
                 ext' = [ext EXCEPT ![k] = "InFlight"]
          PROVE  Goal
      BY Zenon, <2>2, <3>2 DEF TypeOK
    <3> QED
      BY Zenon, <1>6, <3>1, <3>2 DEF CancelJoin
  <2>4. call' \in [Clients -> CallRecords]
    BY Zenon, <1>6, IdleTyped DEF TypeOK, CancelJoin
  <2> QED
    BY Zenon, <1>6, <2>3, <2>4 DEF TypeOK, CancelJoin, CallStep, control
<1>7. CASE ResumeWrite(c)
  <2>1. Command(call[c].snap, "Queued", FALSE, FALSE) \in Commands
    BY Zenon, <1>0, ReadsTyped DEF TaskStates
  <2> QED
    BY Zenon, <1>2, <1>7, <2>1, IdleTyped DEF ResumeWrite, CallStep
<1>8. CASE CallDropped(c) \/ CallStoreFails(c)
  <2>1. call' \in [Clients -> CallRecords]
    BY Zenon, <1>8, IdleTyped DEF TypeOK, CallDropped, CallStoreFails
  <2> QED
    BY Zenon, <1>8, <2>1 DEF TypeOK, CallDropped, CallStoreFails, LatchFault, control
<1> QED
  BY Zenon, <1>1, <1>3, <1>4, <1>5, <1>6, <1>7, <1>8 DEF CallerStep

\* Steps of an external cancellation keep the types.
LEMMA HookStepTyped ==
    ASSUME TypeOK, SnapshotsCurrent, NEW f \in Flights, HookStep(f)
    PROVE  TypeOK'
<1> DEFINE fl == flight[f]
<1>0. fl \in FlightRecords /\ fl.key \in Nat \X Nat /\ fl.version \in Nat
  BY Zenon DEF TypeOK, FlightRecords
<1>1. \A result \in FlightResult : Settled(fl, result) \in FlightRecords
  BY Zenon, <1>0 DEF Settled, FlightRecords, FlightPc
<1> HIDE DEF fl
<1>2. CASE FlightGet(f)
  <2>1. PICK next \in FlightRecords : flight' = [flight EXCEPT ![f] = next]
    <3>1. [fl EXCEPT !.pc = "hook"] \in FlightRecords
      BY Zenon, <1>0 DEF FlightRecords, FlightPc
    <3>2. [fl EXCEPT !.pc = "put", !.version = task[fl.key[1]].state_version] \in FlightRecords
      <4>1. task[fl.key[1]].state_version \in Nat
        BY Zenon, <1>2 DEF TypeOK, SnapshotsCurrent, FlightCurrent, FlightGet, FlightStep, TaskRecords, fl
      <4> QED
        BY Zenon, <1>0, <4>1 DEF FlightRecords, FlightPc
    <3> QED
      BY Zenon, <1>1, <1>2, <3>1, <3>2 DEF FlightGet, FlightResult, fl
  <2> QED
    BY <1>2, <2>1 DEF TypeOK, FlightGet, FlightStep, control
<1>3. CASE FlightPut(f)
  <2>1. FlightCommand(fl) \in Commands
    BY Zenon, <1>0 DEF FlightCommand, Commands, TaskStates, RetryStates
  <2>2. task' \in [TaskIds -> TaskRecords]
    BY Zenon, <1>3, <2>1, CommitTyped DEF TypeOK, FlightPut, fl
  <2>3. [fl EXCEPT !.pc = "get", !.version = 0] \in FlightRecords
    BY Zenon, <1>0 DEF FlightRecords, FlightPc
  <2>4. AfterPut(fl) \in FlightRecords
    <3>1. [fl EXCEPT !.pc = "hook", !.version = 0] \in FlightRecords
      BY Zenon, <1>0 DEF FlightRecords, FlightPc
    <3>2. fl.phase \in {"request", "clear", "record"}
      BY Zenon, <1>0 DEF FlightRecords, FlightPhase
    <3> QED
      BY Zenon, <1>1, <3>1, <3>2 DEF AfterPut, FlightResult
  <2>5. flight' \in [Flights -> FlightRecords]
    BY Zenon, <1>1, <1>3, <2>3, <2>4 DEF TypeOK, FlightPut, FlightResult, fl
  <2> QED
    BY Zenon, <1>3, <2>2, <2>5 DEF TypeOK, FlightPut, FlightStep, control
<1>4. CASE HookReturns(f)
  <2>1. \A phase \in {"clear", "record"} :
            [fl EXCEPT !.pc = "get", !.phase = phase] \in FlightRecords
    BY Zenon, <1>0 DEF FlightRecords, FlightPc, FlightPhase
  <2>2. flight' \in [Flights -> FlightRecords]
    BY Zenon, <1>4, <2>1 DEF TypeOK, HookReturns, fl
  <2> QED
    BY Zenon, <1>4, <2>2 DEF TypeOK, HookReturns, FlightStep, control
<1>5. CASE FlightSettle(f)
  BY Zenon, <1>5, IdleTyped DEF TypeOK, FlightSettle, FlightStep, LatchFault, control
<1>6. CASE FlightStoreFails(f)
  <2>1. flight' \in [Flights -> FlightRecords]
    BY Zenon, <1>1, <1>6 DEF TypeOK, FlightStoreFails, FlightResult, fl
  <2> QED
    BY Zenon, <1>6, <2>1 DEF TypeOK, FlightStoreFails, control
<1> QED
  BY Zenon, <1>2, <1>3, <1>4, <1>5, <1>6 DEF HookStep

\* Steps in the service's lifetime keep the types.
LEMMA LifetimeStepTyped == TypeOK /\ LifetimeStep => TypeOK'
<1> SUFFICES ASSUME TypeOK, LifetimeStep
             PROVE  TypeOK'
  BY Zenon
<1>1. CASE DiscardProcess
  BY Zenon, <1>1, IdleTyped DEF TypeOK, DiscardProcess
<1>2. CASE RequestShutdown \/ Restart \/ RecoveryCompletes \/ RecoveryFails
  BY Zenon, <1>2 DEF TypeOK, RequestShutdown, Restart, RecoveryCompletes, RecoveryFails, process
<1>3. ASSUME NEW id \in TaskIds, Recover(id)
      PROVE  TypeOK'
  <2> DEFINE t == task[id]
             cmd == Command(Snapshot(id), IF t.cancel_requested THEN "Blocked" ELSE "Queued",
                            t.cancel_requested, t.cancel_error)
  <2>1. t.cancel_requested \in BOOLEAN /\ t.cancel_error \in BOOLEAN
    BY Zenon DEF TypeOK, TaskRecords
  <2>2. cmd \in Commands
    BY Zenon, <2>1, ReadsTyped DEF TaskStates
  <2>3. task' \in [TaskIds -> TaskRecords]
    BY Zenon, <1>3, <2>2, CommitTyped DEF Recover
  <2> QED
    BY Zenon, <1>3, <2>3 DEF TypeOK, Recover, control, process
<1> QED
  BY Zenon, <1>1, <1>2, <1>3 DEF LifetimeStep, Crash, ShutdownCompletes

-----------------------------------------------------------------------------
(***************************************************************************)
(* The inductive invariant.  AttemptFenced alone is not inductive: that a  *)
(* stale write cannot take a running task away rests on what the writer    *)
(* read (SnapshotsCurrent), and that recovery cannot, on the old process   *)
(* being gone (NoProcessWhenDown).                                         *)
(***************************************************************************)
UnbornPristine ==
    \A id \in TaskIds :
        task[id].state = "Unborn" => task[id].attempt = 0 /\ task[id].state_version = 0

IInv ==
    /\ TypeOK
    /\ UnbornPristine
    /\ SnapshotsCurrent
    /\ AttemptFenced
    /\ QueuedUnrequested
    /\ NoProcessWhenDown

\* What one successful compare-and-set may do to a record.
Moves(a, b) ==
    \/ /\ a.state = "Queued" /\ ~a.cancel_requested
       /\ b.state = "Running" /\ ~b.cancel_requested
       /\ b.attempt = a.attempt + 1
    \/ /\ b.attempt = a.attempt
       /\ \/ a.state = "Running" /\ b.state = "Running" /\ b.cancel_requested
          \/ /\ a.state = "Running" /\ IsTerminal(b.state)
             /\ b.cancel_requested = a.cancel_requested
          \/ /\ a.state \in {"Running", "Blocked"} /\ b.state = "Queued"
             /\ ~a.cancel_requested /\ ~b.cancel_requested
          \/ /\ a.state = IF a.cancel_requested THEN "Running" ELSE "Queued"
             /\ b.state = "Blocked" /\ b.cancel_requested = a.cancel_requested
          \/ /\ a.state \in {"Queued", "Blocked"}
             /\ b.state = "Cancelled" /\ ~b.cancel_requested

\* What one step may do to a record.
Evolves(a, b) ==
    \/ b = [a EXCEPT !.retry = "due"]
    \/ a.state = "Unborn" /\ a.attempt = 0 /\ a.state_version = 0 /\ b = Accepted
    \/ IsTerminal(a.state) /\ b = [a EXCEPT !.state = "Removed"]
    \/ b.state_version = a.state_version + 1 /\ Moves(a, b)

Undisturbed(a, b) ==
    a.state = "Running" => b.state = "Running" /\ b.attempt = a.attempt

\* Only its own supervisor, as its last act, and recovery end an attempt.
Authorized(id) ==
    \/ Undisturbed(task[id], task'[id])
    \/ svc = "recovering"
    \/ \E k \in Keys : k[1] = id /\ Executing(k) /\ ~Executing(k)'

Effect(id) ==
    /\ Evolves(task[id], task'[id])
    /\ Authorized(id)
    /\ \A other \in TaskIds \ {id} : task'[other] = task[other]

\* A commit changes one record, to what the command says.
LEMMA CommitEffect ==
    ASSUME TypeOK, NEW id \in TaskIds, NEW cmd \in Commands, Commit(id, cmd),
           Moves(task[id], Transitioned(task[id], cmd)),
           Authorized(id) \/ cmd.state = "Running" \/ task[id].state # "Running"
    PROVE  Effect(id)
<1>1. task'[id] = Transitioned(task[id], cmd)
  BY Zenon DEF TypeOK, Commit
<1>2. \A other \in TaskIds \ {id} : task'[other] = task[other]
  BY Zenon DEF TypeOK, Commit
<1>3. task'[id].state_version = task[id].state_version + 1
  BY <1>1 DEF Transitioned
<1>4. Authorized(id)
  BY <1>1 DEF Authorized, Undisturbed, Transitioned
<1> QED
  BY Zenon, <1>1, <1>2, <1>3, <1>4 DEF Effect, Evolves

\* An accepted command expects exactly the stored revision; a summary that is
\* current then describes it.
LEMMA AcceptedIsExact ==
    ASSUME TypeOK, NEW s \in Snapshots, Current(s), s.state \in TaskStates,
           NEW cmd \in Commands, TransitionResult(task[s.id], cmd) = "Ok",
           cmd.state_version = s.state_version
    PROVE  /\ s.id \in TaskIds
           /\ task[s.id].state = s.state
           /\ task[s.id].attempt = s.attempt
           /\ task[s.id].cancel_requested = s.cancel_requested
BY Zenon DEF Current, TransitionResult

\* Steps of the store, of the scheduler and of the service's lifetime change
\* at most one record, the way Evolves says.
LEMMA SystemStepEffect ==
    ASSUME IInv, StoreStep \/ SchedulerStep \/ LifetimeStep
    PROVE  UNCHANGED task \/ \E id \in TaskIds : Effect(id)
<1>1. ASSUME NEW id \in TaskIds, Submit(id) \/ DeadlinePasses(id) \/ Evict(id)
      PROVE  Effect(id)
  <2>1. \A other \in TaskIds \ {id} : task'[other] = task[other]
    BY Zenon, <1>1 DEF IInv, TypeOK, Submit, DeadlinePasses, Evict
  <2>2. Evolves(task[id], task'[id])
    BY Zenon, <1>1 DEF IInv, TypeOK, UnbornPristine, Submit, DeadlinePasses, Evict, Evolves
  <2>3. Authorized(id)
    BY Zenon, <1>1 DEF IInv, TypeOK, Submit, DeadlinePasses, Evict, Authorized, Undisturbed,
                IsTerminal, TerminalStates
  <2> QED
    BY Zenon, <2>1, <2>2, <2>3 DEF Effect
<1>2. CASE SchedulerStart
  <2> DEFINE id == sched.snap.id
  <2>1. UNCHANGED task \/ (task' = [task EXCEPT ![id] = Started(@)]
                               /\ StartResult(task[id], sched.snap.state_version) = "Ok")
    BY Zenon, <1>2 DEF SchedulerStart
  <2>2. ASSUME task' = [task EXCEPT ![id] = Started(@)],
               StartResult(task[id], sched.snap.state_version) = "Ok"
        PROVE  Effect(id) /\ id \in TaskIds
    <3>1. id \in TaskIds
      BY Zenon, <1>2 DEF IInv, SnapshotsCurrent, Current, SchedulerStart
    <3>2. task'[id] = Started(task[id]) /\ \A other \in TaskIds \ {id} : task'[other] = task[other]
      BY Zenon, <2>2, <3>1 DEF IInv, TypeOK
    <3>3. task[id].state = "Queued" /\ ~task[id].cancel_requested
      BY Zenon, <2>2, <3>1 DEF IInv, QueuedUnrequested, StartResult
    <3>4. /\ Started(task[id]).state_version = task[id].state_version + 1
          /\ Moves(task[id], Started(task[id]))
      BY Zenon, <3>3 DEF Moves, Started
    <3>5. Authorized(id)
      BY Zenon, <3>3 DEF Authorized, Undisturbed
    <3> QED
      BY Zenon, <3>1, <3>2, <3>4, <3>5 DEF Effect, Evolves
  <2> QED
    BY Zenon, <2>1, <2>2
<1>3. CASE SchedulerBlock
  <2> DEFINE id == sched.snap.id
             cmd == Command(sched.snap, "Blocked", FALSE, FALSE)
  <2>0. sched.snap \in Snapshots /\ cmd \in Commands
    BY Zenon, ReadsTyped DEF IInv, TypeOK, SchedRecords, TaskStates
  <2>1. UNCHANGED task \/ (Commit(id, cmd) /\ TransitionResult(task[id], cmd) = "Ok")
    BY Zenon, <1>3 DEF SchedulerBlock
  <2>2. ASSUME Commit(id, cmd), TransitionResult(task[id], cmd) = "Ok"
        PROVE  Effect(id) /\ id \in TaskIds
    <3>1. Current(sched.snap) /\ sched.snap.state = "Queued"
      BY Zenon, <1>3 DEF IInv, SnapshotsCurrent, SchedulerBlock
    <3>2. /\ id \in TaskIds /\ task[id].state = "Queued"
      BY Zenon, <2>0, <2>2, <3>1, AcceptedIsExact DEF IInv, Command, TaskStates
    <3>3. task[id].cancel_requested = FALSE
      BY Zenon, <3>2 DEF IInv, QueuedUnrequested, TypeOK, TaskRecords
    <3>4. Moves(task[id], Transitioned(task[id], cmd))
      BY Zenon, <3>2, <3>3 DEF Moves, Transitioned, Command
    <3> QED
      BY Zenon, <2>0, <2>2, <3>2, <3>4, CommitEffect DEF IInv
  <2> QED
    BY Zenon, <2>1, <2>2
<1>4. ASSUME NEW id \in TaskIds, Recover(id)
      PROVE  Effect(id)
  <2> DEFINE t == task[id]
             cmd == Command(Snapshot(id), IF t.cancel_requested THEN "Blocked" ELSE "Queued",
                            t.cancel_requested, t.cancel_error)
  <2>1. t.cancel_requested \in BOOLEAN /\ t.cancel_error \in BOOLEAN
    BY Zenon DEF IInv, TypeOK, TaskRecords
  <2>2. cmd \in Commands
    BY Zenon, <2>1, ReadsTyped DEF IInv, TaskStates
  <2>3. Moves(t, Transitioned(t, cmd))
    <3>1. /\ t.state = "Running"
          /\ Transitioned(t, cmd).state = IF t.cancel_requested THEN "Blocked" ELSE "Queued"
          /\ Transitioned(t, cmd).attempt = t.attempt
          /\ Transitioned(t, cmd).cancel_requested = t.cancel_requested
      BY Zenon, <1>4 DEF Recover, Transitioned, Command
    <3> QED
      BY Zenon, <2>1, <3>1 DEF Moves
  <2> QED
    BY Zenon, <1>4, <2>2, <2>3, CommitEffect DEF IInv, Recover, Authorized
<1>5. CASE \/ SchedulerScan \/ SchedulerReserve \/ SchedulerBypass \/ SchedulerRefuse
           \/ SchedulerEndScan \/ SchedulerCheck \/ SchedulerStoreFails
  BY Zenon, <1>5 DEF SchedulerScan, SchedulerReserve, SchedulerBypass, SchedulerRefuse, VisitNext,
              SchedulerEndScan, SchedulerCheck, SchedulerStoreFails
<1>6. CASE Crash \/ RequestShutdown \/ ShutdownCompletes \/ Restart \/ RecoveryCompletes \/ RecoveryFails
  BY Zenon, <1>6 DEF Crash, RequestShutdown, ShutdownCompletes, DiscardProcess, Restart,
              RecoveryCompletes, RecoveryFails
<1> QED
  BY Zenon, <1>1, <1>2, <1>3, <1>4, <1>5, <1>6 DEF StoreStep, SchedulerStep, LifetimeStep

\* So do the steps of attempts, callers and hooks.
LEMMA ActorStepEffect ==
    ASSUME IInv,
           \/ \E k \in Keys : AttemptStep(k)
           \/ \E c \in Clients : CallerStep(c)
           \/ \E f \in Flights : HookStep(f)
    PROVE  UNCHANGED task \/ \E id \in TaskIds : Effect(id)
<1>1. ASSUME NEW k \in Keys, AttemptStep(k)
      PROVE  UNCHANGED task \/ \E id \in TaskIds : Effect(id)
  <2>1. UNCHANGED task \/ FinishPut(k)
    BY Zenon, <1>1 DEF AttemptStep, RunLoad, RunInsertSignal, RunCheckCancel, HandlerReturns, FinishGet,
                FinishForget, FinishCheck, RunStoreFails
  <2>2. CASE FinishPut(k) /\ Commit(k[1], FinishCommand(k))
                 /\ TransitionResult(task[k[1]], FinishCommand(k)) = "Ok"
    <3> DEFINE s == run[k].snap
               cmd == FinishCommand(k)
    <3>0. k[1] \in TaskIds /\ k[2] \in Nat /\ run[k] \in RunRecords /\ s \in Snapshots
      BY SMTT(30), ServiceAssumption DEF Keys, IInv, TypeOK, RunRecords
    <3>1. cmd \in Commands
      <4>1. Retries(k) \in BOOLEAN
        BY Zenon DEF Retries
      <4> QED
        BY Zenon, <3>0, <4>1
           DEF FinishCommand, Commands, RunRecords, Snapshots, Outcomes, TaskStates, RetryStates
    <3>2. Current(s) /\ s.id = k[1] /\ s.state = "Running"
      BY Zenon, <2>2 DEF IInv, SnapshotsCurrent, RunCurrent, FinishPut, RunStep
    <3>3. cmd.state_version = s.state_version /\ cmd.cancel_requested = s.cancel_requested
      BY Zenon DEF FinishCommand
    <3>4. task[k[1]].state = "Running" /\ task[k[1]].cancel_requested = s.cancel_requested
      BY Zenon, <2>2, <3>0, <3>1, <3>2, <3>3, AcceptedIsExact DEF IInv, TaskStates
    <3>5. \/ cmd.state = "Queued" /\ ~s.cancel_requested
          \/ cmd.state \in TerminalStates
      BY Zenon, <3>0 DEF FinishCommand, Retries, RunRecords, Outcomes
    <3>6. Moves(task[k[1]], Transitioned(task[k[1]], cmd))
      BY Zenon, <3>3, <3>4, <3>5 DEF Moves, Transitioned, IsTerminal
    <3>7. Authorized(k[1])
      <4>1. run[k].pc = "finish_put" /\ run' = [run EXCEPT ![k] = [RunIdle EXCEPT !.pc = "forget"]]
        BY Zenon, <2>2 DEF FinishPut, RunStep
      <4>2. run'[k].pc = "forget"
        BY Zenon, <4>1 DEF IInv, TypeOK, RunIdle
      <4> QED
        BY Zenon, <4>1, <4>2 DEF Authorized, Executing
    <3> QED
      BY Zenon, <2>2, <3>0, <3>1, <3>6, <3>7, CommitEffect DEF IInv
  <2> QED
    BY Zenon, <2>1, <2>2 DEF FinishPut
<1>2. ASSUME NEW c \in Clients, CallerStep(c)
      PROVE  UNCHANGED task \/ \E id \in TaskIds : Effect(id)
  <2> DEFINE s == call[c].snap
  <2>0. s \in Snapshots
    BY Zenon DEF IInv, TypeOK, CallRecords
  <2>1. ASSUME NEW cmd \in Commands, NEW next, CallWrite(c, cmd, next), call[c].pc # "idle",
               cmd.state_version = s.state_version,
               s.state \in TaskStates,
               \A t : t.state = s.state /\ t.cancel_requested = s.cancel_requested
                          => Moves(t, Transitioned(t, cmd)),
               cmd.state = "Running" \/ s.state # "Running"
        PROVE  UNCHANGED task \/ \E id \in TaskIds : Effect(id)
    <3>1. CASE Commit(s.id, cmd) /\ TransitionResult(task[s.id], cmd) = "Ok"
      <4>1. Current(s)
        BY Zenon, <2>1 DEF IInv, SnapshotsCurrent, CallCurrent
      <4>2. /\ s.id \in TaskIds /\ task[s.id].state = s.state
            /\ task[s.id].cancel_requested = s.cancel_requested
        BY Zenon, <2>0, <2>1, <3>1, <4>1, AcceptedIsExact DEF IInv, TaskStates
      <4>3. Moves(task[s.id], Transitioned(task[s.id], cmd))
        BY Zenon, <2>1, <4>2
      <4>4. cmd.state = "Running" \/ task[s.id].state # "Running"
        BY Zenon, <2>1, <4>2
      <4>5. Effect(s.id)
        BY Zenon, <2>1, <3>1, <4>2, <4>3, <4>4, CommitEffect DEF IInv
      <4> QED
        BY Zenon, <4>2, <4>5
    <3>2. UNCHANGED task \/ (Commit(s.id, cmd) /\ TransitionResult(task[s.id], cmd) = "Ok")
      BY Zenon, <2>1 DEF CallWrite
    <3> QED
      BY Zenon, <3>1, <3>2
  <2>2. CASE CancelWaiting(c)
    <3>1. Command(s, "Cancelled", FALSE, FALSE) \in Commands
      BY Zenon, <2>0, ReadsTyped DEF IInv, TaskStates, TerminalStates
    <3>2. s.state \in {"Queued", "Blocked"}
      BY Zenon, <2>2 DEF IInv, SnapshotsCurrent, CallCurrent, SeenBy, CancelWaiting, CallStep
    <3>3. \A t : t.state = s.state /\ t.cancel_requested = s.cancel_requested
                     => Moves(t, Transitioned(t, Command(s, "Cancelled", FALSE, FALSE)))
      BY Zenon, <3>2 DEF Moves, Transitioned, Command
    <3>4. call[c].pc # "idle" /\ Command(s, "Cancelled", FALSE, FALSE).state_version = s.state_version
      BY Zenon, <2>2 DEF CancelWaiting, CallStep, Command
    <3> QED
      BY Zenon, <2>1, <2>2, <3>1, <3>2, <3>3, <3>4 DEF CancelWaiting, TaskStates, Command
  <2>3. CASE CancelRequest(c)
    <3>1. Command(s, "Running", TRUE, FALSE) \in Commands
      BY Zenon, <2>0, ReadsTyped DEF IInv, TaskStates
    <3>2. s.state = "Running"
      BY Zenon, <2>3 DEF IInv, SnapshotsCurrent, CallCurrent, SeenBy, CancelRequest, CallStep
    <3>3. \A t : t.state = s.state /\ t.cancel_requested = s.cancel_requested
                     => Moves(t, Transitioned(t, Command(s, "Running", TRUE, FALSE)))
      BY Zenon, <3>2 DEF Moves, Transitioned, Command
    <3>4. call[c].pc # "idle" /\ Command(s, "Running", TRUE, FALSE).state_version = s.state_version
      BY Zenon, <2>3 DEF CancelRequest, CallStep, Command
    <3> QED
      BY Zenon, <2>1, <2>3, <3>1, <3>2, <3>3, <3>4 DEF CancelRequest, TaskStates, Command
  <2>4. CASE ResumeWrite(c)
    <3>1. Command(s, "Queued", FALSE, FALSE) \in Commands
      BY Zenon, <2>0, ReadsTyped DEF IInv, TaskStates
    <3>2. s.state = "Blocked" /\ ~s.cancel_requested
      BY Zenon, <2>4 DEF IInv, SnapshotsCurrent, CallCurrent, SeenBy, ResumeWrite, CallStep
    <3>3. \A t : t.state = s.state /\ t.cancel_requested = s.cancel_requested
                     => Moves(t, Transitioned(t, Command(s, "Queued", FALSE, FALSE)))
      BY Zenon, <3>2 DEF Moves, Transitioned, Command
    <3>4. call[c].pc # "idle" /\ Command(s, "Queued", FALSE, FALSE).state_version = s.state_version
      BY Zenon, <2>4 DEF ResumeWrite, CallStep, Command
    <3> QED
      BY Zenon, <2>1, <2>4, <3>1, <3>2, <3>3, <3>4 DEF ResumeWrite, TaskStates, Command
  <2>5. CASE UNCHANGED task
    BY Zenon, <2>5
  <2> QED
    BY Zenon, <1>2, <2>2, <2>3, <2>4, <2>5
       DEF CallerStep, CancelBegin, ResumeBegin, BeginCall, CancelSignal, CancelJoin,
           CallDropped, CallStoreFails
<1>3. ASSUME NEW f \in Flights, HookStep(f)
      PROVE  UNCHANGED task \/ \E id \in TaskIds : Effect(id)
  <2> DEFINE fl == flight[f]
             id == fl.key[1]
             cmd == FlightCommand(fl)
  <2>0. fl \in FlightRecords /\ fl.key \in Nat \X Nat /\ fl.version \in Nat
    BY Zenon DEF IInv, TypeOK, FlightRecords
  <2>1. CASE FlightPut(f) /\ Commit(id, cmd) /\ TransitionResult(task[id], cmd) = "Ok"
    <3>1. cmd \in Commands
      BY Zenon, <2>0 DEF FlightCommand, Commands, TaskStates, RetryStates
    <3>2. id \in TaskIds
      BY Zenon, <2>1 DEF IInv, SnapshotsCurrent, FlightCurrent, FlightPut, FlightStep
    <3>3. task[id].state_version = fl.version
      BY Zenon, <2>1 DEF TransitionResult, FlightCommand
    <3>4. task[id].state = "Running"
      BY Zenon, <2>1, <3>3 DEF IInv, SnapshotsCurrent, FlightCurrent, FlightPut, FlightStep
    <3>5. Moves(task[id], Transitioned(task[id], cmd))
      BY Zenon, <3>4 DEF Moves, Transitioned, FlightCommand
    <3> QED
      BY Zenon, <2>1, <3>1, <3>2, <3>5, CommitEffect DEF IInv, FlightCommand
  <2>2. CASE UNCHANGED task
    BY Zenon, <2>2
  <2> QED
    BY Zenon, <1>3, <2>1, <2>2
       DEF HookStep, FlightGet, FlightPut, HookReturns, FlightSettle, FlightStoreFails
<1> QED
  BY Zenon, <1>1, <1>2, <1>3

-----------------------------------------------------------------------------
TaskStepped == UNCHANGED task \/ \E id \in TaskIds : Effect(id)

\* A summary of a waiting or running task stays current, however its task
\* changes: a change either keeps its fields or moves the version past it.
LEMMA CurrentKept ==
    ASSUME TypeOK, TaskStepped, NEW s \in Snapshots, Current(s),
           s.state \in {"Queued", "Running", "Blocked"}
    PROVE  Current(s)'
<1> DEFINE a == task[s.id]
           b == task'[s.id]
<1>1. /\ s.id \in TaskIds /\ a \in TaskRecords /\ a.state # "Unborn"
      /\ s.state_version \in Nat /\ a.state_version \in Nat
      /\ s.state_version <= a.state_version
  BY Zenon DEF TypeOK, Current, Snapshots, TaskRecords
<1>2. b = a \/ Evolves(a, b)
  BY Zenon, <1>1 DEF TaskStepped, Effect
<1>3. CASE b = a \/ b = [a EXCEPT !.retry = "due"]
  <2>1. /\ b.state = a.state /\ b.state_version = a.state_version /\ b.attempt = a.attempt
        /\ b.cancel_requested = a.cancel_requested /\ b.cancel_error = a.cancel_error
    BY Zenon, <1>1, <1>3 DEF TaskRecords
  <2> QED
    BY Zenon, <1>1, <2>1 DEF Current
<1>4. CASE IsTerminal(a.state) /\ b = [a EXCEPT !.state = "Removed"]
  <2>1. b.state = "Removed" /\ b.state_version = a.state_version
    BY Zenon, <1>1, <1>4 DEF TaskRecords
  <2>2. s.state_version # a.state_version
    BY Zenon, <1>4 DEF Current, IsTerminal, TerminalStates
  <2> QED
    BY Zenon, <1>1, <2>1, <2>2 DEF Current
<1>5. CASE b.state_version = a.state_version + 1 /\ Moves(a, b)
  <2>1. b.state # "Unborn"
    BY Zenon, <1>5 DEF Moves, IsTerminal, TerminalStates
  <2>2. s.state_version <= b.state_version /\ s.state_version # b.state_version
    BY <1>1, <1>5
  <2> QED
    BY Zenon, <1>1, <2>1, <2>2 DEF Current
<1> QED
  BY Zenon, <1>1, <1>2, <1>3, <1>4, <1>5 DEF Evolves

\* An actor that does not move keeps a current summary.
LEMMA OthersCurrent ==
    ASSUME IInv, TaskStepped
    PROVE  /\ \A s \in page : Current(s)' /\ s.state = "Queued"
           /\ \A s : sched.pc \in {"start", "block", "check"} /\ s = sched.snap
                         => Current(s)' /\ s.state = "Queued"
           /\ \A k \in Keys : run'[k] = run[k] => RunCurrent(k)'
           /\ \A c \in Clients : call'[c] = call[c] => CallCurrent(c)'
           /\ \A f \in Flights : flight'[f] = flight[f] => FlightCurrent(f)'
<1>1. \A s \in page : Current(s)' /\ s.state = "Queued"
  BY Zenon, CurrentKept DEF IInv, TypeOK, SnapshotsCurrent
<1>2. \A s : sched.pc \in {"start", "block", "check"} /\ s = sched.snap
                 => Current(s)' /\ s.state = "Queued"
  BY Zenon, CurrentKept DEF IInv, TypeOK, SchedRecords, SnapshotsCurrent
<1>3. ASSUME NEW k \in Keys, run'[k] = run[k]
      PROVE  RunCurrent(k)'
  <2>1. run[k].snap \in Snapshots /\ RunCurrent(k)
    BY Zenon DEF IInv, TypeOK, RunRecords, SnapshotsCurrent
  <2>2. ASSUME NEW s \in Snapshots, Current(s), s.state = "Running" PROVE Current(s)'
    BY Zenon, <2>2, CurrentKept DEF IInv
  <2> QED
    BY Zenon, <1>3, <2>1, <2>2 DEF RunCurrent, Current
<1>4. ASSUME NEW c \in Clients, call'[c] = call[c]
      PROVE  CallCurrent(c)'
  <2>1. call[c].snap \in Snapshots /\ CallCurrent(c)
    BY Zenon DEF IInv, TypeOK, CallRecords, SnapshotsCurrent
  <2>2. call[c].snap.state \in SeenBy(call[c].pc) => call[c].snap.state \in {"Queued", "Running", "Blocked"}
    BY Zenon DEF SeenBy
  <2>3. ASSUME NEW s \in Snapshots, Current(s), s.state \in {"Queued", "Running", "Blocked"}
        PROVE  Current(s)'
    BY Zenon, <2>3, CurrentKept DEF IInv
  <2> QED
    BY Zenon, <1>4, <2>1, <2>2, <2>3 DEF CallCurrent, Current
<1>5. ASSUME NEW f \in Flights, flight'[f] = flight[f]
      PROVE  FlightCurrent(f)'
  <2> DEFINE a == task[flight[f].key[1]]
             b == task'[flight[f].key[1]]
  <2>1. FlightCurrent(f)
    BY Zenon DEF IInv, SnapshotsCurrent
  <2>2. ASSUME flight[f].pc = "put"
        PROVE  /\ flight[f].version <= b.state_version
               /\ flight[f].version = b.state_version =>
                      b.state = "Running" /\ b.attempt = flight[f].key[2]
    <3>1. /\ flight[f].key[1] \in TaskIds /\ a \in TaskRecords
          /\ flight[f].version \in Nat /\ a.state_version \in Nat
          /\ flight[f].version <= a.state_version
          /\ flight[f].version = a.state_version =>
                 a.state = "Running" /\ a.attempt = flight[f].key[2]
      BY Zenon, <2>1, <2>2 DEF FlightCurrent, IInv, TypeOK, FlightRecords, TaskRecords
    <3>2. b = a \/ Evolves(a, b)
      BY Zenon, <3>1 DEF TaskStepped, Effect
    <3>3. CASE b = a \/ b = [a EXCEPT !.retry = "due"]
      BY Zenon, <3>1, <3>3 DEF TaskRecords
    <3>4. CASE IsTerminal(a.state) /\ b = [a EXCEPT !.state = "Removed"]
      BY Zenon, <3>1, <3>4 DEF TaskRecords, IsTerminal, TerminalStates
    <3>5. CASE a.state = "Unborn" /\ a.state_version = 0 /\ b = Accepted
      <4>1. b.state_version = 0
        BY SMTT(30), <3>5 DEF Accepted
      <4> QED
        BY Zenon, <3>1, <3>5, <4>1
    <3>6. CASE b.state_version = a.state_version + 1
      BY <3>1, <3>6
    <3> QED
      BY Zenon, <3>2, <3>3, <3>4, <3>5, <3>6 DEF Evolves
  <2> QED
    BY Zenon, <1>5, <2>1, <2>2 DEF FlightCurrent
<1> QED
  BY Zenon, <1>1, <1>2, <1>3, <1>4, <1>5

\* The store's own steps and the lifetime steps keep every summary current.
LEMMA SystemStepCurrent ==
    ASSUME IInv, TaskStepped, StoreStep \/ LifetimeStep
    PROVE  SnapshotsCurrent'
<1>1. CASE UNCHANGED process
  BY Zenon, <1>1, OthersCurrent DEF process, SnapshotsCurrent
<1>2. CASE DiscardProcess
  BY Zenon, <1>2 DEF DiscardProcess, SnapshotsCurrent, RunCurrent, CallCurrent, FlightCurrent,
              SchedIdle, RunIdle, CallIdle, FlightIdle
<1> QED
  BY Zenon, <1>1, <1>2 DEF StoreStep, LifetimeStep, Submit, DeadlinePasses, Evict, Crash, RequestShutdown,
     ShutdownCompletes, Restart, Recover, RecoveryCompletes, RecoveryFails

\* A summary just read is current.
LEMMA JustRead ==
    ASSUME NEW id \in TaskIds, task[id].state # "Unborn", UNCHANGED task, TypeOK
    PROVE  Current(Snapshot(id))'
BY SMTT(30) DEF Current, Snapshot, TypeOK, TaskRecords

\* The scheduler's steps keep every summary current.
LEMMA SchedulerStepCurrent ==
    ASSUME IInv, TaskStepped, SchedulerStep
    PROVE  SnapshotsCurrent'
<1>1. UNCHANGED <<call, flight>>
  BY Zenon DEF SchedulerStep, SchedulerScan, SchedulerReserve, SchedulerBypass, SchedulerRefuse, VisitNext,
         SchedulerEndScan, SchedulerStart, SchedulerBlock, SchedulerCheck, SchedulerStoreFails
<1>2. \A k \in Keys : RunCurrent(k)'
  <2>1. CASE UNCHANGED run
    BY Zenon, <2>1, OthersCurrent
  <2>2. ASSUME NEW k0, run' = [run EXCEPT ![k0] = [RunIdle EXCEPT !.pc = "load"]]
        PROVE  \A k \in Keys : RunCurrent(k)'
    BY Zenon, <2>2, OthersCurrent DEF IInv, TypeOK, RunCurrent, RunIdle
  <2> QED
    BY Zenon, <2>1, <2>2
       DEF SchedulerStep, SchedulerScan, SchedulerReserve, SchedulerBypass, SchedulerRefuse, VisitNext,
           SchedulerEndScan, SchedulerStart, SchedulerBlock, SchedulerCheck, SchedulerStoreFails
<1>3. \A s \in page' : Current(s)' /\ s.state = "Queued"
  <2>1. CASE SchedulerScan
    <3>1. ASSUME NEW id \in Ready
          PROVE  Current(Snapshot(id))' /\ Snapshot(id).state = "Queued" /\ Snapshot(id)' = Snapshot(id)
      BY Zenon, <2>1, JustRead DEF IInv, Ready, Snapshot, SchedulerScan
    <3> QED
      BY Zenon, <2>1, <3>1 DEF SchedulerScan
  <2>2. CASE page' \subseteq page
    BY Zenon, <2>2, OthersCurrent
  <2> QED
    BY Zenon, <2>1, <2>2
       DEF SchedulerStep, SchedulerReserve, SchedulerBypass, SchedulerRefuse, VisitNext,
           SchedulerEndScan, SchedulerStart, SchedulerBlock, SchedulerCheck, SchedulerStoreFails
<1>4. sched'.pc \in {"start", "block", "check"} =>
          Current(sched.snap)' /\ sched'.snap.state = "Queued"
  <2>1. CASE sched'.pc \notin {"start", "block", "check"}
    BY Zenon, <2>1
  <2>2. CASE SchedulerReserve \/ SchedulerRefuse
    <3>1. PICK s \in page : sched'.snap = s
      BY <2>2 DEF SchedulerReserve, SchedulerRefuse
    <3> QED
      BY Zenon, <3>1, OthersCurrent DEF Current
  <2>3. CASE SchedulerBlock
    <3>1. sched' = [pc |-> "scan", snap |-> NoSnapshot] \/ sched' = [sched EXCEPT !.pc = "check"]
      BY Zenon, <2>3 DEF SchedulerBlock
    <3>2. sched'.pc = "scan" \/ sched'.snap = sched.snap
      BY <3>1 DEF IInv, TypeOK, SchedRecords
    <3> QED
      BY Zenon, <2>3, <3>2, OthersCurrent DEF SchedulerBlock, Current
  <2> QED
    BY <2>1, <2>2, <2>3
       DEF SchedulerStep, SchedulerScan, SchedulerBypass, SchedulerEndScan, SchedulerStart,
           SchedulerCheck, SchedulerStoreFails, SchedIdle
<1> QED
  BY Zenon, <1>1, <1>2, <1>3, <1>4, OthersCurrent DEF SnapshotsCurrent

\* An attempt's steps keep every summary current.
LEMMA AttemptStepCurrent ==
    ASSUME IInv, TaskStepped, NEW k \in Keys, AttemptStep(k)
    PROVE  SnapshotsCurrent'
<1>1. UNCHANGED <<page, sched, call, flight>>
  BY Zenon DEF AttemptStep, RunLoad, RunInsertSignal, RunCheckCancel, HandlerReturns, FinishGet,
         FinishPut, FinishForget, FinishCheck, RunStoreFails, RunStep
<1>2. PICK next : run' = [run EXCEPT ![k] = next]
  BY Zenon DEF AttemptStep, RunLoad, RunInsertSignal, RunCheckCancel, HandlerReturns, FinishGet,
         FinishPut, FinishForget, FinishCheck, RunStoreFails
<1>3. RunCurrent(k)'
  <2>1. CASE run'[k].pc \notin {"finish_put", "finish_check"}
    BY Zenon, <2>1 DEF RunCurrent
  <2>2. CASE FinishGet(k)
    <3>1. CASE run' = [run EXCEPT ![k] = RunIdle]
      BY Zenon, <3>1 DEF RunCurrent, RunIdle, IInv, TypeOK
    <3>2. CASE run' = [run EXCEPT ![k] = [pc |-> "finish_put", outcome |-> run[k].outcome,
                                          snap |-> Snapshot(k[1])]]
      <4>0. k[1] \in TaskIds /\ UNCHANGED task
        BY Zenon, <2>2 DEF Keys, FinishGet
      <4>1. task[k[1]].state = "Running" /\ task[k[1]].attempt = k[2]
        BY Zenon, <2>2 DEF IInv, AttemptFenced, Executing, FinishGet, RunStep
      <4>2. Current(Snapshot(k[1]))'
        BY Zenon, <4>0, <4>1, JustRead DEF IInv
      <4>3. run'[k].snap = Snapshot(k[1])' /\ run'[k].snap = Snapshot(k[1])
        BY Zenon, <3>2, <4>0 DEF IInv, TypeOK, Snapshot
      <4> QED
        BY <4>1, <4>2, <4>3 DEF RunCurrent, Snapshot
    <3> QED
      BY Zenon, <2>2, <3>1, <3>2 DEF FinishGet
  <2>3. CASE run' = [run EXCEPT ![k].pc = "finish_check"] /\ run[k].pc = "finish_put"
    <3>1. run'[k].snap = run[k].snap /\ run[k].snap \in Snapshots
      BY Zenon, <2>3 DEF IInv, TypeOK, RunRecords
    <3>2. RunCurrent(k)
      BY Zenon DEF IInv, SnapshotsCurrent
    <3>3. ASSUME NEW s \in Snapshots, Current(s), s.state = "Running" PROVE Current(s)'
      BY Zenon, <3>3, CurrentKept DEF IInv
    <3> QED
      BY <2>3, <3>1, <3>2, <3>3 DEF RunCurrent, Current
  <2>4. CASE FinishPut(k)
    <3>1. \/ run' = [run EXCEPT ![k] = [RunIdle EXCEPT !.pc = "forget"]]
          \/ run' = [run EXCEPT ![k].pc = "finish_check"] /\ run[k].pc = "finish_put"
          \/ run' = [run EXCEPT ![k] = RunIdle]
      BY Zenon, <2>4 DEF FinishPut, RunStep
    <3> QED
      BY <2>1, <2>3, <3>1 DEF IInv, TypeOK, RunIdle
  <2>5. CASE \/ RunLoad(k) \/ RunInsertSignal(k) \/ RunCheckCancel(k) \/ HandlerReturns(k)
             \/ FinishForget(k) \/ FinishCheck(k) \/ RunStoreFails(k)
    <3>1. \/ \E pc \in {"insert", "check", "handler"} : run' = [run EXCEPT ![k].pc = pc]
          \/ \E o \in HandlerOutcomes : run' = [run EXCEPT ![k] = FinishWith(o)]
          \/ run' = [run EXCEPT ![k] = RunIdle]
      BY Zenon, <2>5 DEF RunLoad, RunInsertSignal, RunCheckCancel, HandlerReturns, FinishForget,
                  FinishCheck, RunStoreFails
    <3>2. run'[k].pc \notin {"finish_put", "finish_check"}
      BY <3>1 DEF RunIdle, FinishWith, IInv, TypeOK, RunRecords
    <3> QED
      BY Zenon, <2>1, <3>2
  <2> QED
    BY Zenon, <2>2, <2>4, <2>5 DEF AttemptStep
<1>4. \A other \in Keys \ {k} : run'[other] = run[other]
  BY Zenon, <1>2 DEF IInv, TypeOK
<1> QED
  BY Zenon, <1>1, <1>3, <1>4, OthersCurrent DEF SnapshotsCurrent

\* A caller's steps keep every summary current.
LEMMA CallerStepCurrent ==
    ASSUME IInv, TaskStepped, NEW c \in Clients, CallerStep(c)
    PROVE  SnapshotsCurrent'
<1>1. UNCHANGED <<page, sched, run>>
  BY Zenon DEF CallerStep, CancelBegin, ResumeBegin, BeginCall, CancelWaiting, CancelRequest,
         CancelSignal, CancelJoin, ResumeWrite, CallDropped, CallStoreFails, CallStep
<1>2. PICK next : call' = [call EXCEPT ![c] = next]
  BY Zenon DEF CallerStep, CancelBegin, ResumeBegin, BeginCall, CancelWaiting, CancelRequest,
         CancelSignal, CancelJoin, ResumeWrite, CallDropped, CallStoreFails, CallWrite
<1>3. call'[c] = next /\ \A other \in Clients \ {c} : call'[other] = call[other]
  BY Zenon, <1>2 DEF IInv, TypeOK
<1>4. CallCurrent(c)'
  <2>1. CASE next = CallIdle
    BY SMTT(30), <1>3, <2>1 DEF CallCurrent, CallIdle
  <2>2. ASSUME NEW id \in TaskIds, CancelBegin(c, id) \/ ResumeBegin(c, id)
        PROVE  CallCurrent(c)'
    <3>1. PICK pc : BeginCall(c, id, pc) /\ pc # "idle" /\ task[id].state \in SeenBy(pc)
                        /\ (pc = "resume" => ~task[id].cancel_requested)
      BY <2>2 DEF CancelBegin, ResumeBegin, SeenBy
    <3>2. call'[c] = [pc |-> pc, snap |-> Snapshot(id)] /\ UNCHANGED task
      BY Zenon, <3>1 DEF BeginCall, IInv, TypeOK
    <3>3. Current(Snapshot(id))' /\ Snapshot(id)' = Snapshot(id)
      BY Zenon, <3>1, <3>2, JustRead DEF BeginCall, IInv, Retained, TaskStates, TerminalStates, Snapshot
    <3>4. call'[c].pc = pc /\ call'[c].snap = Snapshot(id)
      <4> HIDE DEF Snapshot
      <4> QED
        BY <3>2, SMT
    <3>5. /\ Snapshot(id).state = task[id].state
          /\ Snapshot(id).cancel_requested = task[id].cancel_requested
      BY Zenon, SMT DEF Snapshot
    <3> QED
      BY Zenon, <3>1, <3>3, <3>4, <3>5 DEF CallCurrent
  <2>3. CASE next = [call[c] EXCEPT !.pc = "signal"] /\ call[c].pc = "request"
    <3>1. next.snap = call[c].snap /\ next.pc = "signal" /\ call[c].snap \in Snapshots
      BY Zenon, <2>3 DEF IInv, TypeOK, CallRecords
    <3>2. Current(call[c].snap) /\ call[c].snap.state = "Running"
      BY Zenon, <2>3 DEF IInv, SnapshotsCurrent, CallCurrent, SeenBy
    <3>3. ASSUME NEW s \in Snapshots, Current(s), s.state = "Running" PROVE Current(s)'
      BY Zenon, <3>3, CurrentKept DEF IInv
    <3> QED
      BY Zenon, <1>3, <3>1, <3>2, <3>3 DEF CallCurrent, SeenBy, Current
  <2>4. CASE CancelRequest(c)
    <3>1. \/ call' = [call EXCEPT ![c] = CallIdle]
          \/ call' = [call EXCEPT ![c] = [call[c] EXCEPT !.pc = "signal"]] /\ call[c].pc = "request"
      BY Zenon, <2>4 DEF CancelRequest, CallWrite, CallStep
    <3>2. next = CallIdle \/ (next = [call[c] EXCEPT !.pc = "signal"] /\ call[c].pc = "request")
      BY Zenon, <1>3, <3>1 DEF IInv, TypeOK
    <3> QED
      BY Zenon, <2>1, <2>3, <3>2
  <2>5. CASE CancelWaiting(c) \/ CancelSignal(c) \/ CancelJoin(c) \/ ResumeWrite(c)
                 \/ CallDropped(c) \/ CallStoreFails(c)
    <3>1. call' = [call EXCEPT ![c] = CallIdle]
      BY Zenon, <2>5 DEF CancelWaiting, CancelSignal, CancelJoin, ResumeWrite, CallDropped,
                  CallStoreFails, CallWrite
    <3>2. next = CallIdle
      BY Zenon, <1>3, <3>1 DEF IInv, TypeOK
    <3> QED
      BY Zenon, <2>1, <3>2
  <2> QED
    BY Zenon, <2>2, <2>4, <2>5 DEF CallerStep
<1>5. \A f \in Flights : FlightCurrent(f)'
  <2>1. CASE UNCHANGED flight
    BY Zenon, <2>1, OthersCurrent
  <2>2. CASE CancelJoin(c) /\ flight' # flight
    <3> DEFINE k == <<call[c].snap.id, call[c].snap.attempt>>
    <3>1. PICK f \in Flights : flight' = [flight EXCEPT ![f] = [FlightIdle EXCEPT !.pc = "get", !.key = k]]
      BY Zenon, <2>2 DEF CancelJoin
    <3>2. call[c].snap.id \in TaskIds
      BY Zenon, <2>2 DEF CancelJoin, CallStep, IInv, SnapshotsCurrent, CallCurrent, Current
    <3>3. flight'[f].pc = "get" /\ flight'[f].key = k
      BY Zenon, <3>1 DEF IInv, TypeOK, FlightIdle
    <3>4. FlightCurrent(f)'
      BY <3>2, <3>3 DEF FlightCurrent
    <3>5. \A other \in Flights \ {f} : flight'[other] = flight[other]
      BY Zenon, <3>1 DEF IInv, TypeOK
    <3> QED
      BY Zenon, <3>4, <3>5, OthersCurrent
  <2> QED
    BY Zenon, <2>1, <2>2
       DEF CallerStep, CancelBegin, ResumeBegin, BeginCall, CancelWaiting, CancelRequest,
           CancelSignal, ResumeWrite, CallDropped, CallStoreFails, CallWrite
<1> QED
  BY Zenon, <1>1, <1>3, <1>4, <1>5, OthersCurrent DEF SnapshotsCurrent

\* A hook's steps keep every summary current.
LEMMA HookStepCurrent ==
    ASSUME IInv, TaskStepped, NEW f \in Flights, HookStep(f)
    PROVE  SnapshotsCurrent'
<1> DEFINE fl == flight[f]
<1>0. fl \in FlightRecords /\ FlightCurrent(f)
  BY Zenon DEF IInv, TypeOK, SnapshotsCurrent
<1>1. UNCHANGED <<page, sched, run, call>>
  BY Zenon DEF HookStep, FlightGet, FlightPut, HookReturns, FlightSettle, FlightStoreFails, FlightStep
<1>2. \A result \in FlightResult :
          LET next == Settled(fl, result) IN next.key = fl.key /\ next.pc = "settle"
  BY Zenon, <1>0 DEF Settled, FlightRecords
<1>3. ASSUME NEW next, flight' = [flight EXCEPT ![f] = next], next.pc # "put",
             fl.pc # "none", next.key = fl.key
      PROVE  FlightCurrent(f)'
  <2>1. flight'[f] = next
    BY Zenon, <1>3 DEF IInv, TypeOK
  <2> QED
    BY Zenon, <1>0, <1>3, <2>1 DEF FlightCurrent
<1>4. ASSUME FlightGet(f) PROVE FlightCurrent(f)'
  <2> DEFINE t == task[fl.key[1]]
             write == [fl EXCEPT !.pc = "put", !.version = t.state_version]
  <2>1. write.pc = "put" /\ write.version = t.state_version /\ write.key = fl.key
    BY Zenon, <1>0 DEF FlightRecords
  <2>2. [fl EXCEPT !.pc = "hook"].pc = "hook" /\ [fl EXCEPT !.pc = "hook"].key = fl.key
    BY Zenon, <1>0 DEF FlightRecords
  <2>3. fl.pc = "get" /\ fl.key[1] \in TaskIds /\ UNCHANGED task
    BY Zenon, <1>0, <1>4 DEF FlightGet, FlightStep, FlightCurrent
  <2>4. CASE /\ flight' = [flight EXCEPT ![f] = write]
             /\ t.state = "Running" /\ t.attempt = fl.key[2]
    <3>1. flight'[f] = write
      BY Zenon, <2>4 DEF IInv, TypeOK
    <3>2. t.state_version \in Nat
      BY Zenon, <2>3 DEF IInv, TypeOK, TaskRecords
    <3> QED
      BY <2>1, <2>3, <2>4, <3>1, <3>2 DEF FlightCurrent
  <2>5. \/ \E result \in FlightResult : flight' = [flight EXCEPT ![f] = Settled(fl, result)]
        \/ flight' = [flight EXCEPT ![f] = [fl EXCEPT !.pc = "hook"]]
        \/ /\ flight' = [flight EXCEPT ![f] = write]
           /\ t.state = "Running" /\ t.attempt = fl.key[2]
    BY Zenon, <1>4 DEF FlightGet, FlightResult
  <2> QED
    BY Zenon, <1>2, <1>3, <2>2, <2>3, <2>4, <2>5
<1>5. ASSUME FlightPut(f) PROVE FlightCurrent(f)'
  <2>1. /\ [fl EXCEPT !.pc = "get", !.version = 0].pc = "get"
        /\ [fl EXCEPT !.pc = "get", !.version = 0].key = fl.key
        /\ [fl EXCEPT !.pc = "hook", !.version = 0].pc = "hook"
        /\ [fl EXCEPT !.pc = "hook", !.version = 0].key = fl.key
        /\ fl.phase \in {"request", "clear", "record"}
    BY Zenon, <1>0 DEF FlightRecords, FlightPhase
  <2>2. AfterPut(fl).pc # "put" /\ AfterPut(fl).key = fl.key
    BY Zenon, <1>2, <2>1 DEF AfterPut, FlightResult
  <2>3. fl.pc = "put"
    BY Zenon, <1>5 DEF FlightPut, FlightStep
  <2>4. \/ flight' = [flight EXCEPT ![f] = AfterPut(fl)]
        \/ flight' = [flight EXCEPT ![f] = [fl EXCEPT !.pc = "get", !.version = 0]]
        \/ flight' = [flight EXCEPT ![f] = Settled(fl, "ServiceFailed")]
    BY Zenon, <1>5 DEF FlightPut
  <2> QED
    BY Zenon, <1>2, <1>3, <2>1, <2>2, <2>3, <2>4 DEF FlightResult
<1>6. ASSUME HookReturns(f) PROVE FlightCurrent(f)'
  <2>1. PICK phase : flight' = [flight EXCEPT ![f] = [fl EXCEPT !.pc = "get", !.phase = phase]]
    BY Zenon, <1>6 DEF HookReturns, IInv, TypeOK
  <2>2. /\ [fl EXCEPT !.pc = "get", !.phase = phase].pc = "get"
        /\ [fl EXCEPT !.pc = "get", !.phase = phase].key = fl.key
        /\ fl.pc = "hook"
    BY Zenon, <1>0, <1>6 DEF HookReturns, FlightStep, FlightRecords
  <2> QED
    BY Zenon, <1>3, <2>1, <2>2
<1>7. ASSUME FlightSettle(f) PROVE FlightCurrent(f)'
  <2>1. flight'[f].pc = "none"
    BY Zenon, <1>7 DEF FlightSettle, IInv, TypeOK, FlightIdle
  <2> QED
    BY Zenon, <2>1 DEF FlightCurrent
<1>8. ASSUME FlightStoreFails(f) PROVE FlightCurrent(f)'
  <2>1. flight' = [flight EXCEPT ![f] = Settled(fl, "ServiceFailed")] /\ fl.pc # "none"
    BY Zenon, <1>8 DEF FlightStoreFails, IInv, TypeOK
  <2> QED
    BY Zenon, <1>2, <1>3, <2>1 DEF FlightResult
<1>9. FlightCurrent(f)'
  BY Zenon, <1>4, <1>5, <1>6, <1>7, <1>8 DEF HookStep
<1>10. \A other \in Flights \ {f} : flight'[other] = flight[other]
  BY Zenon DEF HookStep, FlightGet, FlightPut, HookReturns, FlightSettle, FlightStoreFails, IInv, TypeOK
<1> QED
  BY Zenon, <1>1, <1>9, <1>10, OthersCurrent DEF SnapshotsCurrent

-----------------------------------------------------------------------------
\* A supervisor works on an attempt only from the step that started it.
LEMMA NewlyExecuting ==
    ASSUME IInv, Next, NEW k \in Keys, Executing(k)', ~Executing(k)
    PROVE  task'[k[1]].state = "Running" /\ task'[k[1]].attempt = k[2]
<1>1. CASE SchedulerStart
  <2> DEFINE id == sched.snap.id
             k0 == <<id, task[id].attempt + 1>>
  <2>1. /\ run' = [run EXCEPT ![k0] = [RunIdle EXCEPT !.pc = "load"]]
        /\ task' = [task EXCEPT ![id] = Started(@)]
    BY Zenon, <1>1 DEF SchedulerStart, Executing
  <2>2. k = k0
    BY Zenon, <2>1 DEF Executing, IInv, TypeOK
  <2>3. k[1] = id /\ k[2] = task[id].attempt + 1 /\ id \in TaskIds
    BY Zenon, <2>2 DEF Keys
  <2> QED
    BY Zenon, <2>1, <2>3 DEF Started, IInv, TypeOK
<1>2. CASE \E j \in Keys : AttemptStep(j)
  <2>1. PICK j \in Keys : AttemptStep(j)
    BY Zenon, <1>2
  <2>2. j = k
    BY Zenon, <2>1 DEF AttemptStep, RunLoad, RunInsertSignal, RunCheckCancel, HandlerReturns, FinishGet,
                FinishPut, FinishForget, FinishCheck, RunStoreFails, Executing, IInv, TypeOK
  <2>3. run[k].pc = "forget" /\ run' = [run EXCEPT ![k] = RunIdle]
    BY Zenon, <2>1, <2>2 DEF AttemptStep, RunLoad, RunInsertSignal, RunCheckCancel, HandlerReturns, FinishGet,
                FinishPut, FinishForget, FinishCheck, RunStoreFails, RunStep, Executing
  <2> QED
    BY Zenon, <2>3 DEF Executing, RunIdle, IInv, TypeOK
<1>3. CASE DiscardProcess
  BY Zenon, <1>3 DEF DiscardProcess, Executing, RunIdle
<1>4. CASE UNCHANGED run
  BY Zenon, <1>4 DEF Executing
<1> QED
  BY ZenonT(30), <1>1, <1>2, <1>3, <1>4
     DEF Next, StoreStep, Submit, DeadlinePasses, Evict, process, SchedulerStep, SchedulerScan,
         SchedulerReserve, SchedulerBypass, SchedulerRefuse, VisitNext, SchedulerEndScan,
         SchedulerBlock, SchedulerCheck, SchedulerStoreFails, CallerStep, CancelBegin, ResumeBegin,
         BeginCall, CancelWaiting, CancelRequest, CancelSignal, CancelJoin, ResumeWrite, CallDropped,
         CallStoreFails, CallStep, HookStep, FlightGet, FlightPut, HookReturns, FlightSettle,
         FlightStoreFails, FlightStep, LifetimeStep, Crash, RequestShutdown, ShutdownCompletes,
         Restart, Recover, RecoveryCompletes, RecoveryFails

\* No step takes a running task away from the supervisor that executes it.
LEMMA FencePreserved ==
    ASSUME IInv, Next, TaskStepped
    PROVE  AttemptFenced'
<1> SUFFICES ASSUME NEW k \in Keys, Executing(k)', Executing(k)
             PROVE  task'[k[1]].state = "Running" /\ task'[k[1]].attempt = k[2]
  BY Zenon, NewlyExecuting DEF AttemptFenced
<1>1. k[1] \in TaskIds /\ task[k[1]].state = "Running" /\ task[k[1]].attempt = k[2]
  BY Zenon DEF IInv, AttemptFenced, Keys
<1>2. CASE task'[k[1]] = task[k[1]]
  BY Zenon, <1>1, <1>2
<1>3. CASE Effect(k[1])
  <2>1. CASE Undisturbed(task[k[1]], task'[k[1]])
    BY Zenon, <1>1, <2>1 DEF Undisturbed
  <2>2. CASE svc = "recovering"
    BY <2>2 DEF IInv, NoProcessWhenDown, Executing, RunIdle
  <2>3. ASSUME NEW j \in Keys, j[1] = k[1], Executing(j), ~Executing(j)'
        PROVE  FALSE
    <3>1. j[2] = k[2]
      BY Zenon, <1>1, <2>3 DEF IInv, AttemptFenced
    <3>2. j = k
      BY <2>3, <3>1 DEF Keys
    <3> QED
      BY Zenon, <2>3, <3>2
  <2> QED
    BY Zenon, <1>3, <2>1, <2>2, <2>3 DEF Effect, Authorized
<1> QED
  BY Zenon, <1>1, <1>2, <1>3 DEF TaskStepped, Effect

\* Records that were never accepted stay pristine, and no write puts a task
\* with a cancellation request into the queue.
LEMMA RecordsPreserved ==
    ASSUME IInv, TaskStepped
    PROVE  UnbornPristine' /\ QueuedUnrequested'
<1> SUFFICES ASSUME NEW id \in TaskIds, task'[id].state \in {"Unborn", "Queued"}
             PROVE  /\ ~task'[id].cancel_requested
                    /\ task'[id].state = "Unborn" =>
                           task'[id].attempt = 0 /\ task'[id].state_version = 0
  BY Zenon DEF UnbornPristine, QueuedUnrequested
<1> DEFINE a == task[id]
           b == task'[id]
<1>1. /\ a \in TaskRecords
      /\ a.state \in {"Unborn", "Queued"} => ~a.cancel_requested
      /\ a.state = "Unborn" => a.attempt = 0 /\ a.state_version = 0
  BY Zenon DEF IInv, TypeOK, UnbornPristine, QueuedUnrequested
<1>2. b = a \/ Evolves(a, b)
  BY Zenon DEF TaskStepped, Effect
<1>3. CASE b = a \/ b = [a EXCEPT !.retry = "due"]
  <2>1. /\ b.state = a.state /\ b.state_version = a.state_version /\ b.attempt = a.attempt
        /\ b.cancel_requested = a.cancel_requested
    BY Zenon, <1>1, <1>3 DEF TaskRecords
  <2> QED
    BY Zenon, <1>1, <2>1
<1>4. CASE b = Accepted
  BY <1>4 DEF Accepted
<1>5. CASE b = [a EXCEPT !.state = "Removed"]
  BY Zenon, <1>1, <1>5 DEF TaskRecords
<1>6. CASE Moves(a, b)
  BY Zenon, <1>6 DEF Moves, IsTerminal, TerminalStates
<1> QED
  BY Zenon, <1>2, <1>3, <1>4, <1>5, <1>6 DEF Evolves

\* Without a serving process no scheduler, attempt, caller or hook can act.
LEMMA NobodyActsWhenDown ==
    ASSUME IInv, svc # "serving"
    PROVE  /\ ~SchedulerStep
           /\ \A k \in Keys : ~AttemptStep(k)
           /\ \A c \in Clients : ~CallerStep(c)
           /\ \A f \in Flights : ~HookStep(f)
<1>1. ~SchedulerStep
  <2>1. sched.pc = "idle" /\ page = {}
    BY SMTT(30) DEF IInv, NoProcessWhenDown, SchedIdle
  <2>2. ~SchedulerScan /\ ~SchedulerReserve /\ ~SchedulerBypass /\ ~SchedulerRefuse /\ ~SchedulerEndScan
    BY Zenon, <2>1 DEF SchedulerScan, SchedulerReserve, SchedulerBypass, SchedulerRefuse, SchedulerEndScan
  <2>3. ~SchedulerStart /\ ~SchedulerBlock /\ ~SchedulerCheck /\ ~SchedulerStoreFails
    BY Zenon, <2>1 DEF SchedulerStart, SchedulerBlock, SchedulerCheck, SchedulerStoreFails
  <2> QED
    BY Zenon, <2>2, <2>3 DEF SchedulerStep
<1>2. ASSUME NEW k \in Keys PROVE ~AttemptStep(k)
  <2>1. run[k].pc = "none"
    BY DEF IInv, NoProcessWhenDown, RunIdle
  <2> QED
    BY Zenon, <2>1 DEF AttemptStep, RunLoad, RunInsertSignal, RunCheckCancel,
         HandlerReturns, FinishGet, FinishPut, FinishForget, FinishCheck, RunStoreFails, RunStep
<1>3. ASSUME NEW c \in Clients PROVE ~CallerStep(c)
  <2>1. call[c].pc = "idle" /\ ~Admitted
    BY SMTT(30) DEF IInv, NoProcessWhenDown, CallIdle, Admitted
  <2> QED
    BY Zenon, <2>1 DEF CallerStep, CancelBegin, ResumeBegin, BeginCall, CancelWaiting, CancelRequest,
         CancelSignal, CancelJoin, ResumeWrite, CallDropped, CallStoreFails, CallStep
<1>4. ASSUME NEW f \in Flights PROVE ~HookStep(f)
  BY DEF IInv, NoProcessWhenDown, FlightIdle, HookStep, FlightGet, FlightPut, HookReturns,
         FlightSettle, FlightStoreFails, FlightStep
<1> QED
  BY Zenon, <1>1, <1>2, <1>3, <1>4

\* A process that is gone leaves nothing behind.
LEMMA DownPreserved ==
    ASSUME IInv, Next
    PROVE  NoProcessWhenDown'
<1> SUFFICES ASSUME svc' # "serving"
             PROVE  NoProcessWhenDown'
  BY Zenon DEF NoProcessWhenDown
<1>1. CASE DiscardProcess
  BY Zenon, <1>1 DEF DiscardProcess, NoProcessWhenDown
<1>2. CASE UNCHANGED process /\ svc # "serving"
  BY Zenon, <1>2 DEF process, NoProcessWhenDown, IInv
<1>3. CASE StoreStep
  BY Zenon, <1>2, <1>3 DEF StoreStep, Submit, DeadlinePasses, Evict, control
<1>4. CASE LifetimeStep
  BY Zenon, <1>1, <1>2, <1>4
     DEF LifetimeStep, Crash, RequestShutdown, ShutdownCompletes, Restart, Recover,
         RecoveryCompletes, RecoveryFails, control
<1>5. svc # "serving" \/ StoreStep \/ LifetimeStep
  <2>1. CASE SchedulerStep
    BY Zenon, <2>1 DEF SchedulerStep, SchedulerScan, SchedulerReserve, SchedulerBypass, SchedulerRefuse,
         VisitNext, SchedulerEndScan, SchedulerStart, SchedulerBlock, SchedulerCheck,
         CheckCompetingTransition, SchedulerStoreFails, LatchFault, control
  <2>2. CASE \E k \in Keys : AttemptStep(k)
    BY Zenon, <2>2 DEF AttemptStep, RunLoad, RunInsertSignal, RunCheckCancel, HandlerReturns, FinishGet,
         FinishPut, FinishForget, FinishCheck, CheckCompetingTransition, RunStoreFails, LatchFault,
         control
  <2>3. CASE \E c \in Clients : CallerStep(c)
    BY ZenonT(30), <2>3 DEF CallerStep, CancelBegin, ResumeBegin, BeginCall, CancelWaiting, CancelRequest,
         CancelSignal, CancelJoin, ResumeWrite, CallWrite, CallDropped, CallStoreFails, LatchFault,
         control
  <2>4. CASE \E f \in Flights : HookStep(f)
    BY Zenon, <2>4 DEF HookStep, FlightGet, FlightPut, HookReturns, FlightSettle, FlightStoreFails,
         LatchFault, control
  <2> QED
    BY Zenon, <2>1, <2>2, <2>3, <2>4 DEF Next
<1> QED
  BY Zenon, <1>3, <1>4, <1>5, NobodyActsWhenDown DEF Next

-----------------------------------------------------------------------------
\* The inductive invariant holds initially.
LEMMA InitInvariant == Init => IInv
<1> SUFFICES ASSUME Init PROVE IInv
  BY Zenon
<1>1. \A id \in TaskIds : /\ task[id].state = "Unborn" /\ task[id].attempt = 0
                          /\ task[id].state_version = 0 /\ ~task[id].cancel_requested
  BY Zenon DEF Init, Accepted
<1>2. UnbornPristine /\ QueuedUnrequested
  BY Zenon, <1>1 DEF UnbornPristine, QueuedUnrequested
<1>3. SnapshotsCurrent /\ AttemptFenced
  BY Zenon DEF Init, SnapshotsCurrent, AttemptFenced, Executing, RunCurrent, CallCurrent, FlightCurrent,
         SchedIdle, RunIdle, CallIdle, FlightIdle
<1>4. NoProcessWhenDown
  BY Zenon DEF Init, NoProcessWhenDown
<1> QED
  BY Zenon, <1>2, <1>3, <1>4, InitTyped DEF IInv

\* Every step changes at most one record, in a permitted way.
LEMMA NextStepsTask == IInv /\ Next => TaskStepped
BY Zenon, SystemStepEffect, ActorStepEffect DEF Next, TaskStepped

\* Every step keeps the inductive invariant.
LEMMA NextInvariant == IInv /\ [Next]_vars => IInv'
<1>1. ASSUME IInv, Next PROVE IInv'
  <2>1. TaskStepped
    BY Zenon, <1>1, NextStepsTask
  <2>2. TypeOK'
    BY Zenon, <1>1, StoreStepTyped, SchedulerStepTyped, AttemptStepTyped, CallerStepTyped, HookStepTyped,
       LifetimeStepTyped DEF Next, IInv
  <2>3. SnapshotsCurrent'
    BY Zenon, <1>1, <2>1, SystemStepCurrent, SchedulerStepCurrent, AttemptStepCurrent, CallerStepCurrent,
       HookStepCurrent DEF Next
  <2> QED
    BY Zenon, <1>1, <2>1, <2>2, <2>3, FencePreserved, RecordsPreserved, DownPreserved DEF IInv
<1>2. ASSUME IInv, UNCHANGED vars PROVE IInv'
  <2>1. TaskStepped
    BY Zenon, <1>2 DEF vars, TaskStepped
  <2>2. SnapshotsCurrent'
    <3>1. UNCHANGED <<page, sched, run, call, flight>>
      BY Zenon, <1>2 DEF vars
    <3> QED
      BY Zenon, <1>2, <2>1, <3>1, OthersCurrent DEF SnapshotsCurrent
  <2>3. AttemptFenced' /\ NoProcessWhenDown'
    BY Zenon, <1>2 DEF vars, IInv, AttemptFenced, Executing, NoProcessWhenDown
  <2>4. TypeOK'
    BY Zenon, <1>2 DEF vars, IInv, TypeOK
  <2> QED
    BY Zenon, <1>2, <2>1, <2>2, <2>3, <2>4, RecordsPreserved DEF IInv
<1> QED
  BY Zenon, <1>1, <1>2

\* The invariant holds in every reachable state.
THEOREM Invariant == Spec => []IInv
BY InitInvariant, NextInvariant, PTL DEF Spec

\* Every variable always has the shape its Rust counterpart gives it.
THEOREM TypesCorrect == Spec => []TypeOK
BY Invariant, PTL DEF IInv

\* While run_one or finish works on an attempt the store says Running with
\* that attempt: attempts of one task never overlap, and neither a stale
\* write nor recovery takes a task away from its handler.
THEOREM AttemptsFenced == Spec => []AttemptFenced
BY Invariant, PTL DEF IInv

\* Whatever an actor read before an await is outdated by version or current.
THEOREM SummariesCurrent == Spec => []SnapshotsCurrent
BY Invariant, PTL DEF IInv

\* No attempt starts once a cancellation request of the task is persisted.
THEOREM CancelledNotRestarted == Spec => NoAttemptAfterCancel
<1>1. ASSUME IInv, [Next]_vars, NEW id \in TaskIds, Retained(task[id]), task[id].cancel_requested
      PROVE  task'[id].attempt = task[id].attempt
  <2>1. TaskStepped
    BY Zenon, <1>1, NextStepsTask DEF vars, TaskStepped
  <2>2. task'[id] = task[id] \/ Evolves(task[id], task'[id])
    BY Zenon, <2>1 DEF TaskStepped, Effect
  <2>3. task[id] \in TaskRecords /\ task[id].state # "Unborn"
    BY Zenon, <1>1 DEF IInv, TypeOK, Retained, TaskStates, TerminalStates
  <2> QED
    BY ZenonT(30), <1>1, <2>2, <2>3 DEF Evolves, Moves, TaskRecords
<1>2. IInv /\ [Next]_vars =>
          [\A id \in TaskIds :
               Retained(task[id]) /\ task[id].cancel_requested
                   => task'[id].attempt = task[id].attempt]_vars
  BY Zenon, <1>1
<1> QED
  BY <1>2, Invariant, PTL DEF Spec, NoAttemptAfterCancel

-----------------------------------------------------------------------------
\* Two functions that differ at one argument.
LEMMA OneChange ==
    ASSUME NEW D, NEW f, NEW g, f = [i \in D |-> f[i]], g = [i \in D |-> g[i]],
           NEW d \in D, \A i \in D \ {d} : g[i] = f[i]
    PROVE  g = [f EXCEPT ![d] = g[d]] /\ (g[d] = f[d] => g = f)
BY Zenon

\* A change of one record is a step of the abstract lifecycle or leaves it
\* unchanged.
LEMMA EffectIsLifecycleStep ==
    ASSUME IInv, TypeOK', NEW id \in TaskIds, Effect(id)
    PROVE  Lifecycle!TaskStep(id) \/ UNCHANGED Lifecycle!lvars
<1> DEFINE a == task[id]
           b == task'[id]
           St == [i \in TaskIds |-> task[i].state]
           At == [i \in TaskIds |-> task[i].attempt]
           Int == [i \in TaskIds |-> task[i].cancel_requested]
<1>0. a \in TaskRecords /\ b \in TaskRecords
  BY Zenon DEF IInv, TypeOK
<1>1. \A other \in TaskIds \ {id} : task'[other] = task[other]
  BY Zenon DEF Effect
<1>2. /\ St = [i \in TaskIds |-> St[i]] /\ St' = [i \in TaskIds |-> St'[i]]
      /\ At = [i \in TaskIds |-> At[i]] /\ At' = [i \in TaskIds |-> At'[i]]
      /\ Int = [i \in TaskIds |-> Int[i]] /\ Int' = [i \in TaskIds |-> Int'[i]]
  BY Zenon
<1>3. /\ St[id] = a.state /\ At[id] = a.attempt /\ Int[id] = a.cancel_requested
      /\ St'[id] = b.state /\ At'[id] = b.attempt /\ Int'[id] = b.cancel_requested
      /\ \A other \in TaskIds \ {id} :
             St'[other] = St[other] /\ At'[other] = At[other] /\ Int'[other] = Int[other]
  BY Zenon, <1>1
<1> HIDE DEF St, At, Int, a, b
<1>4. St' = [St EXCEPT ![id] = b.state] /\ (b.state = a.state => St' = St)
  BY SMTT(30), <1>2, <1>3, OneChange
<1>5. At' = [At EXCEPT ![id] = b.attempt] /\ (b.attempt = a.attempt => At' = At)
  BY SMTT(30), <1>2, <1>3, OneChange
<1>6. /\ Int' = [Int EXCEPT ![id] = b.cancel_requested]
      /\ b.cancel_requested = a.cancel_requested => Int' = Int
  BY SMTT(30), <1>2, <1>3, OneChange
<1>7. CASE b = [a EXCEPT !.retry = "due"]
  <2>1. b.state = a.state /\ b.attempt = a.attempt /\ b.cancel_requested = a.cancel_requested
    BY Zenon, <1>0, <1>7 DEF TaskRecords
  <2>2. St' = St /\ At' = At /\ Int' = Int
    BY Zenon, <1>4, <1>5, <1>6, <2>1
  <2> QED
    BY Zenon, <2>2 DEF Lifecycle!lvars, St, At, Int
<1>8. CASE a.state = "Unborn" /\ a.attempt = 0 /\ b = Accepted
  <2>1. a.cancel_requested = FALSE
    BY Zenon, <1>0, <1>8 DEF IInv, QueuedUnrequested, TaskRecords, a
  <2>2. b.state = "Queued" /\ b.attempt = a.attempt /\ b.cancel_requested = a.cancel_requested
    BY Zenon, <1>8, <2>1 DEF Accepted
  <2>3. St' = [St EXCEPT ![id] = "Queued"] /\ At' = At /\ Int' = Int /\ St[id] = "Unborn"
    BY Zenon, <1>3, <1>4, <1>5, <1>6, <1>8, <2>2
  <2>4. Lifecycle!Accept(id)
    BY Zenon, <2>3 DEF Lifecycle!Accept, Lifecycle!Move, St, At, Int
  <2> QED
    BY Zenon, <2>4 DEF Lifecycle!TaskStep
<1>9. CASE IsTerminal(a.state) /\ b = [a EXCEPT !.state = "Removed"]
  <2>1. b.state = "Removed" /\ b.attempt = a.attempt /\ b.cancel_requested = a.cancel_requested
    BY Zenon, <1>0, <1>9 DEF TaskRecords
  <2>2. /\ St' = [St EXCEPT ![id] = "Removed"] /\ At' = At /\ Int' = Int
        /\ St[id] \in Lifecycle!Terminal
    BY Zenon, <1>3, <1>4, <1>5, <1>6, <1>9, <2>1 DEF IsTerminal, TerminalStates, Lifecycle!Terminal
  <2>3. Lifecycle!Forget(id)
    BY Zenon, <2>2 DEF Lifecycle!Forget, Lifecycle!Move, St, At, Int
  <2> QED
    BY Zenon, <2>3 DEF Lifecycle!TaskStep
<1>10. CASE Moves(a, b)
  <2>0. a.cancel_requested \in BOOLEAN /\ b.cancel_requested \in BOOLEAN
    BY Zenon, <1>0 DEF TaskRecords
  <2>1. CASE /\ a.state = "Queued" /\ ~a.cancel_requested
             /\ b.state = "Running" /\ ~b.cancel_requested /\ b.attempt = a.attempt + 1
    <3>1. /\ ~Int[id] /\ St[id] = "Queued" /\ St' = [St EXCEPT ![id] = "Running"]
          /\ At' = [At EXCEPT ![id] = At[id] + 1] /\ Int' = Int
      BY Zenon, <1>3, <1>4, <1>5, <1>6, <2>0, <2>1
    <3>2. Lifecycle!Begin(id)
      BY Zenon, <3>1 DEF Lifecycle!Begin, Lifecycle!Move, St, At, Int
    <3> QED
      BY Zenon, <3>2 DEF Lifecycle!TaskStep
  <2>2. CASE b.attempt = a.attempt /\ a.state = "Running" /\ b.state = "Running" /\ b.cancel_requested
    <3>1. /\ St[id] = "Running" /\ St' = St /\ At' = At /\ Int' = [Int EXCEPT ![id] = TRUE]
      BY Zenon, <1>3, <1>4, <1>5, <1>6, <2>0, <2>2
    <3>2. Lifecycle!RequestCancel(id)
      BY Zenon, <3>1 DEF Lifecycle!RequestCancel, St, At, Int
    <3> QED
      BY Zenon, <3>2 DEF Lifecycle!TaskStep
  <2>3. CASE /\ b.attempt = a.attempt /\ a.state = "Running" /\ IsTerminal(b.state)
             /\ b.cancel_requested = a.cancel_requested
    <3>1. /\ St[id] = "Running" /\ At' = At /\ Int' = Int
          /\ \E outcome \in Lifecycle!Terminal : St' = [St EXCEPT ![id] = outcome]
      BY Zenon, <1>3, <1>4, <1>5, <1>6, <2>3 DEF IsTerminal, TerminalStates, Lifecycle!Terminal
    <3>2. Lifecycle!Conclude(id)
      BY Zenon, <3>1 DEF Lifecycle!Conclude, Lifecycle!Move, St, At, Int
    <3> QED
      BY Zenon, <3>2 DEF Lifecycle!TaskStep
  <2>4. CASE /\ b.attempt = a.attempt /\ a.state \in {"Running", "Blocked"} /\ b.state = "Queued"
             /\ ~a.cancel_requested /\ ~b.cancel_requested
    <3>1. /\ ~Int[id] /\ St[id] \in {"Running", "Blocked"} /\ St' = [St EXCEPT ![id] = "Queued"]
          /\ At' = At /\ Int' = Int
      BY Zenon, <1>3, <1>4, <1>5, <1>6, <2>0, <2>4
    <3>2. Lifecycle!Requeue(id)
      BY Zenon, <3>1 DEF Lifecycle!Requeue, Lifecycle!Move, St, At, Int
    <3> QED
      BY Zenon, <3>2 DEF Lifecycle!TaskStep
  <2>5. CASE /\ b.attempt = a.attempt /\ a.state = (IF a.cancel_requested THEN "Running" ELSE "Queued")
             /\ b.state = "Blocked" /\ b.cancel_requested = a.cancel_requested
    <3>1. /\ St[id] \in (IF Int[id] THEN {"Running"} ELSE {"Queued"})
          /\ St' = [St EXCEPT ![id] = "Blocked"] /\ At' = At /\ Int' = Int
      BY Zenon, <1>3, <1>4, <1>5, <1>6, <2>0, <2>5
    <3>2. Lifecycle!Park(id)
      BY Zenon, <3>1 DEF Lifecycle!Park, Lifecycle!Move, St, At, Int
    <3> QED
      BY Zenon, <3>2 DEF Lifecycle!TaskStep
  <2>6. CASE /\ b.attempt = a.attempt /\ a.state \in {"Queued", "Blocked"}
             /\ b.state = "Cancelled" /\ ~b.cancel_requested
    <3>1. /\ St[id] \in {"Queued", "Blocked"} /\ St' = [St EXCEPT ![id] = "Cancelled"]
          /\ At' = At /\ Int' = [Int EXCEPT ![id] = FALSE]
      BY Zenon, <1>3, <1>4, <1>5, <1>6, <2>0, <2>6
    <3>2. Lifecycle!CancelWaiting(id)
      BY Zenon, <3>1 DEF Lifecycle!CancelWaiting, Lifecycle!Move, St, At, Int
    <3> QED
      BY Zenon, <3>2 DEF Lifecycle!TaskStep
  <2> QED
    BY Zenon, <1>10, <2>1, <2>2, <2>3, <2>4, <2>5, <2>6 DEF Moves
<1> QED
  BY Zenon, <1>7, <1>8, <1>9, <1>10 DEF Effect, Evolves, a, b

\* The service implements the abstract lifecycle of its tasks.
THEOREM LifecycleImplemented == Spec => ImplementsLifecycle
<1>1. Init => Lifecycle!Init
  <2> SUFFICES ASSUME Init PROVE Lifecycle!Init
    BY Zenon
  <2>1. \A id \in TaskIds :
            task[id].state = "Unborn" /\ task[id].attempt = 0 /\ task[id].cancel_requested = FALSE
    BY Zenon DEF Init, Accepted
  <2> QED
    BY Zenon, <2>1 DEF Lifecycle!Init
<1>2. IInv /\ IInv' /\ [Next]_vars => [Lifecycle!Next]_Lifecycle!lvars
  <2>1. ASSUME UNCHANGED task PROVE UNCHANGED Lifecycle!lvars
    BY Zenon, <2>1 DEF Lifecycle!lvars
  <2>2. ASSUME IInv, TypeOK', NEW id \in TaskIds, Effect(id)
        PROVE  Lifecycle!Next \/ UNCHANGED Lifecycle!lvars
    BY Zenon, <2>2, EffectIsLifecycleStep DEF Lifecycle!Next
  <2> QED
    BY Zenon, <2>1, <2>2, NextStepsTask DEF IInv, TaskStepped, vars
<1> QED
  BY <1>1, <1>2, Invariant, PTL DEF Spec, ImplementsLifecycle, Lifecycle!Spec

-----------------------------------------------------------------------------
(***************************************************************************)
(* What the races of the service cannot do, for every set of tasks,        *)
(* callers and hooks: run two hooks of an attempt, lose a hook's result,   *)
(* hide a request from the handler, start more handlers than               *)
(* max_running_tasks, or be taken for a failure of the store.              *)
(***************************************************************************)

(***************************************************************************)
(* External cancellation: the hook of an attempt runs once at a time and   *)
(* its result is stored.                                                   *)
(*                                                                         *)
(* The entry in external_cancellations that callers share is removed when  *)
(* finish has persisted the outcome, while the hook may still run.  A      *)
(* second hook does not begin all the same, for a reason that is not in    *)
(* that table: by then the attempt is over for good, and the get before    *)
(* the hook says so.  Hence the invariant speaks of attempts that are      *)
(* live, and of keys that were reached: once over, such an attempt never   *)
(* becomes live again.                                                     *)
(***************************************************************************)

Live(k) == task[k[1]].state = "Running" /\ task[k[1]].attempt = k[2]

Reached(k) == k \in Keys /\ k[2] <= task[k[1]].attempt

Acting(f) == flight[f].pc # "none"

CallKey(c) == <<call[c].snap.id, call[c].snap.attempt>>

\* Every attempt that starts has a row in the tables.
StartsBounded ==
    /\ \A s \in page : s.attempt < AttemptBound
    /\ sched.pc = "start" => sched.snap.attempt < AttemptBound
    /\ \A id \in TaskIds : task[id].state = "Running" => <<id, task[id].attempt>> \in Keys

CallReached(c) ==
    call[c].pc \in {"request", "signal", "join"} =>
        /\ Reached(CallKey(c))
        /\ CancellationMode[call[c].snap.id] =
               IF call[c].pc = "join" THEN "ExternalHook" ELSE "Cooperative"

FlightReached(f) ==
    Acting(f) => Reached(flight[f].key) /\ CancellationMode[flight[f].key[1]] = "ExternalHook"

EndReached(k) == run[k].pc = "forget" => Reached(k) /\ ~Live(k)

\* A live attempt has one operation, and callers find it.
Shared ==
    \A f \in Flights :
        Acting(f) /\ Live(flight[f].key) =>
            /\ ext[flight[f].key] = "InFlight"
            /\ \A g \in Flights : Acting(g) /\ flight[g].key = flight[f].key => g = f

HookInv ==
    /\ StartsBounded
    /\ \A c \in Clients : CallReached(c)
    /\ \A f \in Flights : FlightReached(f)
    /\ \A k \in Keys : EndReached(k)
    /\ Shared
    /\ OneHookPerAttempt
    /\ HookResultsPersisted

-----------------------------------------------------------------------------
\* Attempts are never taken back, a running attempt was running before or is
\* the next one, and a request stays.
LEMMA RecordMoves ==
    ASSUME IInv, TaskStepped, NEW id \in TaskIds
    PROVE  /\ task[id].attempt \in Nat
           /\ task'[id].attempt = task[id].attempt \/ task'[id].attempt = task[id].attempt + 1
           /\ task'[id].state = "Running" /\ task'[id].attempt = task[id].attempt
                  => /\ task[id].state = "Running"
                     /\ task[id].cancel_requested => task'[id].cancel_requested
<1> DEFINE a == task[id]
           b == task'[id]
<1>1. a \in TaskRecords /\ a.attempt \in Nat
  BY Zenon DEF IInv, TypeOK, TaskRecords
<1>2. b = a \/ Evolves(a, b)
  BY Zenon DEF TaskStepped, Effect
<1> HIDE DEF a, b
<1>3. CASE b = a \/ b = [a EXCEPT !.retry = "due"]
  BY Zenon, <1>1, <1>3 DEF a, b, TaskRecords
<1>4. CASE a.state = "Unborn" /\ a.attempt = 0 /\ b = Accepted
  BY <1>1, <1>4 DEF a, b, Accepted
<1>5. CASE IsTerminal(a.state) /\ b = [a EXCEPT !.state = "Removed"]
  BY Zenon, <1>1, <1>5 DEF a, b, TaskRecords
<1>6. CASE Moves(a, b)
  <2>1. b.attempt = a.attempt \/ b.attempt = a.attempt + 1
    BY Zenon, <1>6 DEF Moves
  <2>2. b.state = "Running" /\ b.attempt = a.attempt => a.state = "Running" /\ b.cancel_requested
    BY <1>1, <1>6 DEF Moves, IsTerminal, TerminalStates
  <2> QED
    BY Zenon, <1>1, <2>1, <2>2 DEF a, b
<1> QED
  BY Zenon, <1>2, <1>3, <1>4, <1>5, <1>6 DEF Evolves

\* An attempt that was reached stays so; if it is live, it was before.
LEMMA ReachedKept ==
    ASSUME IInv, TaskStepped, NEW k, Reached(k)
    PROVE  /\ Reached(k)'
           /\ Live(k)' => Live(k)
           /\ Live(k)' /\ task[k[1]].cancel_requested => task'[k[1]].cancel_requested
<1>1. k[1] \in TaskIds /\ k[2] \in Nat /\ k[2] <= task[k[1]].attempt /\ k \in Keys
  BY DEF Reached, Keys
<1>2. /\ task[k[1]].attempt \in Nat
      /\ task'[k[1]].attempt = task[k[1]].attempt \/ task'[k[1]].attempt = task[k[1]].attempt + 1
  BY Zenon, <1>1, RecordMoves
<1>3. k[2] <= task'[k[1]].attempt
  BY <1>1, <1>2
<1>4. task'[k[1]].attempt = k[2] => task'[k[1]].attempt = task[k[1]].attempt
  BY <1>1, <1>2
<1> QED
  BY Zenon, <1>1, <1>3, <1>4, RecordMoves DEF Reached, Live

\* Only start_encoded changes the attempt of a record.
LEMMA AttemptKept ==
    ASSUME IInv, Next, NEW id \in TaskIds
    PROVE  task'[id].attempt = task[id].attempt \/ SchedulerStart
<1> DEFINE Same == task'[id].attempt = task[id].attempt
<1>1. ASSUME NEW i, NEW cmd, Commit(i, cmd) PROVE Same
  BY Zenon, <1>1 DEF Commit, Transitioned, IInv, TypeOK
<1>2. CASE UNCHANGED task
  BY Zenon, <1>2
<1>3. CASE StoreStep
  BY <1>3 DEF StoreStep, Submit, DeadlinePasses, Evict, IInv, TypeOK, TaskRecords, UnbornPristine, Accepted
<1> HIDE DEF Same
<1>4. CASE SchedulerStep
  BY Zenon, <1>1, <1>2, <1>4
     DEF Same, SchedulerStep, SchedulerScan, SchedulerReserve, SchedulerBypass, SchedulerRefuse,
         VisitNext, SchedulerEndScan, SchedulerBlock, SchedulerCheck, SchedulerStoreFails
<1>5. ASSUME NEW k \in Keys, AttemptStep(k) PROVE Same
  BY Zenon, <1>1, <1>2, <1>5
     DEF Same, AttemptStep, RunLoad, RunInsertSignal, RunCheckCancel, HandlerReturns, FinishGet,
         FinishPut, FinishForget, FinishCheck, RunStoreFails
<1>6. ASSUME NEW c \in Clients, CallerStep(c) PROVE Same
  BY Zenon, <1>1, <1>2, <1>6
     DEF Same, CallerStep, CancelBegin, ResumeBegin, BeginCall, CancelWaiting, CancelRequest,
         CancelSignal, CancelJoin, ResumeWrite, CallDropped, CallStoreFails, CallWrite
<1>7. ASSUME NEW f \in Flights, HookStep(f) PROVE Same
  BY Zenon, <1>1, <1>2, <1>7
     DEF Same, HookStep, FlightGet, FlightPut, HookReturns, FlightSettle, FlightStoreFails
<1>8. CASE LifetimeStep
  BY Zenon, <1>1, <1>2, <1>8
     DEF Same, LifetimeStep, Crash, RequestShutdown, ShutdownCompletes, DiscardProcess, Restart, Recover,
         RecoveryCompletes, RecoveryFails
<1> QED
  BY Zenon, <1>3, <1>4, <1>5, <1>6, <1>7, <1>8 DEF Next, Same


\* The writes that keep a task running: a cooperative request, and the three
\* writes of a hook of this very attempt.
LEMMA RunningWrites ==
    ASSUME IInv, Next, NEW id \in TaskIds,
           task[id].state = "Running", task'[id].state = "Running"
    PROVE  \/ task'[id] = task[id]
           \/ \E c \in Clients :
                  /\ CancelRequest(c)
                  /\ CallKey(c) = <<id, task[id].attempt>>
                  /\ call' = [call EXCEPT ![c] = [call[c] EXCEPT !.pc = "signal"]]
           \/ \E f \in Flights :
                  /\ FlightPut(f)
                  /\ flight[f].key = <<id, task[id].attempt>>
<1> DEFINE Same == task'[id] = task[id]
<1>1. ASSUME NEW i, NEW cmd, Commit(i, cmd), i = id => cmd.state # "Running" PROVE Same
  BY Zenon, <1>1 DEF Commit, Transitioned, IInv, TypeOK
<1>2. ASSUME UNCHANGED task PROVE Same
  BY Zenon, <1>2
<1>3. ASSUME StoreStep PROVE Same
  BY Zenon, <1>3 DEF StoreStep, Submit, DeadlinePasses, Evict, IInv, TypeOK, IsTerminal, TerminalStates
<1>4. ASSUME SchedulerStart PROVE Same
  <2>1. ASSUME StartResult(task[sched.snap.id], sched.snap.state_version) = "Ok"
        PROVE  sched.snap.id # id
    BY Zenon, <2>1 DEF StartResult
  <2> QED
    BY Zenon, <1>4, <2>1 DEF SchedulerStart, IInv, TypeOK
<1> HIDE DEF Same
<1>5. ASSUME SchedulerStep PROVE Same
  BY Zenon, <1>1, <1>2, <1>4, <1>5
     DEF SchedulerStep, SchedulerScan, SchedulerReserve, SchedulerBypass, SchedulerRefuse,
         VisitNext, SchedulerEndScan, SchedulerBlock, SchedulerCheck, SchedulerStoreFails, Command
<1>6. ASSUME NEW k \in Keys, AttemptStep(k) PROVE Same
  <2>1. FinishCommand(k).state # "Running"
    BY Zenon DEF FinishCommand, IInv, TypeOK, RunRecords, Outcomes, TerminalStates
  <2> QED
    BY Zenon, <1>1, <1>2, <1>6, <2>1
       DEF AttemptStep, RunLoad, RunInsertSignal, RunCheckCancel, HandlerReturns, FinishGet,
           FinishPut, FinishForget, FinishCheck, RunStoreFails
<1>7. ASSUME NEW c \in Clients, CancelRequest(c), ~Same
      PROVE  /\ CallKey(c) = <<id, task[id].attempt>>
             /\ call' = [call EXCEPT ![c] = [call[c] EXCEPT !.pc = "signal"]]
  <2> DEFINE s == call[c].snap
             cmd == Command(s, "Running", TRUE, FALSE)
  <2>1. /\ TransitionResult(task[s.id], cmd) = "Ok" /\ Commit(s.id, cmd)
        /\ call' = [call EXCEPT ![c] = [call[c] EXCEPT !.pc = "signal"]]
    BY Zenon, <1>2, <1>7 DEF CancelRequest, CallWrite
  <2>2. s.id = id
    BY Zenon, <1>1, <1>7, <2>1
  <2>3. cmd.attempt = s.attempt
    BY Zenon DEF Command
  <2>4. task[id].attempt = s.attempt
    BY Zenon, <2>1, <2>2, <2>3 DEF TransitionResult
  <2> QED
    BY Zenon, <2>1, <2>2, <2>4 DEF CallKey
<1>8. ASSUME NEW c \in Clients, CallerStep(c), ~CancelRequest(c) PROVE Same
  BY Zenon, <1>1, <1>2, <1>8
     DEF CallerStep, CancelBegin, ResumeBegin, BeginCall, CancelWaiting,
         CancelSignal, CancelJoin, ResumeWrite, CallDropped, CallStoreFails, CallWrite, Command
<1>9. ASSUME NEW f \in Flights, FlightPut(f), ~Same
      PROVE  flight[f].key = <<id, task[id].attempt>>
  <2> DEFINE cmd == FlightCommand(flight[f])
  <2>1. TransitionResult(task[flight[f].key[1]], cmd) = "Ok" /\ Commit(flight[f].key[1], cmd)
    BY Zenon, <1>2, <1>9 DEF FlightPut
  <2>2. flight[f].key[1] = id
    BY Zenon, <1>1, <1>9, <2>1
  <2>3. task[id].attempt = cmd.attempt
    BY Zenon, <2>1, <2>2 DEF TransitionResult
  <2>4. cmd.attempt = flight[f].key[2]
    BY Zenon DEF FlightCommand
  <2>5. flight[f].key \in Nat \X Nat
    BY Zenon DEF IInv, TypeOK, FlightRecords
  <2> QED
    BY <2>2, <2>3, <2>4, <2>5
<1>10. ASSUME NEW f \in Flights, HookStep(f), ~FlightPut(f) PROVE Same
  BY Zenon, <1>2, <1>10
     DEF HookStep, FlightGet, HookReturns, FlightSettle, FlightStoreFails
<1>11. ASSUME LifetimeStep PROVE Same
  <2>1. ASSUME NEW i \in TaskIds, Recover(i) PROVE Same
    <3> DEFINE cmd == Command(Snapshot(i), IF task[i].cancel_requested THEN "Blocked" ELSE "Queued",
                              task[i].cancel_requested, task[i].cancel_error)
    <3>1. cmd.state # "Running"
      BY Zenon DEF Command
    <3> QED
      BY Zenon, <1>1, <2>1, <3>1 DEF Recover
  <2> QED
    BY Zenon, <1>2, <1>11, <2>1
       DEF LifetimeStep, Crash, RequestShutdown, ShutdownCompletes, DiscardProcess, Restart,
           RecoveryCompletes, RecoveryFails
<1>12. CASE \E c \in Clients : CallerStep(c)
  BY Zenon, <1>7, <1>8, <1>12 DEF Same
<1>13. CASE \E f \in Flights : HookStep(f)
  BY Zenon, <1>9, <1>10, <1>13 DEF Same
<1> QED
  BY Zenon, <1>3, <1>5, <1>6, <1>11, <1>12, <1>13 DEF Next, Same

-----------------------------------------------------------------------------
\* Who changes what.
LEMMA Frames ==
    ASSUME Next
    PROVE  \/ /\ UNCHANGED process
              /\ UNCHANGED task \/ StoreStep \/ \E id \in TaskIds : Recover(id)
           \/ DiscardProcess
           \/ SchedulerStep /\ UNCHANGED <<signal, call, flight, ext>>
           \/ \E k \in Keys :
                  /\ AttemptStep(k)
                  /\ UNCHANGED <<page, sched, call, flight>>
                  /\ \E next : run' = [run EXCEPT ![k] = next]
           \/ \E c \in Clients :
                  /\ CallerStep(c)
                  /\ UNCHANGED <<page, sched, run>>
                  /\ \E next : call' = [call EXCEPT ![c] = next]
           \/ \E f \in Flights :
                  /\ HookStep(f)
                  /\ UNCHANGED <<page, sched, run, signal, call>>
                  /\ \E next : flight' = [flight EXCEPT ![f] = next]
<1>1. CASE StoreStep
  BY Zenon, <1>1 DEF StoreStep, Submit, DeadlinePasses, Evict
<1>2. CASE SchedulerStep
  BY Zenon, <1>2
     DEF SchedulerStep, SchedulerScan, SchedulerReserve, SchedulerBypass, SchedulerRefuse, VisitNext,
         SchedulerEndScan, SchedulerStart, SchedulerBlock, SchedulerCheck, SchedulerStoreFails
<1>3. ASSUME NEW k \in Keys, AttemptStep(k)
      PROVE  UNCHANGED <<page, sched, call, flight>> /\ \E next : run' = [run EXCEPT ![k] = next]
  BY Zenon, <1>3
     DEF AttemptStep, RunLoad, RunInsertSignal, RunCheckCancel, HandlerReturns, FinishGet,
         FinishPut, FinishForget, FinishCheck, RunStoreFails, RunStep
<1>4. ASSUME NEW c \in Clients, CallerStep(c)
      PROVE  UNCHANGED <<page, sched, run>> /\ \E next : call' = [call EXCEPT ![c] = next]
  BY Zenon, <1>4
     DEF CallerStep, CancelBegin, ResumeBegin, BeginCall, CancelWaiting, CancelRequest,
         CancelSignal, CancelJoin, ResumeWrite, CallDropped, CallStoreFails, CallStep, CallWrite
<1>5. ASSUME NEW f \in Flights, HookStep(f)
      PROVE  /\ UNCHANGED <<page, sched, run, signal, call>>
             /\ \E next : flight' = [flight EXCEPT ![f] = next]
  BY Zenon, <1>5
     DEF HookStep, FlightGet, FlightPut, HookReturns, FlightSettle, FlightStoreFails, FlightStep
<1>6. CASE LifetimeStep
  BY Zenon, <1>6
     DEF LifetimeStep, Crash, RequestShutdown, ShutdownCompletes, Restart, Recover,
         RecoveryCompletes, RecoveryFails
<1> QED
  BY Zenon, <1>1, <1>2, <1>3, <1>4, <1>5, <1>6 DEF Next


-----------------------------------------------------------------------------
\* Attempts start within the tables: the page holds tasks below the bound, and
\* start_encoded starts the revision that was listed.
LEMMA StartsKept ==
    ASSUME IInv, HookInv, Next
    PROVE  StartsBounded'
<1>0. TaskStepped
  BY Zenon, NextStepsTask
<1>1. /\ \A s \in page' : s.attempt < AttemptBound
      /\ sched'.pc = "start" => sched'.snap.attempt < AttemptBound
  <2>1. CASE UNCHANGED <<page, sched>>
    BY Zenon, <2>1 DEF HookInv, StartsBounded
  <2>2. CASE DiscardProcess
    BY Zenon, <2>2 DEF DiscardProcess, SchedIdle
  <2>3. CASE SchedulerScan
    BY <2>3 DEF SchedulerScan, Ready, Snapshot
  <2>4. CASE SchedulerReserve
    BY <2>4 DEF SchedulerReserve, VisitNext, HookInv, StartsBounded
  <2>5. CASE SchedulerBypass \/ SchedulerRefuse
    BY <2>5 DEF SchedulerBypass, SchedulerRefuse, VisitNext, HookInv, StartsBounded
  <2>6. CASE SchedulerEndScan \/ SchedulerStoreFails
    BY <2>6 DEF SchedulerEndScan, SchedulerStoreFails, SchedIdle
  <2>7. CASE SchedulerStart
    BY <2>7 DEF SchedulerStart, SchedIdle, HookInv, StartsBounded
  <2>8. CASE SchedulerBlock \/ SchedulerCheck
    <3>1. UNCHANGED page /\ sched' \in {[pc |-> "scan", snap |-> NoSnapshot], [sched EXCEPT !.pc = "check"]}
      BY Zenon, <2>8 DEF SchedulerBlock, SchedulerCheck
    <3>2. sched'.pc # "start"
      BY <3>1 DEF IInv, TypeOK, SchedRecords
    <3> QED
      BY Zenon, <3>1, <3>2 DEF HookInv, StartsBounded
  <2> QED
    BY Zenon, <2>1, <2>2, <2>3, <2>4, <2>5, <2>6, <2>7, <2>8, Frames DEF process, SchedulerStep
<1>2. ASSUME NEW id \in TaskIds, task'[id].state = "Running"
      PROVE  <<id, task'[id].attempt>> \in Keys
  <2>1. CASE task'[id].attempt = task[id].attempt
    <3>1. task[id].state = "Running"
      BY Zenon, <1>0, <1>2, <2>1, RecordMoves
    <3> QED
      BY Zenon, <2>1, <3>1 DEF HookInv, StartsBounded
  <2>2. CASE SchedulerStart /\ task'[id].attempt # task[id].attempt
    <3> DEFINE s == sched.snap
    <3>1. /\ s.id = id /\ StartResult(task[s.id], s.state_version) = "Ok" /\ sched.pc = "start"
          /\ task' = [task EXCEPT ![s.id] = Started(@)]
      BY Zenon, <2>2 DEF SchedulerStart, IInv, TypeOK
    <3>2. task[id].state_version = s.state_version
      BY Zenon, <3>1 DEF StartResult
    <3>3. task[id].attempt = s.attempt /\ s.attempt < AttemptBound
      BY Zenon, <3>1, <3>2 DEF IInv, SnapshotsCurrent, Current, HookInv, StartsBounded
    <3>4. task'[id].attempt = task[id].attempt + 1 /\ task[id].attempt \in Nat
      BY Zenon, <3>1 DEF Started, IInv, TypeOK, TaskRecords
    <3> QED
      BY <3>3, <3>4, ServiceAssumption DEF Keys
  <2> QED
    BY Zenon, <2>1, <2>2, AttemptKept
<1> QED
  BY Zenon, <1>1, <1>2 DEF StartsBounded

\* Callers at the hook or at the flag refer to an attempt that was reached.
LEMMA CallsKept ==
    ASSUME IInv, HookInv, Next
    PROVE  \A c \in Clients : CallReached(c)'
<1> SUFFICES ASSUME NEW c \in Clients, call'[c].pc \in {"request", "signal", "join"}
             PROVE  /\ Reached(CallKey(c))'
                    /\ CancellationMode[call'[c].snap.id] =
                           IF call'[c].pc = "join" THEN "ExternalHook" ELSE "Cooperative"
  BY Zenon DEF CallReached
<1>0. TaskStepped
  BY Zenon, NextStepsTask
<1>1. CASE call'[c] = call[c]
  <2>1. Reached(CallKey(c)) /\ CallKey(c)' = CallKey(c)
    BY Zenon, <1>1 DEF HookInv, CallReached, CallKey
  <2>2. Reached(CallKey(c))'
    BY Zenon, <1>0, <2>1, ReachedKept DEF Reached
  <2> QED
    BY Zenon, <1>1, <2>2 DEF HookInv, CallReached
<1>2. ASSUME NEW id \in TaskIds, NEW pc \in {"request", "join"}, BeginCall(c, id, pc),
             task[id].state = "Running",
             CancellationMode[id] = IF pc = "join" THEN "ExternalHook" ELSE "Cooperative"
      PROVE  /\ Reached(CallKey(c))'
             /\ CancellationMode[call'[c].snap.id] =
                    IF call'[c].pc = "join" THEN "ExternalHook" ELSE "Cooperative"
  <2>1. /\ call'[c].pc = pc /\ call'[c].snap.id = id /\ call'[c].snap.attempt = task[id].attempt
        /\ UNCHANGED task
    BY Zenon, <1>2 DEF BeginCall, Snapshot, IInv, TypeOK
  <2>2. <<id, task[id].attempt>> \in Keys /\ task[id].attempt \in Nat
    BY Zenon, <1>2 DEF HookInv, StartsBounded, IInv, TypeOK, TaskRecords
  <2>3. Reached(CallKey(c))'
    BY <2>1, <2>2 DEF CallKey, Reached
  <2> QED
    BY Zenon, <1>2, <2>1, <2>3
<1>3. CASE CancelRequest(c)
  <2>1. call'[c] = [call[c] EXCEPT !.pc = "signal"] \/ call'[c] = CallIdle
    BY Zenon, <1>3 DEF CancelRequest, CallWrite, IInv, TypeOK
  <2>2. call'[c].pc = "signal" /\ call'[c].snap = call[c].snap
    BY <2>1 DEF CallIdle, IInv, TypeOK, CallRecords
  <2>3. call[c].pc = "request"
    BY Zenon, <1>3 DEF CancelRequest, CallStep
  <2>4. Reached(CallKey(c)) /\ CancellationMode[call[c].snap.id] = "Cooperative"
    BY Zenon, <2>3 DEF HookInv, CallReached
  <2>5. CallKey(c)' = CallKey(c)
    BY Zenon, <2>2 DEF CallKey
  <2>6. Reached(CallKey(c))'
    BY Zenon, <1>0, <2>4, <2>5, ReachedKept DEF Reached
  <2> QED
    BY Zenon, <2>2, <2>4, <2>6
<1>4. ASSUME call'[c] = CallIdle
      PROVE  FALSE
  BY <1>4 DEF CallIdle
<1>5. ASSUME CallerStep(c), ~CancelRequest(c), \A id \in TaskIds : ~CancelBegin(c, id)
      PROVE  call'[c] = CallIdle
  <2>1. ASSUME NEW id \in TaskIds, ResumeBegin(c, id) PROVE FALSE
    <3>1. call'[c].pc = "resume"
      BY Zenon, <2>1 DEF ResumeBegin, BeginCall, IInv, TypeOK
    <3> QED
      BY Zenon, <3>1
  <2>2. call' = [call EXCEPT ![c] = CallIdle]
    BY Zenon, <1>5, <2>1
       DEF CallerStep, CancelWaiting, CancelSignal, CancelJoin, ResumeWrite, CallDropped,
           CallStoreFails, CallWrite
  <2> QED
    BY Zenon, <2>2 DEF IInv, TypeOK
<1>6. ASSUME NEW id \in TaskIds, CancelBegin(c, id)
      PROVE  \E pc \in {"request", "join"} :
                 /\ BeginCall(c, id, pc)
                 /\ task[id].state = "Running"
                 /\ CancellationMode[id] = IF pc = "join" THEN "ExternalHook" ELSE "Cooperative"
  <2>1. ASSUME BeginCall(c, id, "cancel_waiting") PROVE FALSE
    <3>1. call'[c].pc = "cancel_waiting"
      BY Zenon, <2>1 DEF BeginCall, IInv, TypeOK
    <3> QED
      BY Zenon, <3>1
  <2> QED
    BY Zenon, <1>6, <2>1 DEF CancelBegin
<1>7. CASE DiscardProcess
  BY Zenon, <1>7 DEF DiscardProcess, CallIdle
<1>8. ASSUME NEW d \in Clients, CallerStep(d), d # c, \E next : call' = [call EXCEPT ![d] = next]
      PROVE  call'[c] = call[c]
  BY Zenon, <1>8 DEF IInv, TypeOK
<1>9. CASE CallerStep(c)
  BY ZenonT(30), <1>2, <1>3, <1>4, <1>5, <1>6, <1>9
<1> QED
  BY Zenon, <1>1, <1>7, <1>8, <1>9, Frames DEF process


\* How a step of a hook moves it: its key stays, and it enters the hook only
\* when the store says that its attempt is live and to be cancelled.
LEMMA HookMoves ==
    ASSUME IInv, NEW f \in Flights, HookStep(f)
    PROVE  /\ Acting(f)
           /\ flight'[f] = FlightIdle \/ (Acting(f)' /\ flight'[f].key = flight[f].key)
           /\ \A g \in Flights \ {f} : flight'[g] = flight[g]
           /\ flight'[f].pc = "hook" \/ (flight'[f].pc = "settle" /\ flight'[f].result = "HookFailed")
                  => /\ Live(flight[f].key)
                     /\ task'[flight[f].key[1]].cancel_requested
                     /\ flight'[f].pc = "settle" => task'[flight[f].key[1]].cancel_error
<1> DEFINE fl == flight[f]
           id == fl.key[1]
<1>0. /\ fl \in FlightRecords /\ flight \in [Flights -> FlightRecords] /\ FlightCurrent(f)
      /\ \A i \in TaskIds : task[i] \in TaskRecords
  BY Zenon DEF IInv, TypeOK, SnapshotsCurrent
<1>1. CASE FlightGet(f)
  <2> DEFINE t == task[id]
  <2>1. /\ fl.pc = "get" /\ UNCHANGED task
        /\ flight' = [flight EXCEPT ![f] =
               IF ~Retained(t) THEN Settled(fl, "ServiceFailed")
               ELSE IF t.state # "Running" \/ t.attempt # fl.key[2]
                    THEN Settled(fl, "AlreadyTerminal")
               ELSE IF fl.phase = "request" /\ t.cancel_requested /\ ~t.cancel_error
                    THEN [fl EXCEPT !.pc = "hook"]
               ELSE IF fl.phase = "clear" /\ ~t.cancel_error
                    THEN Settled(fl, "Success")
               ELSE [fl EXCEPT !.pc = "put", !.version = t.state_version]]
    BY Zenon, <1>1 DEF FlightGet, FlightStep
  <2>2. \A g \in Flights \ {f} : flight'[g] = flight[g]
    BY Zenon, <1>0, <2>1
  <2>3. \/ flight'[f] = [fl EXCEPT !.pc = "hook"] /\ Live(fl.key) /\ t.cancel_requested
        \/ \E r \in {"ServiceFailed", "AlreadyTerminal", "Success"} : flight'[f] = Settled(fl, r)
        \/ flight'[f] = [fl EXCEPT !.pc = "put", !.version = t.state_version]
    BY Zenon, <1>0, <2>1 DEF Live
  <2>4. /\ flight'[f].pc # "none" /\ flight'[f].key = fl.key
        /\ ~(flight'[f].pc = "settle" /\ flight'[f].result = "HookFailed")
        /\ flight'[f].pc = "hook" => Live(fl.key) /\ t.cancel_requested
    BY ZenonT(30), <1>0, <2>3 DEF Settled, FlightRecords
  <2> QED
    BY Zenon, <2>1, <2>2, <2>4 DEF Acting
<1>2. CASE FlightPut(f)
  <2> DEFINE cmd == FlightCommand(fl)
  <2>1. fl.pc = "put" /\ \A g \in Flights \ {f} : flight'[g] = flight[g]
    BY Zenon, <1>0, <1>2 DEF FlightPut, FlightStep
  <2>2. CASE TransitionResult(task[id], cmd) = "Ok" /\ Commit(id, cmd)
               /\ flight' = [flight EXCEPT ![f] = AfterPut(fl)]
    <3>1. id \in TaskIds /\ task[id].state_version = fl.version
      BY Zenon, <1>0, <2>1, <2>2 DEF FlightCurrent, TransitionResult, FlightCommand
    <3>2. Live(fl.key)
      BY Zenon, <1>0, <2>1, <3>1 DEF FlightCurrent, Live
    <3>3. task'[id] = Transitioned(task[id], cmd)
      BY Zenon, <2>2, <3>1 DEF Commit, IInv, TypeOK
    <3>4. task'[id].cancel_requested /\ (fl.phase = "record" => task'[id].cancel_error)
      <4>1. task'[id].cancel_requested = cmd.cancel_requested /\ task'[id].cancel_error = cmd.cancel_error
        BY <3>3 DEF Transitioned
      <4>2. cmd.cancel_requested = TRUE /\ cmd.cancel_error = (fl.phase = "record")
        BY Zenon DEF FlightCommand
      <4> QED
        BY <4>1, <4>2, Zenon
    <3>5. flight'[f] = AfterPut(fl) /\ fl.phase \in FlightPhase
      BY Zenon, <1>0, <2>2 DEF FlightRecords
    <3>6. /\ flight'[f].pc # "none" /\ flight'[f].key = fl.key
          /\ flight'[f].pc = "settle" /\ flight'[f].result = "HookFailed" => fl.phase = "record"
      BY Zenon, <1>0, <3>5 DEF AfterPut, Settled, FlightPhase, FlightRecords
    <3> QED
      BY Zenon, <2>1, <3>2, <3>4, <3>6 DEF Acting
  <2>3. CASE flight' = [flight EXCEPT ![f] = [fl EXCEPT !.pc = "get", !.version = 0]]
    BY Zenon, <1>0, <2>1, <2>3 DEF Acting, FlightRecords
  <2>4. CASE flight' = [flight EXCEPT ![f] = Settled(fl, "ServiceFailed")]
    BY Zenon, <1>0, <2>1, <2>4 DEF Acting, FlightRecords, Settled
  <2> QED
    BY Zenon, <1>2, <2>2, <2>3, <2>4 DEF FlightPut
<1>3. CASE HookReturns(f)
  <2>1. fl.pc = "hook"
    BY Zenon, <1>3 DEF HookReturns, FlightStep
  <2>2. PICK phase \in {"clear", "record"} :
            flight' = [flight EXCEPT ![f] = [@ EXCEPT !.pc = "get", !.phase = phase]]
    BY Zenon, <1>3 DEF HookReturns
  <2> QED
    BY Zenon, <1>0, <2>1, <2>2 DEF Acting, FlightRecords
<1>4. CASE FlightSettle(f)
  BY Zenon, <1>0, <1>4 DEF FlightSettle, FlightStep, Acting, FlightIdle
<1>5. CASE FlightStoreFails(f)
  BY Zenon, <1>0, <1>5 DEF FlightStoreFails, Acting, Settled, FlightRecords
<1> QED
  BY Zenon, <1>1, <1>2, <1>3, <1>4, <1>5 DEF HookStep

\* A caller that begins a hook does so in a free slot, for a key without entry.
LEMMA JoinMoves ==
    ASSUME IInv, NEW c \in Clients, CallerStep(c)
    PROVE  \/ UNCHANGED <<flight, ext>>
           \/ /\ call[c].pc = "join" /\ ext[CallKey(c)] = "none"
              /\ ext' = [ext EXCEPT ![CallKey(c)] = "InFlight"]
              /\ \E f \in Flights :
                     /\ flight[f].pc = "none"
                     /\ flight'[f].pc = "get" /\ flight'[f].key = CallKey(c)
                     /\ \A g \in Flights \ {f} : flight'[g] = flight[g]
<1>1. CASE UNCHANGED <<flight, ext>>
  BY Zenon, <1>1
<1>2. CASE CancelJoin(c)
  <2>1. ASSUME NEW f \in Flights, flight[f].pc = "none",
               flight' = [flight EXCEPT ![f] = [FlightIdle EXCEPT !.pc = "get", !.key = CallKey(c)]]
        PROVE  /\ flight'[f].pc = "get" /\ flight'[f].key = CallKey(c)
               /\ \A g \in Flights \ {f} : flight'[g] = flight[g]
    BY Zenon, <2>1 DEF FlightIdle, IInv, TypeOK
  <2> QED
    BY Zenon, <1>2, <2>1 DEF CancelJoin, CallStep, CallKey
<1> QED
  BY Zenon, <1>1, <1>2
     DEF CallerStep, CancelBegin, ResumeBegin, BeginCall, CancelWaiting, CancelRequest,
         CancelSignal, ResumeWrite, CallDropped, CallStoreFails, CallWrite


\* Hooks refer to attempts that were reached, of tasks with an external hook.
LEMMA FlightsKept ==
    ASSUME IInv, HookInv, Next
    PROVE  \A f \in Flights : FlightReached(f)'
<1>0. TaskStepped
  BY Zenon, NextStepsTask
<1>1. ASSUME NEW f \in Flights, Acting(f), flight'[f].key = flight[f].key
      PROVE  FlightReached(f)'
  <2>1. Reached(flight[f].key) /\ CancellationMode[flight[f].key[1]] = "ExternalHook"
    BY Zenon, <1>1 DEF HookInv, FlightReached
  <2>2. Reached(flight[f].key)'
    BY Zenon, <1>0, <1>1, <2>1, ReachedKept DEF Reached
  <2> QED
    BY Zenon, <1>1, <2>1, <2>2 DEF FlightReached
<1>2. ASSUME NEW f \in Flights, flight'[f] = flight[f]
      PROVE  FlightReached(f)'
  BY Zenon, <1>1, <1>2 DEF FlightReached, Acting
<1>3. ASSUME NEW f \in Flights, flight'[f].pc = "none"
      PROVE  FlightReached(f)'
  BY Zenon, <1>3 DEF FlightReached, Acting
<1>4. CASE UNCHANGED flight
  BY Zenon, <1>2, <1>4
<1>5. CASE DiscardProcess
  BY Zenon, <1>3, <1>5 DEF DiscardProcess, FlightIdle
<1>6. ASSUME NEW f \in Flights, HookStep(f)
      PROVE  \A g \in Flights : FlightReached(g)'
  <2>1. FlightReached(f)'
    BY <1>1, <1>3, <1>6, HookMoves DEF FlightIdle
  <2> QED
    BY Zenon, <1>2, <1>6, <2>1, HookMoves
<1>7. ASSUME NEW c \in Clients, CallerStep(c), ~ UNCHANGED flight
      PROVE  \A g \in Flights : FlightReached(g)'
  <2>1. PICK f \in Flights : /\ call[c].pc = "join"
                             /\ flight'[f].key = CallKey(c)
                             /\ \A g \in Flights \ {f} : flight'[g] = flight[g]
    BY Zenon, <1>7, JoinMoves
  <2>2. Reached(CallKey(c)) /\ CancellationMode[CallKey(c)[1]] = "ExternalHook"
    BY Zenon, <2>1 DEF HookInv, CallReached, CallKey
  <2>3. Reached(flight[f].key)'
    BY Zenon, <1>0, <2>1, <2>2, ReachedKept DEF Reached
  <2>4. FlightReached(f)'
    BY Zenon, <2>1, <2>2, <2>3 DEF FlightReached
  <2> QED
    BY Zenon, <1>2, <2>1, <2>4
<1> QED
  BY Zenon, <1>4, <1>5, <1>6, <1>7, Frames DEF process

\* finish drops the entry of an attempt that is over.
LEMMA EndsKept ==
    ASSUME IInv, HookInv, Next
    PROVE  \A k \in Keys : EndReached(k)'
<1> SUFFICES ASSUME NEW k \in Keys, run'[k].pc = "forget"
             PROVE  Reached(k)' /\ ~Live(k)'
  BY Zenon DEF EndReached
<1>0. TaskStepped
  BY Zenon, NextStepsTask
<1>1. CASE run[k].pc = "forget"
  BY Zenon, <1>0, <1>1, ReachedKept DEF HookInv, EndReached
<1>2. CASE FinishPut(k) /\ Commit(k[1], FinishCommand(k))
  <2>1. k[1] \in TaskIds /\ k[2] \in Nat
    BY DEF Keys
  <2>2. task[k[1]].attempt = k[2]
    BY Zenon, <1>2 DEF IInv, AttemptFenced, Executing, FinishPut, RunStep
  <2>3. task'[k[1]] = Transitioned(task[k[1]], FinishCommand(k))
    BY Zenon, <1>2, <2>1 DEF Commit, IInv, TypeOK
  <2>4. task'[k[1]].attempt = k[2] /\ task'[k[1]].state = FinishCommand(k).state
    BY SMTT(30), <2>2, <2>3 DEF Transitioned
  <2>5. FinishCommand(k).state # "Running"
    BY Zenon DEF FinishCommand, IInv, TypeOK, RunRecords, Outcomes, TerminalStates
  <2> QED
    BY <2>1, <2>4, <2>5 DEF Reached, Live
<1>3. ASSUME run[k].pc # "forget", AttemptStep(k)
      PROVE  FinishPut(k) /\ Commit(k[1], FinishCommand(k))
  <2>1. run[k] \in RunRecords /\ run \in [Keys -> RunRecords]
    BY Zenon DEF IInv, TypeOK
  <2>2. ASSUME NEW pc \in RunPc \ {"forget"}, run' = [run EXCEPT ![k].pc = pc] PROVE FALSE
    BY Zenon, <2>1, <2>2 DEF RunRecords
  <2>3. ASSUME NEW o, run' = [run EXCEPT ![k] = FinishWith(o)] PROVE FALSE
    BY Zenon, <2>1, <2>3 DEF FinishWith
  <2>4. ASSUME run' = [run EXCEPT ![k] = RunIdle] PROVE FALSE
    BY Zenon, <2>1, <2>4 DEF RunIdle
  <2>5. ~RunLoad(k)
    BY Zenon, <2>2, <2>3, <2>4 DEF RunLoad, RunPc
  <2>6. ~RunInsertSignal(k) /\ ~RunCheckCancel(k) /\ ~HandlerReturns(k)
    BY Zenon, <2>2, <2>3 DEF RunInsertSignal, RunCheckCancel, HandlerReturns, RunPc
  <2>7. ~FinishGet(k)
    <3>1. ASSUME NEW s, run' = [run EXCEPT ![k] = [pc |-> "finish_put", outcome |-> run[k].outcome, snap |-> s]]
          PROVE  FALSE
      BY Zenon, <2>1, <3>1
    <3> QED
      BY Zenon, <2>4, <3>1 DEF FinishGet
  <2>8. ~FinishForget(k) /\ ~FinishCheck(k) /\ ~RunStoreFails(k)
    BY Zenon, <2>4 DEF FinishForget, FinishCheck, RunStoreFails
  <2>9. FinishPut(k)
    BY Zenon, <1>3, <2>5, <2>6, <2>7, <2>8 DEF AttemptStep
  <2> QED
    BY Zenon, <2>2, <2>4, <2>9 DEF FinishPut, RunPc
<1>4. CASE DiscardProcess
  BY Zenon, <1>4 DEF DiscardProcess, RunIdle
<1>5. ASSUME NEW j \in Keys, j # k, \E next : run' = [run EXCEPT ![j] = next]
      PROVE  run[k].pc = "forget"
  BY Zenon, <1>5 DEF IInv, TypeOK
<1>6. CASE SchedulerStep
  <2>1. run' = run \/ \E j : run' = [run EXCEPT ![j] = [RunIdle EXCEPT !.pc = "load"]]
    BY Zenon, <1>6
       DEF SchedulerStep, SchedulerScan, SchedulerReserve, SchedulerBypass, SchedulerRefuse, VisitNext,
           SchedulerEndScan, SchedulerStart, SchedulerBlock, SchedulerCheck, SchedulerStoreFails
  <2>2. run[k].pc = "forget"
    BY Zenon, <2>1 DEF RunIdle, IInv, TypeOK
  <2> QED
    BY Zenon, <1>1, <2>2
<1> QED
  BY Zenon, <1>1, <1>2, <1>3, <1>4, <1>5, <1>6, Frames DEF process


-----------------------------------------------------------------------------
\* A hook that acts in both states was live if it is.
LEMMA LiveBefore ==
    ASSUME IInv, HookInv, TaskStepped, NEW f \in Flights,
           Acting(f), flight'[f].key = flight[f].key, Live(flight[f].key)'
    PROVE  Live(flight[f].key)
<1>1. Reached(flight[f].key)
  BY Zenon DEF HookInv, FlightReached
<1> QED
  BY Zenon, <1>1, ReachedKept DEF Live

\* Where neither hooks nor entries come or go, the entry is still found.
LEMMA SharedKept ==
    ASSUME IInv, HookInv, TaskStepped,
           \A f \in Flights : Acting(f)' => Acting(f) /\ flight'[f].key = flight[f].key,
           \A f \in Flights : Acting(f) /\ Live(flight[f].key) => ext'[flight[f].key] = ext[flight[f].key]
    PROVE  Shared'
<1> SUFFICES ASSUME NEW f \in Flights, Acting(f)', Live(flight[f].key)'
             PROVE  /\ ext'[flight'[f].key] = "InFlight"
                    /\ \A g \in Flights : Acting(g)' /\ flight'[g].key = flight'[f].key => g = f
  BY Zenon DEF Shared
<1>1. Acting(f) /\ flight'[f].key = flight[f].key
  BY Zenon
<1>2. Live(flight[f].key)
  BY Zenon, <1>1, LiveBefore
<1> QED
  BY Zenon, <1>1, <1>2 DEF HookInv, Shared

\* A live attempt has one operation, and its entry.
LEMMA SharedPreserved ==
    ASSUME IInv, HookInv, Next
    PROVE  Shared'
<1>0. TaskStepped /\ ext \in [Keys -> {"none", "InFlight", "Succeeded"}]
  BY Zenon, NextStepsTask DEF IInv, TypeOK
<1>1. CASE UNCHANGED <<flight, ext>>
  BY Zenon, <1>0, <1>1, SharedKept DEF Acting
<1>2. CASE DiscardProcess
  BY Zenon, <1>2 DEF DiscardProcess, Shared, Acting, FlightIdle
<1>3. ASSUME NEW k \in Keys, AttemptStep(k), UNCHANGED flight
      PROVE  Shared'
  <2>1. ext' = ext \/ (ext' = [ext EXCEPT ![k] = "none"] /\ ~Live(k))
    <3>1. ASSUME FinishForget(k) PROVE ~Live(k)
      BY Zenon, <3>1 DEF FinishForget, RunStep, HookInv, EndReached
    <3>2. ASSUME IsTerminal(task[k[1]].state) PROVE ~Live(k)
      BY Zenon, <3>2 DEF Live, IsTerminal, TerminalStates
    <3> QED
      BY Zenon, <1>3, <3>1, <3>2
         DEF AttemptStep, RunLoad, RunInsertSignal, RunCheckCancel, HandlerReturns, FinishGet,
             FinishPut, FinishForget, FinishCheck, RunStoreFails
  <2>2. ASSUME NEW f \in Flights, Acting(f), Live(flight[f].key)
        PROVE  ext'[flight[f].key] = ext[flight[f].key]
    <3>1. flight[f].key \in Keys
      BY Zenon, <2>2 DEF HookInv, FlightReached, Reached
    <3> QED
      BY Zenon, <1>0, <2>1, <2>2, <3>1
  <2> QED
    BY Zenon, <1>0, <1>3, <2>2, SharedKept DEF Acting
<1>4. ASSUME NEW f \in Flights, HookStep(f)
      PROVE  Shared'
  <2>1. ext' = ext \/ FlightSettle(f)
    BY Zenon, <1>4 DEF HookStep, FlightGet, FlightPut, HookReturns, FlightStoreFails
  <2>2. CASE ext' = ext
    <3>1. \A g \in Flights : Acting(g)' => Acting(g) /\ flight'[g].key = flight[g].key
      BY <1>4, HookMoves DEF Acting, FlightIdle
    <3> QED
      BY Zenon, <1>0, <2>2, <3>1, SharedKept
  <2>3. CASE FlightSettle(f)
    <3>0. Acting(f) /\ ~Acting(f)' /\ \A g \in Flights \ {f} : flight'[g] = flight[g]
      BY Zenon, <1>4, <2>3, HookMoves DEF FlightSettle, Acting, FlightIdle, IInv, TypeOK
    <3> SUFFICES ASSUME NEW g \in Flights, Acting(g)', Live(flight[g].key)'
                 PROVE  /\ ext'[flight'[g].key] = "InFlight"
                        /\ \A h \in Flights : Acting(h)' /\ flight'[h].key = flight'[g].key => h = g
      BY Zenon DEF Shared
    <3>1. g # f /\ flight'[g] = flight[g] /\ Acting(g)
      BY Zenon, <3>0 DEF Acting
    <3>2. Live(flight[g].key)
      BY Zenon, <1>0, <3>1, LiveBefore
    <3>3. flight[g].key # flight[f].key /\ ext[flight[g].key] = "InFlight"
      BY Zenon, <3>0, <3>1, <3>2 DEF HookInv, Shared
    <3>4. ext'[flight[g].key] = ext[flight[g].key]
      <4>1. flight[g].key \in Keys
        BY Zenon, <3>1 DEF HookInv, FlightReached, Reached
      <4> QED
        BY Zenon, <1>0, <2>3, <3>3, <4>1 DEF FlightSettle
    <3>5. \A h \in Flights : Acting(h)' /\ flight'[h].key = flight'[g].key => h = g
      BY SMTT(30), <3>0, <3>1, <3>2 DEF HookInv, Shared, Acting
    <3> QED
      BY Zenon, <3>1, <3>3, <3>4, <3>5
  <2> QED
    BY Zenon, <2>1, <2>2, <2>3
<1>5. ASSUME NEW c \in Clients, CallerStep(c), ~ UNCHANGED <<flight, ext>>
      PROVE  Shared'
  <2>0. PICK k : k = CallKey(c)
    BY Zenon
  <2>1. PICK f \in Flights :
            /\ call[c].pc = "join" /\ ext[k] = "none"
            /\ ext' = [ext EXCEPT ![k] = "InFlight"]
            /\ flight[f].pc = "none"
            /\ flight'[f].pc = "get" /\ flight'[f].key = k
            /\ \A g \in Flights \ {f} : flight'[g] = flight[g]
    BY Zenon, <1>5, <2>0, JoinMoves
  <2>2. k \in Keys /\ Reached(k)
    BY Zenon, <2>0, <2>1 DEF HookInv, CallReached, Reached
  <2>3. ext'[k] = "InFlight" /\ \A j \in Keys : j # k => ext'[j] = ext[j]
    BY Zenon, <1>0, <2>1, <2>2
  <2>4. Live(k)' => Live(k)
    BY Zenon, <1>0, <2>2, ReachedKept
  <2>5. ASSUME NEW g \in Flights, Acting(g), flight[g].key = k PROVE ~Live(k)
    BY Zenon, <2>1, <2>5 DEF HookInv, Shared
  <2> SUFFICES ASSUME NEW g \in Flights, Acting(g)', Live(flight[g].key)'
               PROVE  /\ ext'[flight'[g].key] = "InFlight"
                      /\ \A h \in Flights : Acting(h)' /\ flight'[h].key = flight'[g].key => h = g
    BY Zenon DEF Shared
  <2>6. CASE g = f
    <3>1. Live(k)
      BY Zenon, <2>1, <2>4, <2>6 DEF Live
    <3> QED
      BY Zenon, <2>1, <2>3, <2>5, <2>6, <3>1 DEF Acting
  <2>7. CASE g # f
    <3>1. flight'[g] = flight[g] /\ Acting(g)
      BY Zenon, <2>1, <2>7 DEF Acting
    <3>2. Live(flight[g].key)
      BY Zenon, <1>0, <3>1, LiveBefore
    <3>3. flight[g].key # k /\ flight[g].key \in Keys /\ ext[flight[g].key] = "InFlight"
      BY Zenon, <2>5, <3>1, <3>2 DEF HookInv, Shared, FlightReached, Reached
    <3>4. \A h \in Flights : Acting(h)' /\ flight'[h].key = flight'[g].key => h = g
      BY <2>1, <3>1, <3>2, <3>3 DEF HookInv, Shared, Acting
    <3> QED
      BY Zenon, <2>3, <3>1, <3>3, <3>4
  <2> QED
    BY Zenon, <2>6, <2>7
<1> QED
  BY Zenon, <1>1, <1>2, <1>3, <1>4, <1>5, Frames DEF process


\* A hook begins only where none of its attempt runs.
LEMMA OneHookKept ==
    ASSUME IInv, HookInv, Next
    PROVE  OneHookPerAttempt'
<1>1. CASE UNCHANGED flight
  BY Zenon, <1>1 DEF HookInv, OneHookPerAttempt
<1>2. CASE DiscardProcess
  BY Zenon, <1>2 DEF DiscardProcess, OneHookPerAttempt, FlightIdle
<1>3. ASSUME NEW f \in Flights, HookStep(f)
      PROVE  OneHookPerAttempt'
  <2>1. /\ Acting(f) /\ \A g \in Flights \ {f} : flight'[g] = flight[g]
        /\ flight'[f].pc = "hook" => Live(flight[f].key) /\ flight'[f].key = flight[f].key
    BY <1>3, HookMoves DEF FlightIdle
  <2>2. ASSUME NEW g \in Flights \ {f}, flight'[f].pc = "hook", flight'[g].pc = "hook",
               flight'[f].key = flight'[g].key
        PROVE  FALSE
    BY Zenon, <2>1, <2>2 DEF HookInv, Shared, Acting
  <2>3. ASSUME NEW g \in Flights \ {f}, NEW h \in Flights \ {f}, flight'[g].pc = "hook",
               flight'[h].pc = "hook", flight'[g].key = flight'[h].key
        PROVE  g = h
    BY Zenon, <2>1, <2>3 DEF HookInv, OneHookPerAttempt
  <2> QED
    BY SMTT(30), <2>2, <2>3 DEF OneHookPerAttempt
<1>4. ASSUME NEW c \in Clients, CallerStep(c), ~ UNCHANGED flight
      PROVE  OneHookPerAttempt'
  <2>1. PICK f \in Flights : flight'[f].pc = "get" /\ \A g \in Flights \ {f} : flight'[g] = flight[g]
    BY Zenon, <1>4, JoinMoves
  <2> QED
    BY <2>1 DEF HookInv, OneHookPerAttempt
<1> QED
  BY Zenon, <1>1, <1>2, <1>3, <1>4, Frames DEF process

\* The result of a hook that waits to be published stays in the store: nobody
\* else writes to a live attempt of a task with an external hook.
LEMMA ResultsKept ==
    ASSUME IInv, HookInv, Next, NEW f \in Flights, flight'[f] = flight[f], Acting(f),
           Live(flight[f].key)'
    PROVE  /\ flight[f].pc = "hook" => task'[flight[f].key[1]].cancel_requested
           /\ flight[f].pc = "settle" /\ flight[f].result = "HookFailed"
                  => task'[flight[f].key[1]].cancel_requested /\ task'[flight[f].key[1]].cancel_error
<1>0. PICK k : k = flight[f].key
  BY Zenon
<1>1. /\ Reached(k) /\ k \in Keys /\ k[1] \in TaskIds /\ CancellationMode[k[1]] = "ExternalHook"
      /\ Live(k)'
  BY Zenon, <1>0 DEF HookInv, FlightReached, Reached, Keys, Live
<1>2. Live(k) /\ (task[k[1]].cancel_requested => task'[k[1]].cancel_requested)
  BY Zenon, <1>1, ReachedKept, NextStepsTask
<1>3. /\ flight[f].pc = "hook" => task[k[1]].cancel_requested
      /\ flight[f].pc = "settle" /\ flight[f].result = "HookFailed"
             => task[k[1]].cancel_requested /\ task[k[1]].cancel_error
  BY Zenon, <1>0, <1>2 DEF HookInv, HookResultsPersisted, Live, Acting
<1>4. ASSUME flight[f].pc = "settle" PROVE task'[k[1]] = task[k[1]]
  <2>1. ASSUME NEW c \in Clients, CancelRequest(c), CallKey(c) = <<k[1], task[k[1]].attempt>>
        PROVE  FALSE
    <3>1. call[c].pc = "request" /\ call[c].snap.id = k[1]
      BY Zenon, <2>1 DEF CancelRequest, CallStep, CallKey
    <3>2. CancellationMode[call[c].snap.id] = "Cooperative"
      BY Zenon, <3>1 DEF HookInv, CallReached
    <3> QED
      BY Zenon, <1>1, <3>1, <3>2
  <2>2. ASSUME NEW g \in Flights, FlightPut(g), flight[g].key = <<k[1], task[k[1]].attempt>>
        PROVE  FALSE
    <3>1. flight[g].pc = "put" /\ flight[g].key = k
      BY SMTT(30), <1>1, <1>2, <2>2 DEF FlightPut, FlightStep, Live, Keys
    <3>2. g = f
      BY Zenon, <1>0, <1>2, <3>1 DEF HookInv, Shared, Acting
    <3> QED
      BY Zenon, <1>4, <3>1, <3>2
  <2>3. task[k[1]].state = "Running" /\ task'[k[1]].state = "Running"
    BY Zenon, <1>1, <1>2 DEF Live
  <2> QED
    BY Zenon, <1>1, <2>1, <2>2, <2>3, RunningWrites
<1> QED
  BY Zenon, <1>0, <1>2, <1>3, <1>4

\* A hook runs for a stored request, and its failure is stored.
LEMMA HookResultsKept ==
    ASSUME IInv, HookInv, Next
    PROVE  HookResultsPersisted'
<1> DEFINE Ok(f) ==
        /\ Acting(f) /\ Live(flight[f].key)
        => /\ flight[f].pc = "hook" => task[flight[f].key[1]].cancel_requested
           /\ flight[f].pc = "settle" /\ flight[f].result = "HookFailed"
                  => task[flight[f].key[1]].cancel_requested /\ task[flight[f].key[1]].cancel_error
<1>0. (\A f \in Flights : Ok(f)') => HookResultsPersisted'
  BY Zenon DEF HookResultsPersisted, Acting, Live
<1>1. ASSUME NEW f \in Flights, flight'[f] = flight[f] PROVE Ok(f)'
  <2>1. ASSUME Acting(f)', Live(flight[f].key)'
        PROVE  /\ flight'[f].pc = "hook" => task'[flight'[f].key[1]].cancel_requested
               /\ flight'[f].pc = "settle" /\ flight'[f].result = "HookFailed"
                      => task'[flight'[f].key[1]].cancel_requested /\ task'[flight'[f].key[1]].cancel_error
    <3>1. Acting(f)
      BY Zenon, <1>1, <2>1 DEF Acting
    <3>2. /\ flight[f].pc = "hook" => task'[flight[f].key[1]].cancel_requested
          /\ flight[f].pc = "settle" /\ flight[f].result = "HookFailed"
                 => task'[flight[f].key[1]].cancel_requested /\ task'[flight[f].key[1]].cancel_error
      BY Zenon, <1>1, <2>1, <3>1, ResultsKept
    <3> QED
      BY Zenon, <1>1, <3>2
  <2> QED
    BY Zenon, <2>1
<1>2. ASSUME NEW f \in Flights, flight'[f].pc \notin {"hook", "settle"} PROVE Ok(f)'
  BY Zenon, <1>2
<1>3. CASE UNCHANGED flight
  BY Zenon, <1>0, <1>1, <1>3
<1>4. CASE DiscardProcess
  BY Zenon, <1>0, <1>2, <1>4 DEF DiscardProcess, FlightIdle
<1>5. ASSUME NEW f \in Flights, HookStep(f) PROVE HookResultsPersisted'
  <2>1. Ok(f)'
    <3>1. CASE flight'[f] = FlightIdle
      <4>1. FlightIdle.pc \notin {"hook", "settle"}
        BY Zenon DEF FlightIdle
      <4> QED
        BY Zenon, <1>2, <3>1, <4>1
    <3>2. CASE flight'[f].key = flight[f].key
      <4>1. flight'[f].pc = "hook" \/ (flight'[f].pc = "settle" /\ flight'[f].result = "HookFailed")
                => /\ task'[flight[f].key[1]].cancel_requested
                   /\ flight'[f].pc = "settle" => task'[flight[f].key[1]].cancel_error
        BY Zenon, <1>5, HookMoves
      <4> QED
        BY ZenonT(30), <3>2, <4>1
    <3> QED
      BY ZenonT(30), <1>5, <3>1, <3>2, HookMoves
  <2>2. \A g \in Flights \ {f} : flight'[g] = flight[g]
    BY Zenon, <1>5, HookMoves
  <2> QED
    BY ZenonT(30), <1>0, <1>1, <2>1, <2>2
<1>6. ASSUME NEW c \in Clients, CallerStep(c), ~ UNCHANGED flight
      PROVE  HookResultsPersisted'
  <2>1. PICK f \in Flights : flight'[f].pc = "get" /\ \A g \in Flights \ {f} : flight'[g] = flight[g]
    BY Zenon, <1>6, JoinMoves
  <2>2. Ok(f)'
    BY Zenon, <1>2, <2>1
  <2> QED
    BY ZenonT(30), <1>0, <1>1, <2>1, <2>2
<1> QED
  BY Zenon, <1>3, <1>4, <1>5, <1>6, Frames DEF process

-----------------------------------------------------------------------------
\* What is known of hooks holds in every state of the service.
THEOREM HookInvariant == Spec => [](IInv /\ HookInv)
<1>1. Init => HookInv
  <2> SUFFICES ASSUME Init PROVE HookInv
    BY Zenon
  <2>1. \A f \in Flights : flight[f].pc = "none"
    BY Zenon DEF Init, FlightIdle
  <2>2. /\ page = {} /\ sched.pc = "idle"
        /\ \A id \in TaskIds : task[id].state = "Unborn"
        /\ \A k \in Keys : run[k].pc = "none"
        /\ \A c \in Clients : call[c].pc = "idle"
    BY Zenon DEF Init, SchedIdle, RunIdle, CallIdle, Accepted
  <2>3. StartsBounded /\ (\A c \in Clients : CallReached(c)) /\ (\A k \in Keys : EndReached(k))
    BY Zenon, <2>2 DEF StartsBounded, CallReached, EndReached
  <2>4. (\A f \in Flights : FlightReached(f)) /\ Shared /\ OneHookPerAttempt /\ HookResultsPersisted
    BY <2>1, Zenon DEF FlightReached, Shared, OneHookPerAttempt, HookResultsPersisted, Acting
  <2> QED
    BY Zenon, <2>3, <2>4 DEF HookInv
<1>2. IInv /\ HookInv /\ Next => HookInv'
  BY Zenon, StartsKept, CallsKept, FlightsKept, EndsKept, SharedPreserved, OneHookKept, HookResultsKept
     DEF HookInv
<1>3. ASSUME HookInv, UNCHANGED vars PROVE HookInv'
  <2>1. UNCHANGED <<task, page, sched, run, call, flight, ext>>
    BY Zenon, <1>3 DEF vars
  <2>2. StartsBounded' /\ Shared'
    <3>1. StartsBounded'
      BY Zenon, <1>3, <2>1 DEF HookInv, StartsBounded
    <3>2. Shared'
      BY Zenon, <1>3, <2>1 DEF HookInv, Shared, Acting, Live
    <3> QED
      BY Zenon, <3>1, <3>2
  <2>3. /\ \A c \in Clients : CallReached(c)'
        /\ \A f \in Flights : FlightReached(f)'
        /\ \A k \in Keys : EndReached(k)'
    BY Zenon, <1>3, <2>1 DEF HookInv, CallReached, FlightReached, EndReached, Acting, Live, Reached, CallKey
  <2>4. OneHookPerAttempt'
    BY Zenon, <1>3, <2>1 DEF HookInv, OneHookPerAttempt
  <2>5. HookResultsPersisted'
    BY <1>3, <2>1, Zenon DEF HookInv, HookResultsPersisted
  <2> QED
    BY Zenon, <2>2, <2>3, <2>4, <2>5 DEF HookInv
<1>4. IInv /\ HookInv /\ [Next]_vars => (IInv /\ HookInv)'
  BY Zenon, <1>2, <1>3, NextInvariant
<1> QED
  BY <1>1, <1>4, InitInvariant, PTL DEF Spec

\* At most one external hook of an attempt runs at a time, although finish
\* drops the entry that callers share while the hook may still run.
THEOREM HooksDoNotOverlap == Spec => []OneHookPerAttempt
BY HookInvariant, PTL DEF HookInv

\* A hook runs for a persisted request only, and a failure that callers are
\* told of is in the record as long as the attempt lasts.
THEOREM HookFailuresStored == Spec => []HookResultsPersisted
BY HookInvariant, PTL DEF HookInv

-----------------------------------------------------------------------------
(***************************************************************************)
(* Requests, slots and faults.                                             *)
(***************************************************************************)

\* The flag is there from its insertion to the handler's return.
FlagInserted ==
    \A k \in Keys : run[k].pc \in {"check", "handler"} => signal[k] # "absent"

\* A caller that has persisted its request and not yet looked for the flag.
Pending(k) == \E c \in Clients : call[c].pc = "signal" /\ CallKey(c) = k

FlagSeen(k) ==
    /\ run[k].pc = "handler"
    /\ CancellationMode[k[1]] = "Cooperative"
    /\ task[k[1]].cancel_requested
    /\ ~Pending(k)
    => signal[k] = "set"

SignalInv == FlagInserted /\ (~CallersMayDrop => \A k \in Keys : FlagSeen(k))

\* How a step of an attempt moves it and its flag.
LEMMA AttemptMoves ==
    ASSUME IInv, NEW k \in Keys, AttemptStep(k)
    PROVE  /\ run[k].pc # "none"
           /\ \A j \in Keys \ {k} : run'[j] = run[j] /\ signal'[j] = signal[j]
           /\ run'[k].pc = "check" => signal'[k] = "clear"
           /\ run'[k].pc = "handler" =>
                  /\ run[k].pc = "check" /\ UNCHANGED task
                  /\ signal'[k] \in {signal[k], "set"}
                  /\ Retained(task[k[1]]) /\ task[k[1]].cancel_requested => signal'[k] = "set"
<1>0. run \in [Keys -> RunRecords] /\ signal \in [Keys -> {"absent", "clear", "set"}]
  BY Zenon DEF IInv, TypeOK
<1>1. CASE RunInsertSignal(k)
  BY Zenon, <1>0, <1>1 DEF RunInsertSignal, RunStep, RunRecords
<1>2. CASE RunCheckCancel(k)
  BY Zenon, <1>0, <1>2 DEF RunCheckCancel, RunStep, RunRecords
<1>3. CASE HandlerReturns(k)
  BY <1>0, <1>3 DEF HandlerReturns, RunStep, FinishWith
<1>4. ASSUME NEW next, run' = [run EXCEPT ![k] = next], UNCHANGED signal, run[k].pc # "none",
             next.pc \notin {"check", "handler"}
      PROVE  /\ \A j \in Keys \ {k} : run'[j] = run[j] /\ signal'[j] = signal[j]
             /\ run'[k].pc \notin {"check", "handler"}
  BY Zenon, <1>0, <1>4
<1>5. CASE RunLoad(k)
  <2>1. PICK next : run' = [run EXCEPT ![k] = next] /\ next.pc \notin {"check", "handler"}
    BY <1>0, <1>5 DEF RunLoad, RunIdle, FinishWith, RunRecords
  <2> QED
    BY Zenon, <1>4, <1>5, <2>1 DEF RunLoad, RunStep
<1>6. CASE FinishGet(k)
  <2>1. PICK next : run' = [run EXCEPT ![k] = next] /\ next.pc \notin {"check", "handler"}
    <3> DEFINE put == [pc |-> "finish_put", outcome |-> run[k].outcome, snap |-> Snapshot(k[1])]
    <3>1. run' = [run EXCEPT ![k] = RunIdle] \/ run' = [run EXCEPT ![k] = put]
      BY Zenon, <1>6 DEF FinishGet
    <3>2. RunIdle.pc \notin {"check", "handler"} /\ put.pc \notin {"check", "handler"}
      BY Zenon DEF RunIdle
    <3> QED
      BY Zenon, <3>1, <3>2
  <2> QED
    BY Zenon, <1>4, <1>6, <2>1 DEF FinishGet, RunStep
<1>7. CASE FinishPut(k)
  <2>1. PICK next : run' = [run EXCEPT ![k] = next] /\ next.pc \notin {"check", "handler"}
    BY <1>0, <1>7 DEF FinishPut, RunIdle, RunRecords
  <2> QED
    BY Zenon, <1>4, <1>7, <2>1 DEF FinishPut, RunStep
<1>8. CASE FinishForget(k) \/ FinishCheck(k) \/ RunStoreFails(k)
  <2>1. RunIdle.pc \notin {"check", "handler"}
    BY Zenon DEF RunIdle
  <2> QED
    BY Zenon, <1>4, <1>8, <2>1 DEF FinishForget, FinishCheck, RunStoreFails, RunStep
<1> QED
  BY Zenon, <1>1, <1>2, <1>3, <1>5, <1>6, <1>7, <1>8 DEF AttemptStep

\* The scheduler only starts supervisors.
LEMMA SchedulerMoves ==
    ASSUME SchedulerStep
    PROVE  run' = run \/ (SchedulerStart /\ sched.pc = "start" /\ sched'.pc = "scan" /\
                          \E k : run' = [run EXCEPT ![k] = [RunIdle EXCEPT !.pc = "load"]])
<1>1. CASE SchedulerStart
  BY <1>1 DEF SchedulerStart
<1> QED
  BY Zenon, <1>1
     DEF SchedulerStep, SchedulerScan, SchedulerReserve, SchedulerBypass, SchedulerRefuse, VisitNext,
         SchedulerEndScan, SchedulerBlock, SchedulerCheck, SchedulerStoreFails

\* A caller sets flags that are there and clears none.
LEMMA CallerSignals ==
    ASSUME IInv, HookInv, NEW c \in Clients, CallerStep(c), NEW k \in Keys
    PROVE  signal'[k] = signal[k] \/ (signal'[k] = "set" /\ signal[k] # "absent")
<1>1. CASE CancelSignal(c)
  BY Zenon, <1>1 DEF CancelSignal, IInv, TypeOK
<1> QED
  BY Zenon, <1>1
     DEF CallerStep, CancelBegin, ResumeBegin, BeginCall, CancelWaiting, CancelRequest,
         CancelJoin, ResumeWrite, CallDropped, CallStoreFails, CallWrite

\* A flag that is there stays until its handler returns, and stays set.
LEMMA FlagMoves ==
    ASSUME IInv, HookInv, Next, NEW k \in Keys, run'[k].pc \in {"check", "handler"},
           ~AttemptStep(k)
    PROVE  run'[k] = run[k] /\ (signal'[k] = signal[k] \/ signal'[k] = "set")
<1>0. run \in [Keys -> RunRecords]
  BY Zenon DEF IInv, TypeOK
<1>1. CASE UNCHANGED process
  BY Zenon, <1>1 DEF process
<1>2. CASE DiscardProcess
  BY Zenon, <1>2 DEF DiscardProcess, RunIdle
<1>3. CASE SchedulerStep /\ UNCHANGED signal
  <2>1. run' = run \/ \E j : run' = [run EXCEPT ![j] = [RunIdle EXCEPT !.pc = "load"]]
    BY Zenon, <1>3, SchedulerMoves
  <2> QED
    BY Zenon, <1>0, <1>3, <2>1 DEF RunIdle
<1>4. ASSUME NEW j \in Keys, AttemptStep(j) PROVE run'[k] = run[k] /\ signal'[k] = signal[k]
  BY Zenon, <1>4, AttemptMoves
<1>5. ASSUME NEW c \in Clients, CallerStep(c) PROVE signal'[k] = signal[k] \/ signal'[k] = "set"
  BY Zenon, <1>5, CallerSignals
<1> QED
  BY Zenon, <1>1, <1>2, <1>3, <1>4, <1>5, Frames

\* The flag is inserted before anything looks for it.
LEMMA FlagInsertedKept ==
    ASSUME IInv, HookInv, FlagInserted, Next
    PROVE  FlagInserted'
<1> SUFFICES ASSUME NEW k \in Keys, run'[k].pc \in {"check", "handler"}
             PROVE  signal'[k] # "absent"
  BY Zenon DEF FlagInserted
<1>1. CASE AttemptStep(k)
  BY Zenon, <1>1, AttemptMoves DEF FlagInserted
<1>2. CASE ~AttemptStep(k)
  BY Zenon, <1>2, FlagMoves DEF FlagInserted
<1> QED
  BY Zenon, <1>1, <1>2

\* A caller that is to set the flag of a running handler does so, or is there
\* still: its future is not dropped and the step waits for no store.
LEMMA PendingSignals ==
    ASSUME IInv, HookInv, FlagInserted, Next, ~CallersMayDrop, NEW k \in Keys,
           run'[k] = run[k], run[k].pc = "handler", Pending(k), ~Pending(k)'
    PROVE  signal'[k] = "set"
<1>1. PICK c \in Clients : call[c].pc = "signal" /\ CallKey(c) = k
  BY Zenon DEF Pending
<1>2. call'[c] # call[c]
  BY Zenon, <1>1 DEF Pending, CallKey
<1>3. ~DiscardProcess
  BY DEF DiscardProcess, RunIdle
<1>4. CallerStep(c)
  <2>1. ASSUME NEW d \in Clients, d # c, \E next : call' = [call EXCEPT ![d] = next] PROVE FALSE
    BY Zenon, <1>2, <2>1 DEF IInv, TypeOK
  <2> QED
    BY Zenon, <1>2, <1>3, <2>1, Frames DEF process
<1>5. CancelSignal(c)
  BY Zenon, <1>1, <1>4
     DEF CallerStep, CancelBegin, ResumeBegin, BeginCall, CancelWaiting, CancelRequest,
         CancelJoin, ResumeWrite, CallDropped, CallStoreFails, CallStep
<1>6. signal[k] # "absent"
  BY Zenon DEF FlagInserted
<1> QED
  BY Zenon, <1>1, <1>5, <1>6 DEF CancelSignal, CallKey, IInv, TypeOK


\* The request is visible to the handler when nobody is about to signal it.
LEMMA FlagSeenKept ==
    ASSUME IInv, HookInv, SignalInv, Next, ~CallersMayDrop, NEW k \in Keys
    PROVE  FlagSeen(k)'
<1> SUFFICES ASSUME run'[k].pc = "handler", CancellationMode[k[1]] = "Cooperative",
                    task'[k[1]].cancel_requested, ~Pending(k)'
             PROVE  signal'[k] = "set"
  BY Zenon DEF FlagSeen
<1>0. k[1] \in TaskIds /\ IInv'
  BY Zenon, NextInvariant DEF Keys
<1>1. CASE AttemptStep(k)
  <2>1. run[k].pc = "check" /\ UNCHANGED task
    BY Zenon, <1>1, AttemptMoves
  <2>2. Retained(task[k[1]])
    BY Zenon, <2>1 DEF IInv, AttemptFenced, Executing, Retained, TaskStates
  <2> QED
    BY Zenon, <1>1, <2>1, <2>2, AttemptMoves
<1>2. CASE ~AttemptStep(k)
  <2>1. run'[k] = run[k] /\ (signal'[k] = signal[k] \/ signal'[k] = "set")
    BY Zenon, <1>2, FlagMoves
  <2>2. /\ task[k[1]].state = "Running" /\ task[k[1]].attempt = k[2]
        /\ task'[k[1]].state = "Running"
    BY Zenon, <1>0, <2>1 DEF IInv, AttemptFenced, Executing
  <2>3. <<k[1], task[k[1]].attempt>> = k
    BY <2>2 DEF Keys
  <2>4. ASSUME NEW c \in Clients, CallKey(c) = k,
               call' = [call EXCEPT ![c] = [call[c] EXCEPT !.pc = "signal"]]
        PROVE  FALSE
    <3>1. call'[c].pc = "signal" /\ call'[c].snap = call[c].snap
      BY <2>4 DEF IInv, TypeOK, CallRecords
    <3> QED
      BY Zenon, <2>4, <3>1 DEF Pending, CallKey
  <2>5. ASSUME NEW f \in Flights, FlightPut(f), flight[f].key = k
        PROVE  FALSE
    <3>1. Acting(f)
      BY Zenon, <2>5 DEF FlightPut, FlightStep, Acting
    <3> QED
      BY Zenon, <2>5, <3>1 DEF HookInv, FlightReached
  <2>6. task'[k[1]] = task[k[1]]
    BY Zenon, <1>0, <2>2, <2>3, <2>4, <2>5, RunningWrites
  <2>7. CASE Pending(k)
    BY Zenon, <2>1, <2>7, PendingSignals DEF SignalInv
  <2>8. CASE ~Pending(k)
    BY Zenon, <2>1, <2>6, <2>8 DEF SignalInv, FlagSeen
  <2> QED
    BY Zenon, <2>7, <2>8
<1> QED
  BY Zenon, <1>1, <1>2

\* A persisted cooperative request is seen by the handler of its attempt,
\* unless the caller is about to set the flag, as long as callers are not
\* dropped in between.
THEOREM RequestsReachTheHandler == Spec => [](~CallersMayDrop => CancelSignalled)
<1>1. Init => SignalInv
  <2> SUFFICES ASSUME Init PROVE SignalInv
    BY Zenon
  <2>1. \A k \in Keys : run[k].pc = "none"
    BY Zenon DEF Init, RunIdle
  <2> QED
    BY Zenon, <2>1 DEF SignalInv, FlagInserted, FlagSeen
<1>2. IInv /\ HookInv /\ SignalInv /\ Next => SignalInv'
  BY Zenon, FlagInsertedKept, FlagSeenKept DEF SignalInv
<1>3. SignalInv /\ UNCHANGED vars => SignalInv'
  BY Zenon DEF vars, SignalInv, FlagInserted, FlagSeen, Pending, CallKey
<1>4. SignalInv => (~CallersMayDrop => CancelSignalled)
  <2> SUFFICES ASSUME SignalInv, ~CallersMayDrop, NEW k \in Keys,
                      run[k].pc = "handler", CancellationMode[k[1]] = "Cooperative",
                      task[k[1]].cancel_requested,
                      \A c \in Clients : ~(call[c].pc = "signal" /\ call[c].snap.id = k[1]
                                               /\ call[c].snap.attempt = k[2])
               PROVE  signal[k] = "set"
    BY Zenon DEF CancelSignalled
  <2>1. ~Pending(k)
    BY DEF Pending, CallKey
  <2> QED
    BY Zenon, <2>1 DEF SignalInv, FlagSeen
<1>5. SignalInv /\ (IInv /\ HookInv) /\ [Next]_vars => SignalInv'
  BY Zenon, <1>2, <1>3
<1> QED
  BY <1>1, <1>4, <1>5, HookInvariant, PTL DEF Spec

-----------------------------------------------------------------------------
(***************************************************************************)
(* Faults.  Every conflict that is looked into is explained by a newer     *)
(* revision, because what the writer read was current.                     *)
(***************************************************************************)
Sound == ~StoreMayFail /\ ~RetentionEvicts /\ ~OversizedDiagnostics

RunExplained(k) ==
    /\ run[k].outcome.diagnostics_valid
    /\ run[k].pc = "finish_check" => run[k].snap.state_version < task[k[1]].state_version

CheckExplained ==
    sched.pc = "check" => sched.snap.state_version < task[sched.snap.id].state_version

CalmInv ==
    /\ ~fault
    /\ \A id \in TaskIds : task[id].state # "Removed"
    /\ CheckExplained
    /\ \A k \in Keys : RunExplained(k)
    /\ \A f \in Flights : flight[f].result # "ServiceFailed"

\* Revisions only grow.
LEMMA VersionGrows ==
    ASSUME IInv, TaskStepped, NEW id \in TaskIds
    PROVE  /\ task[id].state_version \in Nat /\ task'[id].state_version \in Nat
           /\ task[id].state_version <= task'[id].state_version
<1> DEFINE a == task[id]
           b == task'[id]
<1>1. a \in TaskRecords /\ a.state_version \in Nat
  BY Zenon DEF IInv, TypeOK, TaskRecords
<1>2. b = a \/ Evolves(a, b)
  BY Zenon DEF TaskStepped, Effect
<1>3. \/ b = a \/ b = [a EXCEPT !.retry = "due"] \/ b = [a EXCEPT !.state = "Removed"]
      \/ a.state_version = 0 /\ b = Accepted
      \/ b.state_version = a.state_version + 1
  BY Zenon, <1>2 DEF Evolves
<1>4. b.state_version = a.state_version \/ b.state_version = a.state_version + 1
  BY <1>1, <1>3 DEF TaskRecords, Accepted
<1> QED
  BY <1>1, <1>4

\* Without eviction no record disappears.
LEMMA NothingRemoved ==
    ASSUME IInv, Next, ~RetentionEvicts, NEW id \in TaskIds, task[id].state # "Removed"
    PROVE  task'[id].state # "Removed"
<1> DEFINE There == task'[id].state # "Removed"
<1>1. ASSUME NEW i, NEW cmd, Commit(i, cmd), cmd.state # "Removed" PROVE There
  BY Zenon, <1>1 DEF Commit, Transitioned, IInv, TypeOK
<1>2. ASSUME UNCHANGED task PROVE There
  BY Zenon, <1>2
<1>3. ASSUME StoreStep PROVE There
  BY SMTT(30), <1>3 DEF StoreStep, Submit, DeadlinePasses, Evict, Accepted, IInv, TypeOK, TaskRecords
<1>4. ASSUME SchedulerStart PROVE There
  BY <1>4 DEF SchedulerStart, Started, IInv, TypeOK
<1> HIDE DEF There
<1>0. \A fl : FlightCommand(fl).state = "Running"
  BY Zenon DEF FlightCommand
<1>5. ASSUME NEW i, NEW snap, NEW state \in TaskStates, NEW r, NEW e, Commit(i, Command(snap, state, r, e))
       PROVE  There
  <2>1. Command(snap, state, r, e).state # "Removed"
    BY Zenon DEF TaskStates, TerminalStates, Command
  <2> QED
    BY Zenon, <1>1, <1>5, <2>1
<1>6. {"Queued", "Running", "Blocked", "Cancelled"} \subseteq TaskStates
  BY Zenon DEF TaskStates, TerminalStates
<1>7. ASSUME SchedulerStep PROVE There
  BY Zenon, <1>2, <1>4, <1>7, <1>5, <1>6
     DEF SchedulerStep, SchedulerScan, SchedulerReserve, SchedulerBypass, SchedulerRefuse,
         VisitNext, SchedulerEndScan, SchedulerBlock, SchedulerCheck, SchedulerStoreFails
<1>8. ASSUME NEW k \in Keys, AttemptStep(k) PROVE There
  <2>1. FinishCommand(k).state # "Removed"
    BY Zenon DEF FinishCommand, IInv, TypeOK, RunRecords, Outcomes, TerminalStates
  <2> QED
    BY ZenonT(30), <1>1, <1>2, <1>8, <2>1
       DEF AttemptStep, RunLoad, RunInsertSignal, RunCheckCancel, HandlerReturns, FinishGet,
           FinishPut, FinishForget, FinishCheck, RunStoreFails
<1>9. ASSUME NEW c \in Clients, CallerStep(c) PROVE There
  BY Zenon, <1>2, <1>9, <1>5, <1>6
     DEF CallerStep, CancelBegin, ResumeBegin, BeginCall, CancelWaiting, CancelRequest,
         CancelSignal, CancelJoin, ResumeWrite, CallDropped, CallStoreFails, CallWrite
<1>10. ASSUME NEW f \in Flights, HookStep(f) PROVE There
  BY ZenonT(30), <1>0, <1>1, <1>2, <1>10
     DEF HookStep, FlightGet, FlightPut, HookReturns, FlightSettle, FlightStoreFails
<1>11. ASSUME LifetimeStep PROVE There
  <2>1. ASSUME NEW i \in TaskIds, Recover(i) PROVE There
    <3> DEFINE cmd == Command(Snapshot(i), IF task[i].cancel_requested THEN "Blocked" ELSE "Queued",
                              task[i].cancel_requested, task[i].cancel_error)
    <3>1. cmd.state # "Removed"
      BY Zenon DEF Command
    <3> QED
      BY ZenonT(30), <1>1, <2>1, <3>1 DEF Recover
  <2> QED
    BY Zenon, <1>2, <1>11, <2>1
       DEF LifetimeStep, Crash, RequestShutdown, ShutdownCompletes, DiscardProcess, Restart,
           RecoveryCompletes, RecoveryFails
<1> QED
  BY ZenonT(30), <1>3, <1>7, <1>8, <1>9, <1>10, <1>11 DEF Next, There

\* mark_blocked is answered Ok or a conflict with a newer revision.
LEMMA BlockAnswer ==
    ASSUME IInv, CalmInv, sched.pc = "block",
           NEW answer, answer = TransitionResult(task[sched.snap.id], Command(sched.snap, "Blocked", FALSE, FALSE))
    PROVE  /\ answer \in {"Ok", "Conflict"}
           /\ answer = "Conflict" => sched.snap.state_version < task[sched.snap.id].state_version
<1> DEFINE s == sched.snap
           t == task[s.id]
           cmd == Command(s, "Blocked", FALSE, FALSE)
<1>1. /\ s.id \in TaskIds /\ t.state # "Unborn" /\ t.state # "Removed" /\ t \in TaskRecords
      /\ s.state = "Queued" /\ s.state_version <= t.state_version
      /\ s.state_version = t.state_version => t.state = s.state /\ t.attempt = s.attempt
      /\ s.state_version \in Nat /\ t.state_version \in Nat
  BY Zenon DEF IInv, TypeOK, SnapshotsCurrent, Current, CalmInv, TaskRecords, SchedRecords, Snapshots
<1>2. Retained(t)
  BY Zenon, <1>1 DEF Retained, TaskRecords, AbsentStates
<1>3. /\ cmd.diagnostics_valid = TRUE /\ cmd.retry = "none" /\ cmd.state = "Blocked"
      /\ cmd.state_version = s.state_version /\ cmd.attempt = s.attempt
  BY Zenon DEF Command
<1> HIDE DEF cmd, s, t
<1>4. TransitionResult(t, cmd) \in {"Ok", "Conflict"}
  BY Zenon, <1>2, <1>3 DEF TransitionResult
<1>5. s.state_version = t.state_version => TransitionResult(t, cmd) # "Conflict"
  <2> SUFFICES ASSUME s.state_version = t.state_version PROVE TransitionResult(t, cmd) # "Conflict"
    BY Zenon
  <2>1. AllowsTransitionTo(t.state, cmd.state) /\ t.state_version = cmd.state_version /\ t.attempt = cmd.attempt
    BY Zenon, <1>1, <1>3 DEF AllowsTransitionTo
  <2> QED
    BY Zenon, <1>2, <1>3, <2>1 DEF TransitionResult
<1>6. answer = TransitionResult(t, cmd) /\ (s.state_version = t.state_version \/ s.state_version < t.state_version)
  BY <1>1 DEF s, t, cmd
<1> QED
  BY ZenonT(30), <1>4, <1>5, <1>6 DEF s, t

\* finish's write is answered Ok or a conflict with a newer revision.
LEMMA FinishAnswer ==
    ASSUME IInv, CalmInv, NEW k \in Keys, run[k].pc = "finish_put",
           NEW answer, answer = TransitionResult(task[k[1]], FinishCommand(k))
    PROVE  /\ answer \in {"Ok", "Conflict"}
           /\ answer = "Conflict" => run[k].snap.state_version < task[k[1]].state_version
<1> DEFINE s == run[k].snap
           t == task[k[1]]
           cmd == FinishCommand(k)
<1>1. /\ t.state = "Running" /\ t.attempt = k[2]
      /\ s.state_version <= t.state_version
      /\ s.state_version \in Nat /\ t.state_version \in Nat
  BY Zenon DEF IInv, TypeOK, SnapshotsCurrent, RunCurrent, Current, AttemptFenced, Executing, TaskRecords,
         RunRecords, Snapshots, Keys
<1>2. Retained(t)
  BY Zenon, <1>1 DEF Retained, TaskStates
<1>3. /\ cmd.state_version = s.state_version /\ cmd.attempt = k[2]
      /\ cmd.retry # "none" => cmd.state = "Queued"
  BY Zenon DEF FinishCommand
<1>4. cmd.diagnostics_valid
  BY Zenon DEF FinishCommand, CalmInv, RunExplained
<1>5. cmd.state \in TaskStates
  BY Zenon DEF FinishCommand, IInv, TypeOK, RunRecords, Outcomes, TaskStates
<1> HIDE DEF cmd, s, t
<1>6. TransitionResult(t, cmd) \in {"Ok", "Conflict"}
  BY Zenon, <1>2, <1>3, <1>4 DEF TransitionResult
<1>7. s.state_version = t.state_version => TransitionResult(t, cmd) # "Conflict"
  <2> SUFFICES ASSUME s.state_version = t.state_version PROVE TransitionResult(t, cmd) # "Conflict"
    BY Zenon
  <2>1. AllowsTransitionTo(t.state, cmd.state) /\ t.state_version = cmd.state_version /\ t.attempt = cmd.attempt
    BY Zenon, <1>1, <1>3, <1>5 DEF AllowsTransitionTo
  <2> QED
    BY Zenon, <1>2, <1>3, <1>4, <2>1 DEF TransitionResult
<1> QED
  BY SMTT(30), <1>1, <1>6, <1>7 DEF s, t, cmd


\* The scheduler latches no fault.
LEMMA SchedulerCalm ==
    ASSUME IInv, CalmInv, Sound, TaskStepped, SchedulerStep
    PROVE  ~fault' /\ CheckExplained'
<1>0. sched \in SchedRecords /\ ~fault
  BY Zenon DEF IInv, TypeOK, CalmInv
<1>1. ASSUME sched'.pc # "check", fault' = fault PROVE ~fault' /\ CheckExplained'
  BY Zenon, <1>0, <1>1 DEF CheckExplained
<1>2. CASE SchedulerScan \/ SchedulerReserve \/ SchedulerBypass \/ SchedulerRefuse \/ SchedulerEndScan
  <2>1. fault' = fault
    BY Zenon, <1>2 DEF SchedulerScan, SchedulerReserve, SchedulerBypass, SchedulerRefuse, SchedulerEndScan,
                VisitNext, control
  <2>2. sched'.pc # "check"
    BY <1>2 DEF SchedulerScan, SchedulerReserve, SchedulerBypass, SchedulerRefuse, SchedulerEndScan,
                SchedIdle
  <2> QED
    BY Zenon, <1>1, <2>1, <2>2
<1>3. CASE SchedulerStart
  <2>1. sched'.pc # "check" /\ fault' = fault
    BY <1>3 DEF SchedulerStart, SchedIdle, control
  <2> QED
    BY Zenon, <1>1, <2>1
<1>4. CASE SchedulerBlock
  <2> DEFINE id == sched.snap.id
             answer == TransitionResult(task[id], Command(sched.snap, "Blocked", FALSE, FALSE))
  <2>1. sched.pc = "block"
    BY Zenon, <1>4 DEF SchedulerBlock
  <2>2. /\ answer \in {"Ok", "Conflict"}
        /\ answer = "Conflict" => sched.snap.state_version < task[id].state_version
    BY Zenon, <2>1, BlockAnswer
  <2>3. \/ sched' = [pc |-> "scan", snap |-> NoSnapshot] /\ UNCHANGED control
        \/ answer = "Conflict" /\ sched' = [sched EXCEPT !.pc = "check"] /\ UNCHANGED <<task, control>>
    BY Zenon, <1>4, <2>2 DEF SchedulerBlock
  <2> HIDE DEF answer
  <2>4. CASE sched' = [pc |-> "scan", snap |-> NoSnapshot] /\ UNCHANGED control
    BY Zenon, <1>1, <2>4 DEF control
  <2>5. CASE answer = "Conflict" /\ sched' = [sched EXCEPT !.pc = "check"] /\ UNCHANGED <<task, control>>
    <3>1. sched'.snap = sched.snap /\ UNCHANGED task /\ fault' = fault
      BY Zenon, <1>0, <2>5 DEF SchedRecords, control
    <3>2. sched.snap.state_version < task[sched.snap.id].state_version
      BY Zenon, <2>2, <2>5
    <3> QED
      BY Zenon, <1>0, <3>1, <3>2 DEF CheckExplained
  <2> QED
    BY Zenon, <2>3, <2>4, <2>5
<1>5. CASE SchedulerCheck
  <2>1. /\ sched.pc = "check" /\ sched'.pc = "scan"
        /\ CheckCompetingTransition(sched.snap.id, sched.snap.state_version)
    BY Zenon, <1>5 DEF SchedulerCheck
  <2>2. /\ sched.snap.id \in TaskIds /\ task[sched.snap.id].state \notin AbsentStates
        /\ task[sched.snap.id] \in TaskRecords
        /\ task[sched.snap.id].state_version # sched.snap.state_version
    BY SMTT(30), <2>1, <1>0 DEF IInv, TypeOK, SnapshotsCurrent, Current, CalmInv, CheckExplained, AbsentStates,
                TaskRecords, SchedRecords, Snapshots
  <2>3. Retained(task[sched.snap.id])
    BY Zenon, <2>2 DEF Retained, TaskRecords
  <2>4. UNCHANGED control
    BY Zenon, <2>1, <2>2, <2>3 DEF CheckCompetingTransition
  <2> QED
    BY Zenon, <1>1, <2>1, <2>4 DEF control
<1>6. ~SchedulerStoreFails
  BY Zenon DEF SchedulerStoreFails, Sound
<1> QED
  BY ZenonT(30), <1>2, <1>3, <1>4, <1>5, <1>6 DEF SchedulerStep

\* Handlers report what the store accepts, when diagnostics fit.
LEMMA OutcomesValid ==
    ASSUME Sound
    PROVE  (\A o \in HandlerOutcomes : o.diagnostics_valid) /\ RunIdle.outcome.diagnostics_valid
<1>1. ASSUME NEW o \in HandlerOutcomes PROVE o.diagnostics_valid
  BY Zenon DEF HandlerOutcomes, Sound
<1>2. RunIdle.outcome.diagnostics_valid = TRUE
  BY Zenon DEF RunIdle, NoOutcome, Outcome
<1> QED
  BY Zenon, <1>1, <1>2

\* An attempt latches no fault.
LEMMA AttemptCalm ==
    ASSUME IInv, CalmInv, Sound, NEW k \in Keys, AttemptStep(k)
    PROVE  ~fault' /\ RunExplained(k)'
<1>0. /\ run \in [Keys -> RunRecords] /\ ~fault
      /\ run[k].outcome.diagnostics_valid
  BY Zenon DEF IInv, TypeOK, CalmInv, RunExplained
<1>1. ASSUME NEW next, run' = [run EXCEPT ![k] = next], next.pc # "finish_check",
             next.outcome.diagnostics_valid
      PROVE  RunExplained(k)'
  <2>1. run'[k] = next
    BY Zenon, <1>0, <1>1
  <2> QED
    BY Zenon, <1>1, <2>1 DEF RunExplained
<1>2. ASSUME NEW pc, pc # "finish_check", run' = [run EXCEPT ![k].pc = pc]
      PROVE  RunExplained(k)'
  <2>1. run'[k].pc = pc /\ run'[k].outcome = run[k].outcome
    BY Zenon, <1>0, <1>2 DEF RunRecords
  <2> QED
    BY Zenon, <1>0, <1>2, <2>1 DEF RunExplained
<1>3. ASSUME run' = [run EXCEPT ![k] = RunIdle] PROVE RunExplained(k)'
  <2>1. RunIdle.pc # "finish_check"
    BY Zenon DEF RunIdle
  <2> QED
    BY ZenonT(30), <1>1, <1>3, <2>1, OutcomesValid
<1>4. ASSUME NEW o \in HandlerOutcomes, run' = [run EXCEPT ![k] = FinishWith(o)]
      PROVE  RunExplained(k)'
  <2>1. FinishWith(o).pc # "finish_check" /\ FinishWith(o).outcome = o
    BY Zenon DEF FinishWith
  <2>2. o.diagnostics_valid
    BY Zenon, OutcomesValid
  <2> QED
    BY Zenon, <1>1, <1>4, <2>1, <2>2
<1>5. ASSUME UNCHANGED control PROVE ~fault'
  BY Zenon, <1>0, <1>5 DEF control
<1>6. Executing(k) => Retained(task[k[1]]) /\ task[k[1]].state = "Running"
  BY Zenon DEF IInv, AttemptFenced, Retained, TaskStates
<1>7. CASE RunLoad(k)
  BY Zenon, <1>2, <1>3, <1>4, <1>5, <1>7 DEF RunLoad
<1>8. CASE RunInsertSignal(k) \/ RunCheckCancel(k) \/ HandlerReturns(k)
  BY Zenon, <1>2, <1>4, <1>5, <1>8 DEF RunInsertSignal, RunCheckCancel, HandlerReturns
<1>9. CASE FinishGet(k)
  <2> DEFINE put == [pc |-> "finish_put", outcome |-> run[k].outcome, snap |-> Snapshot(k[1])]
  <2>1. Retained(task[k[1]])
    BY Zenon, <1>6, <1>9 DEF FinishGet, RunStep, Executing
  <2>2. UNCHANGED control /\ (run' = [run EXCEPT ![k] = RunIdle] \/ run' = [run EXCEPT ![k] = put])
    BY Zenon, <1>9, <2>1 DEF FinishGet
  <2>3. put.pc # "finish_check" /\ put.outcome = run[k].outcome
    BY Zenon
  <2> QED
    BY Zenon, <1>0, <1>1, <1>3, <1>5, <2>2, <2>3
<1>10. CASE FinishPut(k)
  <2> DEFINE answer == TransitionResult(task[k[1]], FinishCommand(k))
  <2>1. run[k].pc = "finish_put"
    BY Zenon, <1>10 DEF FinishPut, RunStep
  <2>2. /\ answer \in {"Ok", "Conflict"}
        /\ answer = "Conflict" => run[k].snap.state_version < task[k[1]].state_version
    BY Zenon, <2>1, FinishAnswer
  <2>3. /\ UNCHANGED control
        /\ \/ run' = [run EXCEPT ![k] = [RunIdle EXCEPT !.pc = "forget"]]
           \/ answer = "Conflict" /\ run' = [run EXCEPT ![k].pc = "finish_check"] /\ UNCHANGED task
    BY Zenon, <1>10, <2>2 DEF FinishPut
  <2> HIDE DEF answer
  <2>4. CASE run' = [run EXCEPT ![k] = [RunIdle EXCEPT !.pc = "forget"]]
    <3> DEFINE next == [RunIdle EXCEPT !.pc = "forget"]
    <3>1. next.pc # "finish_check" /\ next.outcome = RunIdle.outcome
      BY Zenon DEF RunIdle
    <3> QED
      BY Zenon, <1>1, <1>5, <2>3, <2>4, <3>1, OutcomesValid
  <2>5. CASE answer = "Conflict" /\ run' = [run EXCEPT ![k].pc = "finish_check"] /\ UNCHANGED task
    <3>1. run'[k].snap = run[k].snap /\ run'[k].outcome = run[k].outcome
      BY Zenon, <1>0, <2>5 DEF RunRecords
    <3> QED
      BY Zenon, <1>0, <1>5, <2>2, <2>3, <2>5, <3>1 DEF RunExplained
  <2> QED
    BY Zenon, <2>3, <2>4, <2>5
<1>11. CASE FinishForget(k)
  BY Zenon, <1>3, <1>5, <1>11 DEF FinishForget
<1>12. CASE FinishCheck(k)
  <2>1. Retained(task[k[1]])
    BY Zenon, <1>6, <1>12 DEF FinishCheck, RunStep, Executing
  <2>2. task[k[1]].state_version # run[k].snap.state_version
    BY <1>0, <1>12 DEF FinishCheck, RunStep, CalmInv, RunExplained, IInv, TypeOK, TaskRecords, RunRecords,
                 Snapshots, Keys
  <2> QED
    BY ZenonT(30), <1>3, <1>5, <1>12, <2>1, <2>2 DEF FinishCheck, CheckCompetingTransition
<1>13. ~RunStoreFails(k)
  BY Zenon DEF RunStoreFails, Sound
<1> QED
  BY ZenonT(30), <1>7, <1>8, <1>9, <1>10, <1>11, <1>12, <1>13 DEF AttemptStep


\* A hook latches no fault: the task it is for is there.
LEMMA HookCalm ==
    ASSUME IInv, HookInv, CalmInv, Sound, NEW f \in Flights, HookStep(f)
    PROVE  ~fault' /\ flight'[f].result # "ServiceFailed"
<1> DEFINE fl == flight[f]
           t == task[fl.key[1]]
<1>0. /\ flight \in [Flights -> FlightRecords] /\ fl \in FlightRecords /\ ~fault
      /\ fl.result # "ServiceFailed"
  BY Zenon DEF IInv, TypeOK, CalmInv
<1>1. Retained(t)
  <2>1. fl.key \in Keys /\ fl.key[2] <= t.attempt
    BY Zenon, HookMoves DEF HookInv, FlightReached, Reached
  <2>2. fl.key[1] \in TaskIds /\ fl.key[2] \in 1 .. AttemptBound
    BY Zenon, <2>1 DEF Keys
  <2>3. t.attempt # 0
    BY SMTT(30), <2>1, <2>2, ServiceAssumption
  <2>4. t \in TaskRecords /\ t.state # "Unborn" /\ t.state # "Removed"
    BY Zenon, <2>2, <2>3 DEF IInv, TypeOK, UnbornPristine, CalmInv
  <2> QED
    BY Zenon, <2>4 DEF Retained, TaskRecords, AbsentStates
<1>2. ASSUME NEW next, flight' = [flight EXCEPT ![f] = next], next.result # "ServiceFailed"
      PROVE  flight'[f].result # "ServiceFailed"
  BY Zenon, <1>0, <1>2
<1>3. /\ \A r \in FlightResult : Settled(fl, r).result = r
      /\ FlightIdle.result = "Success"
      /\ \A pc, p : [fl EXCEPT !.pc = pc, !.phase = p].result = fl.result
  BY Zenon, <1>0 DEF FlightRecords, Settled, FlightIdle
<1>4. {"AlreadyTerminal", "Success", "HookFailed"} \subseteq FlightResult
  BY Zenon DEF FlightResult
<1>5. CASE FlightGet(f)
  <2>1. PICK next : flight' = [flight EXCEPT ![f] = next] /\
            next \in {Settled(fl, "AlreadyTerminal"), [fl EXCEPT !.pc = "hook"], Settled(fl, "Success"),
                      [fl EXCEPT !.pc = "put", !.version = t.state_version]}
    BY Zenon, <1>1, <1>5 DEF FlightGet
  <2>2. next.result # "ServiceFailed"
    <3>1. Settled(fl, "AlreadyTerminal").result = "AlreadyTerminal" /\ Settled(fl, "Success").result = "Success"
      BY Zenon, <1>3, <1>4
    <3>2. [fl EXCEPT !.pc = "hook"].result = fl.result
      BY Zenon, <1>0 DEF FlightRecords
    <3>3. [fl EXCEPT !.pc = "put", !.version = t.state_version].result = fl.result
      BY Zenon, <1>0 DEF FlightRecords
    <3> QED
      BY Zenon, <1>0, <2>1, <3>1, <3>2, <3>3
  <2> QED
    BY Zenon, <1>0, <1>2, <1>5, <2>1, <2>2 DEF FlightGet, control
<1>6. CASE FlightPut(f)
  <2> DEFINE cmd == FlightCommand(fl)
  <2>1. cmd.diagnostics_valid = TRUE /\ cmd.retry = "none"
    BY Zenon DEF FlightCommand
  <2>2. TransitionResult(t, cmd) \in {"Ok", "Conflict"}
    BY Zenon, <1>1, <2>1 DEF TransitionResult
  <2>3. PICK next : flight' = [flight EXCEPT ![f] = next] /\
            next \in {AfterPut(fl), [fl EXCEPT !.pc = "get", !.version = 0]}
    BY Zenon, <1>6, <2>2 DEF FlightPut
  <2>4. AfterPut(fl) \in {[fl EXCEPT !.pc = "hook", !.version = 0], Settled(fl, "Success"),
                          Settled(fl, "HookFailed")}
    BY Zenon, <1>0 DEF AfterPut, FlightRecords, FlightPhase
  <2>5. next.result # "ServiceFailed"
    <3>1. Settled(fl, "HookFailed").result = "HookFailed" /\ Settled(fl, "Success").result = "Success"
      BY Zenon, <1>3, <1>4
    <3>2. [fl EXCEPT !.pc = "hook", !.version = 0].result = fl.result
      BY Zenon, <1>0 DEF FlightRecords
    <3>3. [fl EXCEPT !.pc = "get", !.version = 0].result = fl.result
      BY Zenon, <1>0 DEF FlightRecords
    <3> QED
      BY Zenon, <1>0, <2>3, <2>4, <3>1, <3>2, <3>3
  <2> QED
    BY Zenon, <1>0, <1>2, <1>6, <2>3, <2>5 DEF FlightPut, control
<1>7. CASE HookReturns(f)
  <2>1. PICK p \in {"clear", "record"} :
            flight' = [flight EXCEPT ![f] = [fl EXCEPT !.pc = "get", !.phase = p]]
    BY Zenon, <1>7 DEF HookReturns
  <2> QED
    BY SMTT(30), <1>0, <1>2, <1>3, <1>7, <2>1 DEF HookReturns, control
<1>8. CASE FlightSettle(f)
  <2>1. UNCHANGED control /\ flight' = [flight EXCEPT ![f] = FlightIdle]
    BY Zenon, <1>0, <1>8 DEF FlightSettle
  <2> QED
    BY Zenon, <1>0, <1>2, <1>3, <2>1 DEF control
<1>9. ~FlightStoreFails(f)
  BY Zenon DEF FlightStoreFails, Sound
<1> QED
  BY ZenonT(30), <1>5, <1>6, <1>7, <1>8, <1>9 DEF HookStep

\* A caller latches no fault, and the hook it may begin has no result yet.
LEMMA CallerCalm ==
    ASSUME IInv, CalmInv, Sound, NEW c \in Clients, CallerStep(c)
    PROVE  ~fault' /\ \A f \in Flights : flight'[f].result # "ServiceFailed"
<1>1. UNCHANGED control
  BY Zenon
     DEF CallerStep, CancelBegin, ResumeBegin, BeginCall, CancelWaiting, CancelRequest,
         CancelSignal, CancelJoin, ResumeWrite, CallDropped, CallStoreFails, CallWrite, Sound
<1>2. UNCHANGED flight \/ \E f \in Flights : \E k :
          flight' = [flight EXCEPT ![f] = [FlightIdle EXCEPT !.pc = "get", !.key = k]]
  BY Zenon
     DEF CallerStep, CancelBegin, ResumeBegin, BeginCall, CancelWaiting, CancelRequest,
         CancelSignal, CancelJoin, ResumeWrite, CallDropped, CallStoreFails, CallWrite
<1>3. \A f \in Flights : flight'[f].result # "ServiceFailed"
  BY Zenon, <1>2 DEF CalmInv, IInv, TypeOK, FlightIdle
<1> QED
  BY Zenon, <1>1, <1>3 DEF CalmInv, control

\* Every step of a service with a sound store keeps it without fault.
LEMMA CalmKept ==
    ASSUME IInv, HookInv, CalmInv, Sound, Next
    PROVE  CalmInv'
<1>0. TaskStepped
  BY Zenon, NextStepsTask
<1>1. \A id \in TaskIds : task'[id].state # "Removed"
  BY Zenon, NothingRemoved DEF CalmInv, Sound
<1>2. ASSUME NEW k \in Keys, run'[k] = run[k] PROVE RunExplained(k)'
  <2>1. k[1] \in TaskIds /\ RunExplained(k) /\ run[k] \in RunRecords
    BY Zenon DEF Keys, CalmInv, IInv, TypeOK
  <2>2. run[k].snap.state_version \in Nat
    BY Zenon, <2>1 DEF RunRecords, Snapshots
  <2>3. run[k].snap.state_version < task[k[1]].state_version
            => run[k].snap.state_version < task'[k[1]].state_version
    BY SMTT(30), <1>0, <2>1, <2>2, VersionGrows
  <2> QED
    BY Zenon, <1>2, <2>1, <2>3 DEF RunExplained
<1>3. ASSUME sched' = sched PROVE CheckExplained'
  <2> SUFFICES ASSUME sched.pc = "check" PROVE CheckExplained'
    BY Zenon, <1>3 DEF CheckExplained
  <2>1. sched.snap.id \in TaskIds /\ sched.snap.state_version \in Nat
    BY Zenon DEF IInv, TypeOK, SnapshotsCurrent, Current, SchedRecords, Snapshots
  <2>2. sched.snap.state_version < task'[sched.snap.id].state_version
    BY SMTT(30), <1>0, <2>1, VersionGrows DEF CalmInv, CheckExplained
  <2> QED
    BY Zenon, <1>3, <2>2 DEF CheckExplained
<1>4. ASSUME UNCHANGED flight PROVE \A f \in Flights : flight'[f].result # "ServiceFailed"
  BY Zenon, <1>4 DEF CalmInv
<1>5. CASE UNCHANGED process /\ (StoreStep \/ LifetimeStep)
  <2>1. fault' = fault \/ fault' = FALSE
    BY Zenon, <1>5
       DEF StoreStep, Submit, DeadlinePasses, Evict, LifetimeStep, Crash, RequestShutdown, ShutdownCompletes,
           DiscardProcess, Restart, Recover, RecoveryCompletes, RecoveryFails, control
  <2>2. UNCHANGED <<sched, run, flight>>
    BY Zenon, <1>5 DEF process
  <2>3. (\A k \in Keys : RunExplained(k)') /\ CheckExplained'
    BY Zenon, <1>2, <1>3, <2>2
  <2> QED
    BY SMTT(30), <1>1, <1>4, <2>1, <2>2, <2>3 DEF CalmInv
<1>6. CASE DiscardProcess
  <2>1. /\ ~fault' /\ CheckExplained'
        /\ \A f \in Flights : flight'[f].result # "ServiceFailed"
    BY Zenon, <1>6 DEF DiscardProcess, SchedIdle, FlightIdle, CheckExplained
  <2>2. ASSUME NEW k \in Keys PROVE RunExplained(k)'
    <3>1. run'[k] = RunIdle /\ RunIdle.pc = "none"
      BY Zenon, <1>6 DEF DiscardProcess, RunIdle
    <3> QED
      BY Zenon, <3>1, OutcomesValid DEF RunExplained
  <2> QED
    BY Zenon, <1>1, <2>1, <2>2 DEF CalmInv
<1>7. CASE SchedulerStep
  <2>1. ~fault' /\ CheckExplained'
    BY Zenon, <1>0, <1>7, SchedulerCalm
  <2>2. ASSUME NEW k \in Keys, NEW j, run' = [run EXCEPT ![j] = [RunIdle EXCEPT !.pc = "load"]]
        PROVE  RunExplained(k)'
    <3>1. CASE k = j
      <4>1. run'[k].pc = "load" /\ run'[k].outcome = RunIdle.outcome
        BY Zenon, <2>2, <3>1 DEF RunIdle, IInv, TypeOK
      <4> QED
        BY Zenon, <4>1, OutcomesValid DEF RunExplained
    <3>2. CASE k # j
      BY Zenon, <1>2, <2>2, <3>2 DEF IInv, TypeOK
    <3> QED
      BY Zenon, <3>1, <3>2
  <2>3. \A k \in Keys : RunExplained(k)'
    BY Zenon, <1>2, <1>7, <2>2, SchedulerMoves
  <2>4. UNCHANGED flight
    BY Zenon, <1>7
       DEF SchedulerStep, SchedulerScan, SchedulerReserve, SchedulerBypass, SchedulerRefuse, VisitNext,
           SchedulerEndScan, SchedulerStart, SchedulerBlock, SchedulerCheck, SchedulerStoreFails
  <2> QED
    BY Zenon, <1>1, <1>4, <2>1, <2>3, <2>4 DEF CalmInv
<1>8. ASSUME NEW k \in Keys, AttemptStep(k), UNCHANGED <<sched, flight>> PROVE CalmInv'
  <2>1. ~fault' /\ RunExplained(k)'
    BY Zenon, <1>8, AttemptCalm
  <2>2. \A j \in Keys \ {k} : RunExplained(j)'
    BY Zenon, <1>2, <1>8, AttemptMoves
  <2> QED
    BY Zenon, <1>1, <1>3, <1>4, <1>8, <2>1, <2>2 DEF CalmInv
<1>9. ASSUME NEW c \in Clients, CallerStep(c), UNCHANGED <<sched, run>> PROVE CalmInv'
  BY Zenon, <1>1, <1>2, <1>3, <1>9, CallerCalm DEF CalmInv
<1>10. ASSUME NEW f \in Flights, HookStep(f), UNCHANGED <<sched, run>> PROVE CalmInv'
  <2>1. ~fault' /\ flight'[f].result # "ServiceFailed"
    BY Zenon, <1>10, HookCalm
  <2>2. \A g \in Flights \ {f} : flight'[g].result # "ServiceFailed"
    BY Zenon, <1>10, HookMoves DEF CalmInv
  <2> QED
    BY Zenon, <1>1, <1>2, <1>3, <1>10, <2>1, <2>2 DEF CalmInv
<1>11. StoreStep \/ LifetimeStep => UNCHANGED process \/ DiscardProcess
  BY Zenon
     DEF StoreStep, Submit, DeadlinePasses, Evict, LifetimeStep, Crash, RequestShutdown, ShutdownCompletes,
         Restart, Recover, RecoveryCompletes, RecoveryFails
<1>12. ASSUME NEW k \in Keys, AttemptStep(k) PROVE UNCHANGED <<sched, flight>>
  BY Zenon, <1>12
     DEF AttemptStep, RunLoad, RunInsertSignal, RunCheckCancel, HandlerReturns, FinishGet,
         FinishPut, FinishForget, FinishCheck, RunStoreFails, RunStep
<1>13. ASSUME NEW c \in Clients, CallerStep(c) PROVE UNCHANGED <<sched, run>>
  BY Zenon, <1>13
     DEF CallerStep, CancelBegin, ResumeBegin, BeginCall, CancelWaiting, CancelRequest,
         CancelSignal, CancelJoin, ResumeWrite, CallDropped, CallStoreFails, CallStep
<1>14. ASSUME NEW f \in Flights, HookStep(f) PROVE UNCHANGED <<sched, run>>
  BY Zenon, <1>14
     DEF HookStep, FlightGet, FlightPut, HookReturns, FlightSettle, FlightStoreFails, FlightStep
<1> QED
  BY Zenon, <1>5, <1>6, <1>7, <1>8, <1>9, <1>10, <1>11, <1>12, <1>13, <1>14 DEF Next

\* With a store that does not fail or evict, and diagnostics within the limits,
\* nothing latches a fault: no lost race is taken for a failure.
THEOREM RacesAreNoFaults == Spec => [](Sound => NoSpuriousFault)
<1> DEFINE CInv == Sound => CalmInv
<1>1. Init => CInv
  <2> SUFFICES ASSUME Init, Sound PROVE CalmInv
    BY Zenon
  <2>1. /\ ~fault /\ \A id \in TaskIds : task[id].state # "Removed"
        /\ CheckExplained /\ \A f \in Flights : flight[f].result # "ServiceFailed"
    BY Zenon DEF Init, Accepted, SchedIdle, FlightIdle, CheckExplained
  <2>2. ASSUME NEW k \in Keys PROVE RunExplained(k)
    <3>1. run[k] = RunIdle /\ RunIdle.pc = "none"
      BY Zenon DEF Init, RunIdle
    <3> QED
      BY Zenon, <3>1, OutcomesValid DEF RunExplained
  <2> QED
    BY Zenon, <2>1, <2>2 DEF CalmInv
<1>2. CInv /\ UNCHANGED vars => CInv'
  <2> SUFFICES ASSUME CalmInv, UNCHANGED <<task, fault, sched, run, flight>> PROVE CalmInv'
    BY Zenon DEF vars, control, Sound
  <2>1. CheckExplained' /\ \A k \in Keys : RunExplained(k)'
    BY Zenon DEF CalmInv, CheckExplained, RunExplained
  <2> QED
    BY Zenon, <2>1 DEF CalmInv
<1>3. (IInv /\ HookInv) /\ CInv /\ [Next]_vars => CInv'
  BY Zenon, <1>2, CalmKept DEF Sound
<1>4. CInv => (Sound => NoSpuriousFault)
  BY Zenon DEF CalmInv, NoSpuriousFault
<1> QED
  BY <1>1, <1>3, <1>4, HookInvariant, PTL DEF Spec

-----------------------------------------------------------------------------
(***************************************************************************)
(* Slots.                                                                  *)
(***************************************************************************)
SlotInv ==
    /\ Cardinality(ActiveRuns) <= MaxRunning
    /\ sched.pc = "start" => Cardinality(ActiveRuns) < MaxRunning

\* Supervisors only come from the scheduler.
LEMMA RunsMove ==
    ASSUME IInv, Next
    PROVE  \/ ActiveRuns' \subseteq ActiveRuns
           \/ /\ sched.pc = "start" /\ sched'.pc = "scan"
              /\ \E k \in Keys : ActiveRuns' \subseteq ActiveRuns \cup {k}
<1>0. run \in [Keys -> RunRecords]
  BY Zenon DEF IInv, TypeOK
<1>1. CASE UNCHANGED run
  BY Zenon, <1>1 DEF ActiveRuns
<1>2. CASE DiscardProcess
  BY Zenon, <1>2 DEF DiscardProcess, RunIdle, ActiveRuns
<1>3. ASSUME NEW k \in Keys, AttemptStep(k) PROVE ActiveRuns' \subseteq ActiveRuns
  BY Zenon, <1>3, AttemptMoves DEF ActiveRuns
<1>4. ASSUME NEW k, run' = [run EXCEPT ![k] = [RunIdle EXCEPT !.pc = "load"]]
      PROVE  ActiveRuns' \subseteq ActiveRuns \/ (k \in Keys /\ ActiveRuns' \subseteq ActiveRuns \cup {k})
  <2>1. \A j \in Keys \ {k} : run'[j] = run[j]
    BY Zenon, <1>0, <1>4
  <2> QED
    BY Zenon, <2>1 DEF ActiveRuns
<1>5. CASE SchedulerStep
  BY Zenon, <1>1, <1>4, <1>5, SchedulerMoves
<1> QED
  BY Zenon, <1>1, <1>2, <1>3, <1>5, Frames DEF process

\* The facts about finite sets are needed here only.
Finite == INSTANCE FiniteSetTheorems

\* Finite sets and their sizes are those of the specification.
LEMMA SameSizes ==
    \A S : (IsFiniteSet(S) <=> Finite!IsFiniteSet(S)) /\ Cardinality(S) = Finite!Cardinality(S)
  BY Zenon DEF IsFiniteSet, Finite!IsFiniteSet, Cardinality, Finite!Cardinality

\* A subset of a finite set, such as the supervisors of the possible attempts,
\* is finite and no larger.
LEMMA Subsets ==
    \A S : \A T \in SUBSET S :
        IsFiniteSet(S) => IsFiniteSet(T) /\ Cardinality(T) \in Nat /\ Cardinality(T) <= Cardinality(S)
  BY Zenon, SameSizes, Finite!FS_Subset, Finite!FS_CardinalityType

\* One more supervisor makes the set larger by one at most.
LEMMA OneMore ==
    ASSUME NEW S, NEW x, IsFiniteSet(S)
    PROVE  IsFiniteSet(S \cup {x}) /\ Cardinality(S \cup {x}) \in {Cardinality(S), Cardinality(S) + 1}
<1>1. /\ Finite!IsFiniteSet(S \cup {x})
      /\ Finite!Cardinality(S \cup {x}) =
             IF x \in S THEN Finite!Cardinality(S) ELSE Finite!Cardinality(S) + 1
  BY Zenon, SameSizes, Finite!FS_AddElement
<1> QED
  BY Zenon, <1>1, SameSizes

\* There are finitely many supervisors and hooks.
LEMMA ActiveFinite ==
    /\ IsFiniteSet(ActiveRuns) /\ Cardinality(ActiveRuns) \in Nat
    /\ IsFiniteSet(ActiveFlights) /\ Cardinality(ActiveFlights) \in Nat
<1>1. IsFiniteSet(1 .. AttemptBound)
  <2>1. Finite!IsFiniteSet(1 .. AttemptBound)
    BY Finite!FS_Interval, ServiceAssumption
  <2> QED
    BY Zenon, <2>1, SameSizes
<1>2. IsFiniteSet(Keys)
  <2>1. Finite!IsFiniteSet(TaskIds \X (1 .. AttemptBound))
    BY Zenon, <1>1, SameSizes, Finite!FS_Product, ServiceAssumption
  <2> QED
    BY Zenon, <2>1, SameSizes DEF Keys
<1>3. ActiveRuns \subseteq Keys /\ ActiveFlights \subseteq Flights
  BY Zenon DEF ActiveRuns, ActiveFlights
<1> QED
  BY Zenon, <1>2, <1>3, Subsets, ServiceAssumption

\* The scheduler is about to start only when it has seen a free slot, and hooks
\* may take that slot but no handler can.
LEMMA AboutToStart ==
    ASSUME IInv, SlotInv, Next, sched'.pc = "start"
    PROVE  Cardinality(ActiveRuns) < MaxRunning /\ ActiveRuns' \subseteq ActiveRuns
<1>1. CASE SchedulerReserve
  BY <1>1, ActiveFinite, ServiceAssumption DEF SchedulerReserve, VisitNext, InFlight, ActiveRuns
<1>2. CASE sched' = sched
  BY Zenon, <1>2, RunsMove DEF SlotInv
<1>3. CASE SchedulerStep /\ ~SchedulerReserve
  <2>1. \/ sched' \in {SchedIdle, [pc |-> "scan", snap |-> NoSnapshot], [sched EXCEPT !.pc = "check"]}
        \/ \E s : sched' = [pc |-> "block", snap |-> s]
    BY Zenon, <1>3
       DEF SchedulerStep, SchedulerScan, SchedulerBypass, SchedulerRefuse, SchedulerEndScan,
           SchedulerStart, SchedulerBlock, SchedulerCheck, SchedulerStoreFails
  <2> QED
    BY <2>1 DEF SchedIdle, IInv, TypeOK, SchedRecords
<1>4. CASE DiscardProcess
  BY Zenon, <1>4 DEF DiscardProcess, SchedIdle
<1> QED
  BY ZenonT(30), <1>1, <1>2, <1>3, <1>4, Frames DEF process

\* Never more than max_running_tasks handlers are in progress.
THEOREM HandlersWithinLimit == Spec => []RunningWithinLimit
<1>1. Init => SlotInv
  <2> SUFFICES ASSUME Init PROVE SlotInv
    BY Zenon
  <2>1. ActiveRuns = {} /\ sched.pc = "idle"
    BY Zenon DEF Init, RunIdle, SchedIdle, ActiveRuns
  <2> QED
    <3>1. Cardinality({}) = 0
      BY Zenon, SameSizes, Finite!FS_EmptySet
    <3> QED
      BY <2>1, <3>1, ServiceAssumption DEF SlotInv
<1>2. IInv /\ SlotInv /\ Next => SlotInv'
  <2> SUFFICES ASSUME IInv, SlotInv, Next PROVE SlotInv'
    BY Zenon
  <2>0. Cardinality(ActiveRuns) \in Nat /\ MaxRunning \in Nat
    BY Zenon, ActiveFinite, ServiceAssumption
  <2>1. ASSUME ActiveRuns' \subseteq ActiveRuns
        PROVE  Cardinality(ActiveRuns') \in Nat /\ Cardinality(ActiveRuns') <= Cardinality(ActiveRuns)
    BY Zenon, <2>1, ActiveFinite, Subsets
  <2>2. ASSUME NEW k \in Keys, ActiveRuns' \subseteq ActiveRuns \cup {k}
        PROVE  /\ Cardinality(ActiveRuns') \in Nat
               /\ Cardinality(ActiveRuns') <= Cardinality(ActiveRuns) + 1
    <3>1. /\ IsFiniteSet(ActiveRuns \cup {k})
          /\ Cardinality(ActiveRuns \cup {k}) \in {Cardinality(ActiveRuns), Cardinality(ActiveRuns) + 1}
      BY Zenon, ActiveFinite, OneMore
    <3>2. /\ Cardinality(ActiveRuns') \in Nat
          /\ Cardinality(ActiveRuns') <= Cardinality(ActiveRuns \cup {k})
      BY Zenon, <2>2, <3>1, Subsets
    <3> QED
      BY <2>0, <3>1, <3>2
  <2>3. Cardinality(ActiveRuns)' <= MaxRunning
    BY <2>0, <2>1, <2>2, RunsMove DEF SlotInv
  <2>4. sched'.pc = "start" => Cardinality(ActiveRuns)' < MaxRunning
    BY SMTT(30), <2>0, <2>1, AboutToStart
  <2> QED
    BY Zenon, <2>3, <2>4 DEF SlotInv
<1>3. SlotInv /\ UNCHANGED vars => SlotInv'
  BY Zenon DEF vars, SlotInv, ActiveRuns
<1>4. IInv /\ SlotInv /\ [Next]_vars => SlotInv'
  BY Zenon, <1>2, <1>3
<1>5. SlotInv => RunningWithinLimit
  BY Zenon DEF SlotInv, RunningWithinLimit
<1> QED
  BY <1>1, <1>4, <1>5, Invariant, PTL DEF Spec

=============================================================================
