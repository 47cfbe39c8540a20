--------------------------- MODULE Shutdown_proofs ---------------------------
(***************************************************************************)
(* Ownership of the store is given up only when nothing of the service can *)
(* write any more, and the results of shutdown line up with its callers,   *)
(* for any number of callers, clients and operations.                      *)
(*                                                                         *)
(* The argument follows the supervisor's stages.  Each stage is entered    *)
(* under a condition that nothing can undo afterwards: the flag is set,    *)
(* nobody past a check holds admission, the scheduler has stopped, nothing *)
(* is in flight.  The order of the stages makes each condition stable: a   *)
(* new operation needs a client past its check or a running scheduler.     *)
(***************************************************************************)
EXTENDS Shutdown, TLAPS

\* The stages in which the guard still holds the owner, those after admission
\* was taken, and those in which nothing is in flight any more.
Owning == {"request", "admission", "scheduler", "drain", "close"}
Closed == {"scheduler", "drain", "close", "release", "answer", "retry", "finished"}
Quiet == {"close", "release", "answer", "retry", "finished"}

\* The owner is acquired before anything is spawned, and the guard holds it
\* until the supervisor comes to release it.
StartupInv ==
    /\ startup \in {"prepare", "recover", "release"} => owned /\ guard = "armed"
    /\ startup # "running" => supervisor.stage = "unspawned" /\ scheduler = "unspawned"
    /\ startup = "running" => supervisor.stage # "unspawned" /\ scheduler # "unspawned"
    /\ supervisor.stage \in Owning => owned /\ guard = "armed"

\* What each stage of the supervisor has established.
StageInv ==
    /\ supervisor.stage \notin {"unspawned", "request"} => shutting_down
    /\ \A c \in Clients : client[c] # "idle" => c \in readers
    /\ supervisor.stage \in Closed => \A c \in Clients : client[c] \in {"idle", "admitted"}
    /\ scheduler_stopped => scheduler \in {"announce", "stopped"}
    /\ supervisor.stage \in Quiet \cup {"drain"} => scheduler_stopped
    /\ supervisor.stage \in Quiet => Active = {}

\* How far the results are ahead of the attempts, by stage.
ResultsInv ==
    /\ ResultsAligned
    /\ supervisor.stage \in Owning \cup {"unspawned"} =>
           /\ progress.results = <<>>
           /\ ~progress.retryable_release /\ ~progress.retry_requested
    /\ \A i \in 1 .. Len(progress.results) :
           progress.results[i] = "Complete" =>
               /\ owner_released /\ i = Len(progress.results)
               /\ ~progress.retryable_release
               /\ supervisor.stage \in {"answer", "finished"}

\* The shapes the argument needs.
Shapes ==
    /\ op \in [Ops -> {"none", "run", "store", "notify", "latched", "ended"}]
    /\ client \in [Clients -> {"idle", "admitted", "writing", "store", "notify"}]
    /\ supervisor.stage \in {"unspawned", "request", "admission", "scheduler", "drain", "close",
                             "release", "answer", "retry", "finished"}
    /\ supervisor.step \in {"arm", "check", "await"}
    /\ progress \in [attempt : Nat, results : Seq(Outcomes), retryable_release : BOOLEAN,
                     retry_requested : BOOLEAN]

ShutdownInv == Shapes /\ StartupInv /\ StageInv /\ ResultsInv

-----------------------------------------------------------------------------
\* One turn of a wait of the supervisor: it stays in its stage, or leaves it
\* for the next one because the condition holds.
LEMMA WaitMoves ==
    ASSUME NEW stage, NEW STATE ready, NEW STATE next, Shapes, SupervisorWait(stage, ready, next)
    PROVE  /\ supervisor.stage = stage
           /\ supervisor'.step \in {"arm", "check", "await"}
           /\ supervisor'.stage = stage \/ (ready /\ supervisor'.stage = next)
<1>1. CASE supervisor.step = "arm"
  BY <1>1 DEF SupervisorWait
<1>2. CASE supervisor.step = "check"
  <2>1. /\ supervisor.stage = stage
        /\ IF ready THEN GoTo(next) ELSE supervisor' = [stage |-> stage, step |-> "await"]
    BY Zenon, <1>2 DEF SupervisorWait
  <2> QED
    BY <2>1 DEF GoTo
<1>3. CASE supervisor.step = "await"
  <2>1. supervisor.stage = stage /\ GoTo(stage)
    BY Zenon, <1>3 DEF SupervisorWait
  <2> QED
    BY Zenon, <2>1 DEF GoTo
<1> QED
  BY Zenon, <1>1, <1>2, <1>3 DEF Shapes

\* The three waits that end in another stage without further effects.
LEMMA SupervisorMoves ==
    ASSUME Shapes, SupervisorWaits
    PROVE  /\ supervisor'.step \in {"arm", "check", "await"}
           /\ \/ supervisor'.stage = supervisor.stage
              \/ /\ supervisor.stage = "request" /\ supervisor'.stage = "admission"
                 /\ shutting_down
              \/ /\ supervisor.stage = "scheduler" /\ supervisor'.stage = "drain"
                 /\ scheduler_stopped
              \/ /\ supervisor.stage = "drain" /\ supervisor'.stage = "close"
                 /\ Active = {}
           /\ UNCHANGED <<flags, admission, sched, op, client, progress>>
<1>1. CASE SupervisorWait("request", shutting_down, "admission")
  BY <1>1, WaitMoves DEF SupervisorWaits
<1>2. CASE SupervisorWait("scheduler", scheduler_stopped, "drain")
  BY <1>2, WaitMoves DEF SupervisorWaits
<1>3. CASE SupervisorWait("drain", Active = {}, "close")
  BY Zenon, <1>3, WaitMoves DEF SupervisorWaits
<1> QED
  BY Zenon, <1>1, <1>2, <1>3 DEF SupervisorWaits

\* The wait after a failed release.
LEMMA RetryMoves ==
    ASSUME Shapes, SupervisorAwaitsRetry
    PROVE  /\ supervisor'.step \in {"arm", "check", "await"}
           /\ supervisor.stage = "retry"
           /\ \/ supervisor'.stage = "retry" /\ UNCHANGED guard
              \/ supervisor'.stage = "release" /\ progress.retry_requested /\ UNCHANGED guard
              \/ supervisor'.stage = "finished"
           /\ UNCHANGED <<startup, owned, shutting_down, owner_released, admission, sched, op, client,
                          progress>>
<1> DEFINE next == IF handle # "held" THEN "finished" ELSE "release"
<1>1. SupervisorWait("retry", handle # "held" \/ progress.retry_requested, next)
  BY Zenon DEF SupervisorAwaitsRetry
<1>2. /\ supervisor.stage = "retry" /\ supervisor'.step \in {"arm", "check", "await"}
      /\ \/ supervisor'.stage = "retry"
         \/ (handle # "held" \/ progress.retry_requested) /\ supervisor'.stage = next
  BY Zenon, <1>1, WaitMoves
<1>3. IF supervisor'.stage = "finished" THEN DropGuard ELSE UNCHANGED guard
  BY Zenon DEF SupervisorAwaitsRetry
<1> QED
  BY Zenon, <1>2, <1>3 DEF SupervisorAwaitsRetry

-----------------------------------------------------------------------------
\* The shapes are kept by every step.
LEMMA ShapesStep ==
    ASSUME ShutdownInv, Next
    PROVE  Shapes'
<1> USE ShutdownAssumption DEF ShutdownInv
<1>1. CASE StartupAcquires
  BY Zenon, <1>1 DEF StartupAcquires, flags, owner, admission, sched, sup, Shapes, Outcomes
<1>2. CASE StartupPrepares
  BY Zenon, <1>2 DEF StartupPrepares, flags, owner, admission, sched, sup, Shapes, Outcomes
<1>3. CASE StartupRecovers
  BY <1>3 DEF StartupRecovers, flags, owner, admission, sched, sup, Shapes, Outcomes, GoTo
<1>4. CASE StartupReleases
  BY Zenon, <1>4 DEF StartupReleases, flags, owner, admission, sched, sup, Shapes, Outcomes, DropGuard
<1>5. CASE StartupDropped
  BY Zenon, <1>5 DEF StartupDropped, flags, owner, admission, sched, sup, Shapes, Outcomes, DropGuard
<1>6. CASE CleanupReleases
  BY Zenon, <1>6 DEF CleanupReleases, flags, owner, admission, sched, sup, Shapes, Outcomes
<1>7. CASE SchedulerCheck
  BY Zenon, <1>7 DEF SchedulerCheck, flags, owner, admission, sched, sup, Shapes, Outcomes
<1>8. CASE SchedulerArm
  BY Zenon, <1>8 DEF SchedulerArm, flags, owner, admission, sched, sup, Shapes, Outcomes, SchedulerAt
<1>9. CASE SchedulerPick
  BY Zenon, <1>9 DEF SchedulerPick, flags, owner, admission, sched, sup, Shapes, Outcomes, SchedulerAt
<1>10. CASE SchedulerAdmit
  BY Zenon, <1>10 DEF SchedulerAdmit, flags, owner, admission, sched, sup, Shapes, Outcomes, SchedulerAt
<1>11. CASE SchedulerStart
  BY Zenon, <1>11 DEF SchedulerStart, flags, owner, admission, sched, sup, Shapes, Outcomes, SchedulerAt
<1>12. CASE SchedulerTurnedAway
  BY Zenon, <1>12 DEF SchedulerTurnedAway, flags, owner, admission, sched, sup, Shapes, Outcomes,
     SchedulerAt
<1>13. CASE SchedulerSpawn
  BY Zenon, <1>13 DEF SchedulerSpawn, flags, owner, admission, sched, sup, Shapes, Outcomes, SchedulerAt
<1>14. CASE SchedulerEndScan
  BY Zenon, <1>14 DEF SchedulerEndScan, flags, owner, admission, sched, sup, Shapes, Outcomes,
     SchedulerAt
<1>15. CASE SchedulerRescan
  BY Zenon, <1>15 DEF SchedulerRescan, flags, owner, admission, sched, sup, Shapes, Outcomes, SchedulerAt
<1>16. CASE SchedulerDeadline
  BY Zenon, <1>16 DEF SchedulerDeadline, flags, owner, admission, sched, sup, Shapes, Outcomes,
     SchedulerAt
<1>17. CASE SchedulerWake
  BY Zenon, <1>17 DEF SchedulerWake, flags, owner, admission, sched, sup, Shapes, Outcomes, SchedulerAt
<1>18. CASE SchedulerFails
  BY Zenon, <1>18 DEF SchedulerFails, flags, owner, admission, sched, sup, Shapes, Outcomes
<1>19. CASE SchedulerLatch
  BY Zenon, <1>19 DEF SchedulerLatch, flags, owner, admission, sched, sup, Shapes, Outcomes, SchedulerAt,
     WakeScheduler, WakeSupervisor
<1>20. CASE SchedulerStop
  BY Zenon, <1>20 DEF SchedulerStop, flags, owner, admission, sched, sup, Shapes, Outcomes, SchedulerAt,
     WakeSupervisor
<1>21. CASE SupervisorWaits
  BY Zenon, <1>21, SupervisorMoves DEF Shapes
<1>22. CASE SupervisorAwaitsRetry
  BY Zenon, <1>22, RetryMoves DEF Shapes
<1>23. CASE SupervisorClaimsAdmission
  BY Zenon, <1>23 DEF SupervisorClaimsAdmission, flags, owner, admission, sched, sup, Shapes, Outcomes
<1>24. CASE SupervisorStopsScheduler
  BY Zenon, <1>24 DEF SupervisorStopsScheduler, flags, owner, admission, sched, sup, Shapes, Outcomes,
     WakeScheduler, GoTo
<1>25. CASE SupervisorClosesPublisher
  BY Zenon, <1>25 DEF SupervisorClosesPublisher, flags, owner, admission, sched, sup, Shapes, Outcomes,
     GoTo
<1>26. CASE SupervisorReleases
  <2>1. PICK released \in BOOLEAN :
            progress' = [progress EXCEPT !.results = Append(@, ShutdownOutcome(released)),
                                         !.retryable_release = ~released,
                                         !.retry_requested = FALSE]
    BY <1>26, Zenon DEF SupervisorReleases
  <2>2. ShutdownOutcome(released) \in Outcomes /\ (~released) \in BOOLEAN
    BY Zenon DEF ShutdownOutcome, Outcomes
  <2> DEFINE results == Append(progress.results, ShutdownOutcome(released))
             retryable == ~released
  <2>3. results \in Seq(Outcomes) /\ retryable \in BOOLEAN
    BY <2>2 DEF Shapes
  <2>4. progress' = [progress EXCEPT !.results = results, !.retryable_release = retryable,
                                     !.retry_requested = FALSE]
    BY Zenon, <2>1
  <2> HIDE DEF results, retryable
  <2>5. progress' \in [attempt : Nat, results : Seq(Outcomes), retryable_release : BOOLEAN,
                       retry_requested : BOOLEAN]
    BY Zenon, <2>3, <2>4 DEF Shapes
  <2> QED
    BY Zenon, <1>26, <2>5 DEF SupervisorReleases, Shapes, GoTo
<1>27. CASE SupervisorAnswers
  BY Zenon, <1>27 DEF SupervisorAnswers, flags, owner, admission, sched, sup, Shapes, Outcomes, GoTo
<1>28. CASE SupervisorPanics
  <2>1. progress.results \in Seq(Outcomes) /\ "StoreUnavailable" \in Outcomes
    BY Zenon DEF Shapes, Outcomes
  <2>2. Len(progress.results) = progress.attempt
    BY <1>28 DEF SupervisorPanics, ResultsInv, ResultsAligned, Owning, Shapes
  <2> DEFINE results == Append(progress.results, "StoreUnavailable")
  <2>3. progress' = [progress EXCEPT !.results = results, !.retryable_release = FALSE,
                                     !.retry_requested = FALSE]
    BY Zenon, <1>28, <2>2 DEF SupervisorPanics
  <2>4. results \in Seq(Outcomes)
    BY <2>1
  <2> HIDE DEF results
  <2>5. progress' \in [attempt : Nat, results : Seq(Outcomes), retryable_release : BOOLEAN,
                       retry_requested : BOOLEAN]
    BY Zenon, <2>3, <2>4 DEF Shapes
  <2> QED
    BY Zenon, <1>28, <2>5 DEF SupervisorPanics, Shapes, GoTo
<1>29. CASE PublicLifetimeDrop
  BY Zenon, <1>29 DEF PublicLifetimeDrop, flags, owner, admission, sched, sup, Shapes, Outcomes,
     NotifyRequest, WakeScheduler, WakeSupervisor
<1>30. CASE \E o \in Ops : OpLatch(o)
  BY <1>30 DEF OpLatch, flags, owner, admission, sched, sup, Shapes, Outcomes, WakeScheduler,
     WakeSupervisor
<1>31. CASE \E o \in Ops : InFlightGuardDrop(o)
  BY <1>31 DEF InFlightGuardDrop, flags, owner, admission, sched, sup, Shapes, Outcomes,
     NotifyScheduler, WakeSupervisor
<1>32. CASE \E c \in Clients : ClientEnter(c)
  BY Zenon, <1>32 DEF ClientEnter, flags, owner, admission, sched, sup, Shapes, Outcomes
<1>33. CASE \E c \in Clients : ClientCheck(c)
  BY <1>33 DEF ClientCheck, flags, owner, admission, sched, sup, Shapes, Outcomes
<1>34. CASE \E c \in Clients : ClientDone(c)
  BY <1>34 DEF ClientDone, flags, owner, admission, sched, sup, Shapes, Outcomes, NotifyScheduler
<1>35. CASE \E c \in Clients : ClientLatch(c)
  BY <1>35 DEF ClientLatch, flags, owner, admission, sched, sup, Shapes, Outcomes, WakeScheduler,
     WakeSupervisor
<1>36. CASE \E c \in Callers : ShutdownBegin(c)
  BY Zenon, <1>36 DEF ShutdownBegin, flags, owner, admission, sched, sup, Shapes, Outcomes, CallerAt
<1>37. CASE \E c \in Callers : ShutdownNotify(c)
  BY Zenon, <1>37 DEF ShutdownNotify, flags, owner, admission, sched, sup, Shapes, Outcomes, CallerAt,
     NotifyRequest, WakeScheduler, WakeSupervisor
<1>38. CASE \E c \in Callers : ShutdownJoin(c)
  <2> DEFINE retry == progress.retryable_release /\ Len(progress.results) > progress.attempt
             attempt == IF retry THEN progress.attempt + 1 ELSE progress.attempt
             requested == progress.retry_requested \/ retry
  <2>1. progress' = [progress EXCEPT !.attempt = attempt, !.retry_requested = requested]
    BY Zenon, <1>38 DEF ShutdownJoin, Shapes
  <2>2. attempt \in Nat /\ requested \in BOOLEAN
    BY DEF Shapes
  <2> HIDE DEF attempt, requested
  <2>3. progress' \in [attempt : Nat, results : Seq(Outcomes), retryable_release : BOOLEAN,
                       retry_requested : BOOLEAN]
    BY Zenon, <2>1, <2>2 DEF Shapes
  <2> QED
    BY Zenon, <1>38, <2>3 DEF ShutdownJoin, Shapes, sup
<1>39. CASE \E c \in Callers : ShutdownRetry(c)
  BY Zenon, <1>39 DEF ShutdownRetry, flags, owner, admission, sched, sup, Shapes, Outcomes, CallerAt,
     WakeSupervisor
<1>40. CASE \E c \in Callers : ShutdownWait(c)
  BY Zenon, <1>40 DEF ShutdownWait, flags, owner, admission, sched, sup, Shapes, Outcomes, CallerAt
<1>41. CASE \E c \in Callers : ShutdownReturn(c)
  BY <1>41 DEF ShutdownReturn, flags, owner, admission, sched, sup, Shapes, Outcomes, CallerAt
<1> QED
  BY Zenon, <1>1, <1>2, <1>3, <1>4, <1>5, <1>6, <1>7, <1>8, <1>9, <1>10, <1>11, <1>12, <1>13, <1>14,
     <1>15, <1>16, <1>17, <1>18, <1>19, <1>20, <1>21, <1>22, <1>23, <1>24, <1>25, <1>26, <1>27,
     <1>28, <1>29, <1>30, <1>31, <1>32, <1>33, <1>34, <1>35, <1>36, <1>37, <1>38, <1>39, <1>40,
     <1>41 DEF Next, StartupStep, SchedulerStep, SupervisorStep, OpStep, ClientStep, CallerStep

-----------------------------------------------------------------------------
\* Every step keeps the owner in the guard until the supervisor releases it.
LEMMA StartupInvStep ==
    ASSUME ShutdownInv, Next
    PROVE  StartupInv'
<1> USE ShutdownAssumption DEF ShutdownInv
<1>1. CASE StartupAcquires
  BY Zenon, <1>1 DEF StartupAcquires, flags, owner, admission, sched, sup, StartupInv, Owning, Shapes
<1>2. CASE StartupPrepares
  BY Zenon, <1>2 DEF StartupPrepares, flags, owner, admission, sched, sup, StartupInv, Owning, Shapes
<1>3. CASE StartupRecovers
  BY <1>3 DEF StartupRecovers, flags, owner, admission, sched, sup, StartupInv, Owning, Shapes,
     GoTo
<1>4. CASE StartupReleases
  BY Zenon, <1>4 DEF StartupReleases, flags, owner, admission, sched, sup, StartupInv, Owning, Shapes,
     DropGuard
<1>5. CASE StartupDropped
  BY Zenon, <1>5 DEF StartupDropped, flags, owner, admission, sched, sup, StartupInv, Owning, Shapes,
     DropGuard
<1>6. CASE CleanupReleases
  BY Zenon, <1>6 DEF CleanupReleases, flags, owner, admission, sched, sup, StartupInv, Owning, Shapes
<1>7. CASE SchedulerCheck
  BY Zenon, <1>7 DEF SchedulerCheck, flags, owner, admission, sched, sup, StartupInv, Owning, Shapes
<1>8. CASE SchedulerArm
  BY Zenon, <1>8 DEF SchedulerArm, flags, owner, admission, sched, sup, StartupInv, Owning, Shapes,
     SchedulerAt
<1>9. CASE SchedulerPick
  BY Zenon, <1>9 DEF SchedulerPick, flags, owner, admission, sched, sup, StartupInv, Owning, Shapes,
     SchedulerAt
<1>10. CASE SchedulerAdmit
  BY Zenon, <1>10 DEF SchedulerAdmit, flags, owner, admission, sched, sup, StartupInv, Owning, Shapes,
     SchedulerAt
<1>11. CASE SchedulerStart
  BY Zenon, <1>11 DEF SchedulerStart, flags, owner, admission, sched, sup, StartupInv, Owning, Shapes,
     SchedulerAt
<1>12. CASE SchedulerTurnedAway
  BY Zenon, <1>12 DEF SchedulerTurnedAway, flags, owner, admission, sched, sup, StartupInv, Owning,
     Shapes, SchedulerAt
<1>13. CASE SchedulerSpawn
  BY Zenon, <1>13 DEF SchedulerSpawn, flags, owner, admission, sched, sup, StartupInv, Owning, Shapes,
     SchedulerAt
<1>14. CASE SchedulerEndScan
  BY Zenon, <1>14 DEF SchedulerEndScan, flags, owner, admission, sched, sup, StartupInv, Owning, Shapes,
     SchedulerAt
<1>15. CASE SchedulerRescan
  BY Zenon, <1>15 DEF SchedulerRescan, flags, owner, admission, sched, sup, StartupInv, Owning, Shapes,
     SchedulerAt
<1>16. CASE SchedulerDeadline
  BY Zenon, <1>16 DEF SchedulerDeadline, flags, owner, admission, sched, sup, StartupInv, Owning, Shapes,
     SchedulerAt
<1>17. CASE SchedulerWake
  BY Zenon, <1>17 DEF SchedulerWake, flags, owner, admission, sched, sup, StartupInv, Owning, Shapes,
     SchedulerAt
<1>18. CASE SchedulerFails
  BY Zenon, <1>18 DEF SchedulerFails, flags, owner, admission, sched, sup, StartupInv, Owning, Shapes
<1>19. CASE SchedulerLatch
  BY Zenon, <1>19 DEF SchedulerLatch, flags, owner, admission, sched, sup, StartupInv, Owning, Shapes,
     SchedulerAt, WakeScheduler, WakeSupervisor
<1>20. CASE SchedulerStop
  BY Zenon, <1>20 DEF SchedulerStop, flags, owner, admission, sched, sup, StartupInv, Owning, Shapes,
     SchedulerAt, WakeSupervisor
<1>21. CASE SupervisorWaits
  BY Zenon, <1>21, SupervisorMoves DEF StartupInv, Owning, flags, owner, sched
<1>22. CASE SupervisorAwaitsRetry
  BY Zenon, <1>22, RetryMoves DEF StartupInv, Owning, sched
<1>23. CASE SupervisorClaimsAdmission
  BY Zenon, <1>23 DEF SupervisorClaimsAdmission, flags, owner, admission, sched, sup, StartupInv, Owning,
     Shapes
<1>24. CASE SupervisorStopsScheduler
  BY Zenon, <1>24 DEF SupervisorStopsScheduler, flags, owner, admission, sched, sup, StartupInv, Owning,
     Shapes, WakeScheduler, GoTo
<1>25. CASE SupervisorClosesPublisher
  BY Zenon, <1>25 DEF SupervisorClosesPublisher, flags, owner, admission, sched, sup, StartupInv, Owning,
     Shapes, GoTo
<1>26. CASE SupervisorReleases
  BY Zenon, <1>26 DEF SupervisorReleases, flags, owner, admission, sched, sup, StartupInv, Owning,
     Shapes, GoTo, ShutdownOutcome, Outcomes
<1>27. CASE SupervisorAnswers
  BY Zenon, <1>27 DEF SupervisorAnswers, flags, owner, admission, sched, sup, StartupInv, Owning, Shapes,
     GoTo
<1>28. CASE SupervisorPanics
  BY Zenon, <1>28 DEF SupervisorPanics, flags, owner, admission, sched, sup, StartupInv, Owning, Shapes,
     GoTo, DropGuard, Outcomes
<1>29. CASE PublicLifetimeDrop
  BY Zenon, <1>29 DEF PublicLifetimeDrop, flags, owner, admission, sched, sup, StartupInv, Owning,
     Shapes, NotifyRequest, WakeScheduler, WakeSupervisor
<1>30. CASE \E o \in Ops : OpLatch(o)
  BY <1>30 DEF OpLatch, flags, owner, admission, sched, sup, StartupInv, Owning, Shapes,
     WakeScheduler, WakeSupervisor
<1>31. CASE \E o \in Ops : InFlightGuardDrop(o)
  BY <1>31 DEF InFlightGuardDrop, flags, owner, admission, sched, sup, StartupInv, Owning, Shapes,
     NotifyScheduler, WakeSupervisor
<1>32. CASE \E c \in Clients : ClientEnter(c)
  BY <1>32 DEF ClientEnter, flags, owner, admission, sched, sup, StartupInv, Owning, Shapes
<1>33. CASE \E c \in Clients : ClientCheck(c)
  BY <1>33 DEF ClientCheck, flags, owner, admission, sched, sup, StartupInv, Owning, Shapes
<1>34. CASE \E c \in Clients : ClientDone(c)
  BY <1>34 DEF ClientDone, flags, owner, admission, sched, sup, StartupInv, Owning, Shapes,
     NotifyScheduler
<1>35. CASE \E c \in Clients : ClientLatch(c)
  BY <1>35 DEF ClientLatch, flags, owner, admission, sched, sup, StartupInv, Owning, Shapes,
     WakeScheduler, WakeSupervisor
<1>36. CASE \E c \in Callers : ShutdownBegin(c)
  BY <1>36 DEF ShutdownBegin, flags, owner, admission, sched, sup, StartupInv, Owning, Shapes,
     CallerAt
<1>37. CASE \E c \in Callers : ShutdownNotify(c)
  BY <1>37 DEF ShutdownNotify, flags, owner, admission, sched, sup, StartupInv, Owning, Shapes,
     CallerAt, NotifyRequest, WakeScheduler, WakeSupervisor
<1>38. CASE \E c \in Callers : ShutdownJoin(c)
  BY <1>38 DEF ShutdownJoin, flags, owner, admission, sched, sup, StartupInv, Owning, Shapes
<1>39. CASE \E c \in Callers : ShutdownRetry(c)
  BY <1>39 DEF ShutdownRetry, flags, owner, admission, sched, sup, StartupInv, Owning, Shapes,
     CallerAt, WakeSupervisor
<1>40. CASE \E c \in Callers : ShutdownWait(c)
  BY <1>40 DEF ShutdownWait, flags, owner, admission, sched, sup, StartupInv, Owning, Shapes,
     CallerAt
<1>41. CASE \E c \in Callers : ShutdownReturn(c)
  BY <1>41 DEF ShutdownReturn, flags, owner, admission, sched, sup, StartupInv, Owning, Shapes,
     CallerAt
<1> QED
  BY Zenon, <1>1, <1>2, <1>3, <1>4, <1>5, <1>6, <1>7, <1>8, <1>9, <1>10, <1>11, <1>12, <1>13, <1>14,
     <1>15, <1>16, <1>17, <1>18, <1>19, <1>20, <1>21, <1>22, <1>23, <1>24, <1>25, <1>26, <1>27,
     <1>28, <1>29, <1>30, <1>31, <1>32, <1>33, <1>34, <1>35, <1>36, <1>37, <1>38, <1>39, <1>40,
     <1>41 DEF Next, StartupStep, SchedulerStep, SupervisorStep, OpStep, ClientStep, CallerStep

-----------------------------------------------------------------------------
\* Every step keeps what the supervisor's stages have established.
LEMMA StageInvStep ==
    ASSUME ShutdownInv, Next
    PROVE  StageInv'
<1> USE ShutdownAssumption DEF ShutdownInv
<1>1. CASE StartupAcquires
  BY Zenon, <1>1 DEF StartupAcquires, flags, owner, admission, sched, sup, StageInv, StartupInv, Owning,
     Closed, Quiet, Active, Shapes
<1>2. CASE StartupPrepares
  BY Zenon, <1>2 DEF StartupPrepares, flags, owner, admission, sched, sup, StageInv, StartupInv, Owning,
     Closed, Quiet, Active, Shapes
<1>3. CASE StartupRecovers
  BY <1>3 DEF StartupRecovers, flags, owner, admission, sched, sup, StageInv, StartupInv, Owning,
     Closed, Quiet, Active, Shapes, GoTo
<1>4. CASE StartupReleases
  BY Zenon, <1>4 DEF StartupReleases, flags, owner, admission, sched, sup, StageInv, StartupInv, Owning,
     Closed, Quiet, Active, Shapes, DropGuard
<1>5. CASE StartupDropped
  BY Zenon, <1>5 DEF StartupDropped, flags, owner, admission, sched, sup, StageInv, StartupInv, Owning,
     Closed, Quiet, Active, Shapes, DropGuard
<1>6. CASE CleanupReleases
  BY Zenon, <1>6 DEF CleanupReleases, flags, owner, admission, sched, sup, StageInv, StartupInv, Owning,
     Closed, Quiet, Active, Shapes
<1>7. CASE SchedulerCheck
  BY Zenon, <1>7 DEF SchedulerCheck, flags, owner, admission, sched, sup, StageInv, StartupInv, Owning,
     Closed, Quiet, Active, Shapes
<1>8. CASE SchedulerArm
  BY Zenon, <1>8 DEF SchedulerArm, flags, owner, admission, sched, sup, StageInv, StartupInv, Owning,
     Closed, Quiet, Active, Shapes, SchedulerAt
<1>9. CASE SchedulerPick
  BY Zenon, <1>9 DEF SchedulerPick, flags, owner, admission, sched, sup, StageInv, StartupInv, Owning,
     Closed, Quiet, Active, Shapes, SchedulerAt
<1>10. CASE SchedulerAdmit
  BY Zenon, <1>10 DEF SchedulerAdmit, flags, owner, admission, sched, sup, StageInv, StartupInv, Owning,
     Closed, Quiet, Active, Shapes, SchedulerAt
<1>11. CASE SchedulerStart
  BY Zenon, <1>11 DEF SchedulerStart, flags, owner, admission, sched, sup, StageInv, StartupInv, Owning,
     Closed, Quiet, Active, Shapes, SchedulerAt
<1>12. CASE SchedulerTurnedAway
  BY Zenon, <1>12 DEF SchedulerTurnedAway, flags, owner, admission, sched, sup, StageInv, StartupInv,
     Owning, Closed, Quiet, Active, Shapes, SchedulerAt
<1>13. CASE SchedulerSpawn
  BY Zenon, <1>13 DEF SchedulerSpawn, flags, owner, admission, sched, sup, StageInv, StartupInv, Owning,
     Closed, Quiet, Active, Shapes, SchedulerAt
<1>14. CASE SchedulerEndScan
  BY Zenon, <1>14 DEF SchedulerEndScan, flags, owner, admission, sched, sup, StageInv, StartupInv,
     Owning, Closed, Quiet, Active, Shapes, SchedulerAt
<1>15. CASE SchedulerRescan
  BY Zenon, <1>15 DEF SchedulerRescan, flags, owner, admission, sched, sup, StageInv, StartupInv, Owning,
     Closed, Quiet, Active, Shapes, SchedulerAt
<1>16. CASE SchedulerDeadline
  BY Zenon, <1>16 DEF SchedulerDeadline, flags, owner, admission, sched, sup, StageInv, StartupInv,
     Owning, Closed, Quiet, Active, Shapes, SchedulerAt
<1>17. CASE SchedulerWake
  BY Zenon, <1>17 DEF SchedulerWake, flags, owner, admission, sched, sup, StageInv, StartupInv, Owning,
     Closed, Quiet, Active, Shapes, SchedulerAt
<1>18. CASE SchedulerFails
  BY Zenon, <1>18 DEF SchedulerFails, flags, owner, admission, sched, sup, StageInv, StartupInv, Owning,
     Closed, Quiet, Active, Shapes
<1>19. CASE SchedulerLatch
  BY <1>19 DEF SchedulerLatch, flags, owner, admission, sched, sup, StageInv, StartupInv, Owning,
     Closed, Quiet, Active, Shapes, SchedulerAt, WakeScheduler, WakeSupervisor
<1>20. CASE SchedulerStop
  BY Zenon, <1>20 DEF SchedulerStop, flags, owner, admission, sched, sup, StageInv, StartupInv, Owning,
     Closed, Quiet, Active, Shapes, SchedulerAt, WakeSupervisor
<1>21. CASE SupervisorWaits
  BY <1>21, SupervisorMoves DEF StageInv, Closed, Quiet, Active, flags, owner, admission, sched
<1>22. CASE SupervisorAwaitsRetry
  BY Zenon, <1>22, RetryMoves DEF StageInv, Closed, Quiet, Active, admission, sched
<1>23. CASE SupervisorClaimsAdmission
  BY Zenon, <1>23 DEF SupervisorClaimsAdmission, flags, owner, admission, sched, sup, StageInv,
     StartupInv, Owning, Closed, Quiet, Active, Shapes
<1>24. CASE SupervisorStopsScheduler
  BY Zenon, <1>24 DEF SupervisorStopsScheduler, flags, owner, admission, sched, sup, StageInv,
     StartupInv, Owning, Closed, Quiet, Active, Shapes, WakeScheduler, GoTo
<1>25. CASE SupervisorClosesPublisher
  BY Zenon, <1>25 DEF SupervisorClosesPublisher, flags, owner, admission, sched, sup, StageInv,
     StartupInv, Owning, Closed, Quiet, Active, Shapes, GoTo
<1>26. CASE SupervisorReleases
  BY Zenon, <1>26 DEF SupervisorReleases, flags, owner, admission, sched, sup, StageInv, StartupInv,
     Owning, Closed, Quiet, Active, Shapes, GoTo, ShutdownOutcome, Outcomes
<1>27. CASE SupervisorAnswers
  BY Zenon, <1>27 DEF SupervisorAnswers, flags, owner, admission, sched, sup, StageInv, StartupInv,
     Owning, Closed, Quiet, Active, Shapes, GoTo
<1>28. CASE SupervisorPanics
  BY Zenon, <1>28 DEF SupervisorPanics, flags, owner, admission, sched, sup, StageInv, StartupInv,
     Owning, Closed, Quiet, Active, Shapes, GoTo, DropGuard, Outcomes
<1>29. CASE PublicLifetimeDrop
  BY <1>29 DEF PublicLifetimeDrop, flags, owner, admission, sched, sup, StageInv, StartupInv,
     Owning, Closed, Quiet, Active, Shapes, NotifyRequest, WakeScheduler, WakeSupervisor
<1>30. CASE \E o \in Ops : OpLatch(o)
  BY <1>30 DEF OpLatch, flags, owner, admission, sched, sup, StageInv, StartupInv, Owning, Closed,
     Quiet, Active, Shapes, WakeScheduler, WakeSupervisor
<1>31. CASE \E o \in Ops : InFlightGuardDrop(o)
  BY <1>31 DEF InFlightGuardDrop, flags, owner, admission, sched, sup, StageInv, StartupInv,
     Owning, Closed, Quiet, Active, Shapes, NotifyScheduler, WakeSupervisor
<1>32. CASE \E c \in Clients : ClientEnter(c)
  BY <1>32 DEF ClientEnter, flags, owner, admission, sched, sup, StageInv, StartupInv, Owning,
     Closed, Quiet, Active, Shapes
<1>33. CASE \E c \in Clients : ClientCheck(c)
  BY <1>33 DEF ClientCheck, flags, owner, admission, sched, sup, StageInv, StartupInv, Owning,
     Closed, Quiet, Active, Shapes
<1>34. CASE \E c \in Clients : ClientDone(c)
  BY <1>34 DEF ClientDone, flags, owner, admission, sched, sup, StageInv, StartupInv, Owning,
     Closed, Quiet, Active, Shapes, NotifyScheduler
<1>35. CASE \E c \in Clients : ClientLatch(c)
  BY <1>35 DEF ClientLatch, flags, owner, admission, sched, sup, StageInv, StartupInv, Owning,
     Closed, Quiet, Active, Shapes, WakeScheduler, WakeSupervisor
<1>36. CASE \E c \in Callers : ShutdownBegin(c)
  BY <1>36 DEF ShutdownBegin, flags, owner, admission, sched, sup, StageInv, StartupInv, Owning,
     Closed, Quiet, Active, Shapes, CallerAt
<1>37. CASE \E c \in Callers : ShutdownNotify(c)
  BY <1>37 DEF ShutdownNotify, flags, owner, admission, sched, sup, StageInv, StartupInv, Owning,
     Closed, Quiet, Active, Shapes, CallerAt, NotifyRequest, WakeScheduler, WakeSupervisor
<1>38. CASE \E c \in Callers : ShutdownJoin(c)
  BY <1>38 DEF ShutdownJoin, flags, owner, admission, sched, sup, StageInv, StartupInv, Owning,
     Closed, Quiet, Active, Shapes
<1>39. CASE \E c \in Callers : ShutdownRetry(c)
  BY <1>39 DEF ShutdownRetry, flags, owner, admission, sched, sup, StageInv, StartupInv, Owning,
     Closed, Quiet, Active, Shapes, CallerAt, WakeSupervisor
<1>40. CASE \E c \in Callers : ShutdownWait(c)
  BY <1>40 DEF ShutdownWait, flags, owner, admission, sched, sup, StageInv, StartupInv, Owning,
     Closed, Quiet, Active, Shapes, CallerAt
<1>41. CASE \E c \in Callers : ShutdownReturn(c)
  BY <1>41 DEF ShutdownReturn, flags, owner, admission, sched, sup, StageInv, StartupInv, Owning,
     Closed, Quiet, Active, Shapes, CallerAt
<1> QED
  BY Zenon, <1>1, <1>2, <1>3, <1>4, <1>5, <1>6, <1>7, <1>8, <1>9, <1>10, <1>11, <1>12, <1>13, <1>14,
     <1>15, <1>16, <1>17, <1>18, <1>19, <1>20, <1>21, <1>22, <1>23, <1>24, <1>25, <1>26, <1>27,
     <1>28, <1>29, <1>30, <1>31, <1>32, <1>33, <1>34, <1>35, <1>36, <1>37, <1>38, <1>39, <1>40,
     <1>41 DEF Next, StartupStep, SchedulerStep, SupervisorStep, OpStep, ClientStep, CallerStep

-----------------------------------------------------------------------------
\* Every step keeps the results in line with the attempts callers joined.
LEMMA ResultsInvStep ==
    ASSUME ShutdownInv, Next
    PROVE  ResultsInv'
<1> USE ShutdownAssumption DEF ShutdownInv
<1>1. CASE StartupAcquires
  BY <1>1 DEF StartupAcquires, flags, owner, admission, sched, sup, ResultsInv, ResultsAligned,
     Owning, StartupInv, Shapes
<1>2. CASE StartupPrepares
  BY <1>2 DEF StartupPrepares, flags, owner, admission, sched, sup, ResultsInv, ResultsAligned,
     Owning, StartupInv, Shapes
<1>3. CASE StartupRecovers
  BY <1>3 DEF StartupRecovers, flags, owner, admission, sched, sup, ResultsInv, ResultsAligned,
     Owning, StartupInv, Shapes, GoTo
<1>4. CASE StartupReleases
  BY <1>4 DEF StartupReleases, flags, owner, admission, sched, sup, ResultsInv, ResultsAligned,
     Owning, StartupInv, Shapes, DropGuard
<1>5. CASE StartupDropped
  BY <1>5 DEF StartupDropped, flags, owner, admission, sched, sup, ResultsInv, ResultsAligned,
     Owning, StartupInv, Shapes, DropGuard
<1>6. CASE CleanupReleases
  BY <1>6 DEF CleanupReleases, flags, owner, admission, sched, sup, ResultsInv, ResultsAligned,
     Owning, StartupInv, Shapes
<1>7. CASE SchedulerCheck
  BY <1>7 DEF SchedulerCheck, flags, owner, admission, sched, sup, ResultsInv, ResultsAligned,
     Owning, StartupInv, Shapes
<1>8. CASE SchedulerArm
  BY <1>8 DEF SchedulerArm, flags, owner, admission, sched, sup, ResultsInv, ResultsAligned,
     Owning, StartupInv, Shapes, SchedulerAt
<1>9. CASE SchedulerPick
  BY <1>9 DEF SchedulerPick, flags, owner, admission, sched, sup, ResultsInv, ResultsAligned,
     Owning, StartupInv, Shapes, SchedulerAt
<1>10. CASE SchedulerAdmit
  BY <1>10 DEF SchedulerAdmit, flags, owner, admission, sched, sup, ResultsInv, ResultsAligned,
     Owning, StartupInv, Shapes, SchedulerAt
<1>11. CASE SchedulerStart
  BY <1>11 DEF SchedulerStart, flags, owner, admission, sched, sup, ResultsInv, ResultsAligned,
     Owning, StartupInv, Shapes, SchedulerAt
<1>12. CASE SchedulerTurnedAway
  BY <1>12 DEF SchedulerTurnedAway, flags, owner, admission, sched, sup, ResultsInv,
     ResultsAligned, Owning, StartupInv, Shapes, SchedulerAt
<1>13. CASE SchedulerSpawn
  BY <1>13 DEF SchedulerSpawn, flags, owner, admission, sched, sup, ResultsInv, ResultsAligned,
     Owning, StartupInv, Shapes, SchedulerAt
<1>14. CASE SchedulerEndScan
  BY <1>14 DEF SchedulerEndScan, flags, owner, admission, sched, sup, ResultsInv, ResultsAligned,
     Owning, StartupInv, Shapes, SchedulerAt
<1>15. CASE SchedulerRescan
  BY <1>15 DEF SchedulerRescan, flags, owner, admission, sched, sup, ResultsInv, ResultsAligned,
     Owning, StartupInv, Shapes, SchedulerAt
<1>16. CASE SchedulerDeadline
  BY <1>16 DEF SchedulerDeadline, flags, owner, admission, sched, sup, ResultsInv, ResultsAligned,
     Owning, StartupInv, Shapes, SchedulerAt
<1>17. CASE SchedulerWake
  BY <1>17 DEF SchedulerWake, flags, owner, admission, sched, sup, ResultsInv, ResultsAligned,
     Owning, StartupInv, Shapes, SchedulerAt
<1>18. CASE SchedulerFails
  BY <1>18 DEF SchedulerFails, flags, owner, admission, sched, sup, ResultsInv, ResultsAligned,
     Owning, StartupInv, Shapes
<1>19. CASE SchedulerLatch
  BY <1>19 DEF SchedulerLatch, flags, owner, admission, sched, sup, ResultsInv, ResultsAligned,
     Owning, StartupInv, Shapes, SchedulerAt, WakeScheduler, WakeSupervisor
<1>20. CASE SchedulerStop
  BY <1>20 DEF SchedulerStop, flags, owner, admission, sched, sup, ResultsInv, ResultsAligned,
     Owning, StartupInv, Shapes, SchedulerAt, WakeSupervisor
<1>21. CASE SupervisorWaits
  BY <1>21, SupervisorMoves DEF ResultsInv, ResultsAligned, Owning, flags
<1>22. CASE SupervisorAwaitsRetry
  BY Zenon, <1>22, RetryMoves DEF ResultsInv, ResultsAligned, Owning
<1>23. CASE SupervisorClaimsAdmission
  BY <1>23 DEF SupervisorClaimsAdmission, flags, owner, admission, sched, sup, ResultsInv,
     ResultsAligned, Owning, StartupInv, Shapes
<1>24. CASE SupervisorStopsScheduler
  BY <1>24 DEF SupervisorStopsScheduler, flags, owner, admission, sched, sup, ResultsInv,
     ResultsAligned, Owning, StartupInv, Shapes, WakeScheduler, GoTo
<1>25. CASE SupervisorClosesPublisher
  BY <1>25 DEF SupervisorClosesPublisher, flags, owner, admission, sched, sup, ResultsInv,
     ResultsAligned, Owning, StartupInv, Shapes, GoTo
<1>26. CASE SupervisorReleases
  <2>1. PICK released \in BOOLEAN :
            /\ owner_released' = released
            /\ progress' = [progress EXCEPT !.results = Append(@, ShutdownOutcome(released)),
                                            !.retryable_release = ~released,
                                            !.retry_requested = FALSE]
    BY <1>26, Zenon DEF SupervisorReleases
  <2>2. ShutdownOutcome(released) = "Complete" => released
    BY Zenon DEF ShutdownOutcome
  <2>3. /\ supervisor.stage = "release" /\ supervisor'.stage = "answer"
    BY Zenon, <1>26 DEF SupervisorReleases, GoTo
  <2>4. /\ progress.results \in Seq(Outcomes) /\ progress.attempt \in Nat
        /\ Len(progress.results) = progress.attempt
        /\ \A i \in 1 .. Len(progress.results) : progress.results[i] # "Complete"
    BY Zenon, <2>3 DEF ResultsInv, ResultsAligned, Shapes
  <2>5. ShutdownOutcome(released) \in Outcomes
    BY Zenon DEF ShutdownOutcome, Outcomes
  <2>6. /\ progress'.results = Append(progress.results, ShutdownOutcome(released))
        /\ progress'.attempt = progress.attempt
        /\ progress'.retryable_release = ~released
        /\ progress'.retry_requested = FALSE
    BY Zenon, <2>1 DEF Shapes
  <2>7. /\ Len(progress'.results) = progress.attempt + 1
        /\ \A i \in 1 .. Len(progress'.results) :
               progress'.results[i] = "Complete" => i = Len(progress'.results) /\ released
    BY <2>2, <2>4, <2>5, <2>6
  <2>8. ResultsAligned'
    BY Zenon, <2>3, <2>4, <2>6, <2>7 DEF ResultsAligned
  <2>9. released => owner_released' /\ ~progress'.retryable_release
    BY Zenon, <2>1, <2>6
  <2> QED
    BY Zenon, <2>3, <2>7, <2>8, <2>9 DEF ResultsInv, Owning
<1>27. CASE SupervisorAnswers
  BY <1>27 DEF SupervisorAnswers, flags, owner, admission, sched, sup, ResultsInv, ResultsAligned,
     Owning, StartupInv, Shapes, GoTo
<1>28. CASE SupervisorPanics
  BY <1>28 DEF SupervisorPanics, flags, owner, admission, sched, sup, ResultsInv, ResultsAligned,
     Owning, StartupInv, Shapes, GoTo, DropGuard, Outcomes
<1>29. CASE PublicLifetimeDrop
  BY <1>29 DEF PublicLifetimeDrop, flags, owner, admission, sched, sup, ResultsInv,
     ResultsAligned, Owning, StartupInv, Shapes, NotifyRequest, WakeScheduler, WakeSupervisor
<1>30. CASE \E o \in Ops : OpLatch(o)
  BY <1>30 DEF OpLatch, flags, owner, admission, sched, sup, ResultsInv, ResultsAligned, Owning,
     StartupInv, Shapes, WakeScheduler, WakeSupervisor
<1>31. CASE \E o \in Ops : InFlightGuardDrop(o)
  BY <1>31 DEF InFlightGuardDrop, flags, owner, admission, sched, sup, ResultsInv, ResultsAligned,
     Owning, StartupInv, Shapes, NotifyScheduler, WakeSupervisor
<1>32. CASE \E c \in Clients : ClientEnter(c)
  BY <1>32 DEF ClientEnter, flags, owner, admission, sched, sup, ResultsInv, ResultsAligned,
     Owning, StartupInv, Shapes
<1>33. CASE \E c \in Clients : ClientCheck(c)
  BY <1>33 DEF ClientCheck, flags, owner, admission, sched, sup, ResultsInv, ResultsAligned,
     Owning, StartupInv, Shapes
<1>34. CASE \E c \in Clients : ClientDone(c)
  BY <1>34 DEF ClientDone, flags, owner, admission, sched, sup, ResultsInv, ResultsAligned,
     Owning, StartupInv, Shapes, NotifyScheduler
<1>35. CASE \E c \in Clients : ClientLatch(c)
  BY <1>35 DEF ClientLatch, flags, owner, admission, sched, sup, ResultsInv, ResultsAligned,
     Owning, StartupInv, Shapes, WakeScheduler, WakeSupervisor
<1>36. CASE \E c \in Callers : ShutdownBegin(c)
  BY <1>36 DEF ShutdownBegin, flags, owner, admission, sched, sup, ResultsInv, ResultsAligned,
     Owning, StartupInv, Shapes, CallerAt
<1>37. CASE \E c \in Callers : ShutdownNotify(c)
  BY <1>37 DEF ShutdownNotify, flags, owner, admission, sched, sup, ResultsInv, ResultsAligned,
     Owning, StartupInv, Shapes, CallerAt, NotifyRequest, WakeScheduler, WakeSupervisor
<1>38. CASE \E c \in Callers : ShutdownJoin(c)
  BY <1>38 DEF ShutdownJoin, flags, owner, admission, sched, sup, ResultsInv, ResultsAligned,
     Owning, StartupInv, Shapes
<1>39. CASE \E c \in Callers : ShutdownRetry(c)
  BY <1>39 DEF ShutdownRetry, flags, owner, admission, sched, sup, ResultsInv, ResultsAligned,
     Owning, StartupInv, Shapes, CallerAt, WakeSupervisor
<1>40. CASE \E c \in Callers : ShutdownWait(c)
  BY <1>40 DEF ShutdownWait, flags, owner, admission, sched, sup, ResultsInv, ResultsAligned,
     Owning, StartupInv, Shapes, CallerAt
<1>41. CASE \E c \in Callers : ShutdownReturn(c)
  BY <1>41 DEF ShutdownReturn, flags, owner, admission, sched, sup, ResultsInv, ResultsAligned,
     Owning, StartupInv, Shapes, CallerAt
<1> QED
  BY ZenonT(30), <1>1, <1>2, <1>3, <1>4, <1>5, <1>6, <1>7, <1>8, <1>9, <1>10, <1>11, <1>12, <1>13, <1>14,
     <1>15, <1>16, <1>17, <1>18, <1>19, <1>20, <1>21, <1>22, <1>23, <1>24, <1>25, <1>26, <1>27,
     <1>28, <1>29, <1>30, <1>31, <1>32, <1>33, <1>34, <1>35, <1>36, <1>37, <1>38, <1>39, <1>40,
     <1>41 DEF Next, StartupStep, SchedulerStep, SupervisorStep, OpStep, ClientStep, CallerStep

-----------------------------------------------------------------------------
\* The first state, before the owner is acquired.
LEMMA InitKeeps == Init => ShutdownInv
<1> SUFFICES ASSUME Init PROVE ShutdownInv
  BY Zenon
<1>1. Shapes
  BY DEF Init, Shapes, Outcomes
<1>2. StartupInv
  BY Zenon DEF Init, StartupInv, Owning
<1>3. StageInv
  BY Zenon DEF Init, StageInv, Closed, Quiet
<1>4. ResultsInv
  BY DEF Init, ResultsInv, ResultsAligned
<1> QED
  BY Zenon, <1>1, <1>2, <1>3, <1>4 DEF ShutdownInv

\* A stuttering step.
LEMMA StutterKeeps ==
    ASSUME ShutdownInv, UNCHANGED vars
    PROVE  ShutdownInv'
BY DEF ShutdownInv, Shapes, StartupInv, StageInv, ResultsInv, ResultsAligned, Active, vars, flags, owner,
       admission, sched, sup

\* The inductive invariant holds throughout.
THEOREM ShutdownInvariant == Spec => []ShutdownInv
<1>1. ShutdownInv /\ [Next]_vars => ShutdownInv'
  BY Zenon, ShapesStep, StartupInvStep, StageInvStep, ResultsInvStep, StutterKeeps DEF ShutdownInv
<1> QED
  BY <1>1, InitKeeps, PTL DEF Spec

\* The ownership of the store is lost only when nothing of the service can
\* write any more, whether the supervisor releases it or the cleanup worker does.
THEOREM ReleaseIsQuiet == Spec => []ReleasedWhenQuiet
<1>1. ShutdownInv => ReleasedWhenQuiet
  <2> SUFFICES ASSUME ShutdownInv, startup = "running", ~owned
               PROVE  /\ scheduler \in {"announce", "stopped"}
                      /\ Active = {}
                      /\ \A c \in Clients : client[c] \notin {"writing", "store", "notify"}
    BY Zenon DEF ReleasedWhenQuiet
  <2>1. supervisor.stage \in Quiet
    BY Zenon DEF ShutdownInv, Shapes, StartupInv, Owning, Quiet
  <2> QED
    BY Zenon, <2>1 DEF ShutdownInv, StageInv, Closed, Quiet
<1> QED
  BY <1>1, ShutdownInvariant, PTL

\* results has an entry for every attempt before the one callers join now, a
\* release asked for is the one under way, and an Ok(()) of shutdown is the last
\* result, with the owner released for good.
THEOREM AnswersAreExact == Spec => []AnswersExact
<1>1. ShutdownInv => ResultsAligned
  BY Zenon DEF ShutdownInv, ResultsInv
<1>2. ShutdownInv => CompleteIsFinal
  BY DEF ShutdownInv, ResultsInv, CompleteIsFinal, Shapes
<1>3. ShutdownInv => AnswersExact
  BY Zenon, <1>1, <1>2 DEF AnswersExact
<1> QED
  BY <1>3, ShutdownInvariant, PTL

\* start_encoded is not called once the supervisor has passed admission.
THEOREM DispatchHasStopped == Spec => DispatchStops
<1> DEFINE Start == scheduler = "admitted" /\ scheduler' = "spawn"
                        => supervisor.stage \in {"request", "admission"}
<1>1. ShutdownInv /\ [Next]_vars => [Start]_vars
  <2> SUFFICES ASSUME ShutdownInv, Next, scheduler = "admitted", scheduler' = "spawn"
               PROVE  supervisor.stage \in {"request", "admission"}
    BY Zenon
  <2>1. ~shutting_down
    BY Zenon DEF Next, StartupStep, SchedulerStep, SupervisorStep, OpStep, ClientStep, CallerStep,
           StartupAcquires, StartupPrepares, StartupRecovers, StartupReleases, StartupDropped,
           CleanupReleases, SchedulerCheck, SchedulerArm, SchedulerPick, SchedulerAdmit,
           SchedulerStart, SchedulerTurnedAway, SchedulerSpawn, SchedulerEndScan, SchedulerRescan,
           SchedulerDeadline, SchedulerWake, SchedulerFails, SchedulerLatch, SchedulerStop,
           SupervisorWaits, SupervisorAwaitsRetry, SupervisorClaimsAdmission,
           SupervisorStopsScheduler, SupervisorClosesPublisher, SupervisorReleases,
           SupervisorAnswers, SupervisorPanics, PublicLifetimeDrop, OpLatch, InFlightGuardDrop,
           ClientEnter, ClientCheck, ClientDone, ClientLatch, ShutdownBegin, ShutdownNotify,
           ShutdownJoin, ShutdownRetry, ShutdownWait, ShutdownReturn, SchedulerAt, sched
  <2> QED
    BY Zenon, <2>1 DEF ShutdownInv, StageInv, StartupInv
<1> QED
  BY <1>1, ShutdownInvariant, PTL DEF Spec, DispatchStops
=============================================================================
