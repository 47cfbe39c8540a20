----------------------- MODULE SchedulerLoop_proofs -----------------------
(***************************************************************************)
(* scheduler_loop never sleeps on work it could start, unless a caller was *)
(* dropped between its store write and its notification.                   *)
(*                                                                         *)
(* The argument looks at the moments when the armed future has not been    *)
(* notified and nobody is about to notify it.  Between arming and sleeping *)
(* such a scan has seen the store without interference: no task was        *)
(* submitted or cancelled and no lease or slot was returned since.  So a   *)
(* task it passed over still lacks a slot or a lease, or still waits for   *)
(* the anchor.                                                             *)
(***************************************************************************)
EXTENDS SchedulerLoop, FiniteSetTheorems, TLAPS

\* Not notified, nobody is about to notify, and no notification was lost.
Quiet == notified = "waiting" /\ ~NotifierPending /\ ~lost

Full == InFlight >= MaxRunning

\* Why a scan passes over a queued task.
Stuck(id) == Full \/ ~Available(id) \/ HeldBack(id)

\* The cursor splits the ids, and the rest of a page lies before it.
CursorOK ==
    /\ \A id \in after : \A other \in TaskIds : other <= id => other \in after
    /\ pc = "visit" => page \subseteq after

\* What a scan in progress has met: every fresh task behind the cursor was
\* passed over for a reason that still stands, or is yet to be visited.
ScanOK ==
    /\ pc \in {"list", "visit", "endpage"} /\ saw_anchor /\ anchor # 0 =>
           task[anchor].state = "Queued"
    /\ pc = "visit" => \A id \in page : task[id].state = "Queued"
    /\ pc \in {"list", "endpage"} => Full \/ \A id \in after : Fresh(id) => Stuck(id)
    /\ pc = "visit" =>
           \A id \in after \ page :
               Fresh(id) => Full \/ (Stuck(id) /\ \A next \in page : id < next)
    /\ pc \in {"visit", "endpage"} => Full \/ more \/ \A id \in TaskIds : Fresh(id) => id \in after
    /\ pc \in {"deadline", "sleep"} =>
           \/ Full
           \/ /\ \A id \in TaskIds : Fresh(id) => Stuck(id)
              /\ anchor # 0 => task[anchor].state = "Queued"

\* Only a running task has a supervisor with more to do than drop its guard.
SupervisorsOK == \A id \in TaskIds : sup[id] # "none" => task[id].state = "Running"

\* The inductive invariant.
LoopInv == TypeOK /\ CursorOK /\ SupervisorsOK /\ (Quiet => ScanOK)

-----------------------------------------------------------------------------
(***************************************************************************)
(* Counting slots and pages.                                               *)
(***************************************************************************)

\* The number of operations in flight is a natural number.
LEMMA InFlightNat ==
    ASSUME TypeOK
    PROVE  InFlight \in Nat
<1>1. IsFiniteSet(Running)
  BY Zenon, LoopAssumption, FS_Subset DEF Running
<1> QED
  BY <1>1, FS_CardinalityType DEF InFlight, TypeOK

\* Starting a task (start_encoded, fetch_add) frees no slot and no lease.
LEMMA StartKeepsFull ==
    ASSUME TypeOK, NEW id \in TaskIds,
           sup' = [sup EXCEPT ![id] = "handler"], ended' = ended
    PROVE  /\ Full => Full'
           /\ \A other \in TaskIds : Available(other)' => Available(other)
<1>1. Running \subseteq Running' /\ Running' \subseteq TaskIds /\ Leases \subseteq Leases'
  BY Zenon DEF Running, Leases, TypeOK
<1>2. IsFiniteSet(Running') /\ IsFiniteSet(Running)
  BY Zenon, <1>1, LoopAssumption, FS_Subset
<1>3. Cardinality(Running) <= Cardinality(Running')
  BY Zenon, <1>1, <1>2, FS_Subset
<1>4. Cardinality(Running) \in Nat /\ Cardinality(Running') \in Nat
  BY Zenon, <1>2, FS_CardinalityType
<1>5. Full => Full'
  BY <1>3, <1>4, LoopAssumption DEF Full, InFlight, TypeOK
<1>6. ASSUME NEW other \in TaskIds, Available(other)'
      PROVE  Available(other)
  <2>1. Leases \cup {other} \subseteq Leases' \cup {other}
    BY Zenon, <1>1
  <2> QED
    BY <2>1, <1>6, LoopAssumption DEF Available
<1> QED
  BY Zenon, <1>5, <1>6

\* list_ready_queued: a page is a prefix of the ready tasks.
LEMMA PageIsPrefix ==
    ASSUME NEW ids \in SUBSET TaskIds, NEW id \in ids, NEW last \in PageOf(ids), id <= last
    PROVE  id \in PageOf(ids)
<1> DEFINE Before(i) == {other \in ids : other < i}
<1>1. id \in Nat /\ last \in Nat /\ ids \subseteq Nat
  BY Zenon, LoopAssumption DEF PageOf
<1>2. Before(id) \subseteq Before(last)
  <2> SUFFICES ASSUME NEW other \in ids, other < id
               PROVE  other < last
    BY Zenon
  <2> QED
    BY <1>1
<1>3. IsFiniteSet(Before(id)) /\ IsFiniteSet(Before(last))
  BY Zenon, LoopAssumption, FS_Subset
<1>4. Cardinality(Before(id)) <= Cardinality(Before(last))
  BY Zenon, <1>2, <1>3, FS_Subset
<1>5. Cardinality(Before(id)) \in Nat /\ Cardinality(Before(last)) \in Nat
  BY Zenon, <1>3, FS_CardinalityType
<1>6. Cardinality(Before(last)) < PageSize
  BY Zenon DEF PageOf
<1>7. Cardinality(Before(id)) < PageSize
  BY <1>4, <1>5, <1>6, LoopAssumption
<1> QED
  BY Zenon, <1>7 DEF PageOf

-----------------------------------------------------------------------------
(***************************************************************************)
(* Types and the cursor.                                                   *)
(***************************************************************************)

\* notify_one leaves a future and a permit.
LEMMA NotifyType ==
    ASSUME TypeOK, NotifyOne
    PROVE  notified' \in {"none", "waiting", "ready", "done"} /\ permit' \in BOOLEAN
BY Zenon DEF NotifyOne, TypeOK

\* Every step keeps the type invariant.
LEMMA TypeStep ==
    ASSUME TypeOK, [Next]_vars
    PROVE  TypeOK'
<1>1. CASE Tick
  BY <1>1 DEF Tick, TypeOK, scan
<1>2. CASE InFlightGuardDrop
  <2>1. ended' \in Nat
    BY <1>2 DEF InFlightGuardDrop, TypeOK
  <2> QED
    BY <1>2, <2>1, NotifyType, Zenon DEF InFlightGuardDrop, TypeOK, scan
<1>3. ASSUME NEW id \in TaskIds, CallerStep(id)
      PROVE  TypeOK'
  <2>1. caller' \in [TaskIds -> {"idle", "notify"}]
    BY <1>3, Zenon DEF CallerStep, Submit, CancelQueued, CallerNotify, CallerDropped, TypeOK
  <2>2. task' \in [TaskIds -> TaskRecords]
    BY <1>3 DEF CallerStep, Submit, CancelQueued, CallerNotify, CallerDropped, TypeOK, TaskRecords
  <2>3. CASE Submit(id) \/ CancelQueued(id)
    <3>1. UNCHANGED <<now, lost, sup, ended, pc, notified, permit, scan, retry_at>>
      BY <2>3, Zenon DEF Submit, CancelQueued
    <3> QED
      BY <2>1, <2>2, <3>1, ZenonT(30) DEF TypeOK, scan
  <2>4. CASE CallerNotify(id)
    BY <2>1, <2>2, <2>4, NotifyType, Zenon DEF CallerNotify, TypeOK, scan
  <2>5. CASE CallerDropped(id)
    BY <2>1, <2>2, <2>5, Zenon DEF CallerDropped, TypeOK, scan
  <2> QED
    BY Zenon, <1>3, <2>3, <2>4, <2>5 DEF CallerStep
<1>4. ASSUME NEW id \in TaskIds, SupervisorStep(id)
      PROVE  TypeOK'
  <2>1. ended' \in Nat
    BY <1>4 DEF SupervisorStep, HandlerReturns, Finish, TypeOK
  <2>2. task' \in [TaskIds -> TaskRecords]
    BY <1>4, LoopAssumption DEF SupervisorStep, HandlerReturns, Finish, TypeOK, TaskRecords
  <2>3. sup' \in [TaskIds -> {"none", "handler", "finish"}]
    BY <1>4, Zenon DEF SupervisorStep, HandlerReturns, Finish, TypeOK
  <2> QED
    BY <1>4, <2>1, <2>2, <2>3, ZenonT(30) DEF SupervisorStep, HandlerReturns, Finish, TypeOK, scan
<1>5. CASE LoopArm
  BY Zenon, <1>5 DEF LoopArm, LoopStep, Enable, TypeOK, scan
<1>6. CASE LoopSlots
  BY Zenon, <1>6 DEF LoopSlots, LoopStep, TypeOK, fairness
<1>7. CASE LoopListPage
  BY Zenon, <1>7 DEF LoopListPage, LoopStep, ReadyAfter, PageOf, TypeOK, fairness
<1>8. CASE LoopVisit
  <2>1. PICK id \in TaskIds :
            page' = page \ {id} /\ (Refused(id) \/ PassedOver(id) \/ Started(id))
    BY Zenon, <1>8 DEF LoopVisit
  <2>2. task' \in [TaskIds -> TaskRecords]
    BY <2>1 DEF Refused, PassedOver, Started, TypeOK, TaskRecords
  <2>3. sup' \in [TaskIds -> {"none", "handler", "finish"}]
    BY <2>1, Zenon DEF Refused, PassedOver, Started, TypeOK
  <2>4. anchor' \in TaskIds \cup {0} /\ saw_anchor' \in BOOLEAN
    BY <2>1, Zenon DEF Refused, PassedOver, Started, fairness, TypeOK
  <2>5. bypasses' \in Nat
    BY <2>1 DEF Refused, PassedOver, Started, fairness, TypeOK
  <2> QED
    BY <1>8, <2>1, <2>2, <2>3, <2>4, <2>5, Zenon DEF LoopVisit, LoopStep, TypeOK
<1>9. CASE LoopLeavePage
  BY Zenon, <1>9 DEF LoopLeavePage, LoopStep, TypeOK, fairness
<1>10. CASE LoopEndPage
  BY Zenon, <1>10 DEF LoopEndPage, LoopStep, TypeOK, scan
<1>11. CASE LoopAnchorGone
  BY Zenon, <1>11 DEF LoopAnchorGone, LoopStep, DropNotified, TypeOK
<1>12. CASE LoopDeadline
  BY <1>12 DEF LoopDeadline, LoopStep, IsMin, TypeOK, TaskRecords, scan
<1>13. CASE LoopWake
  BY Zenon, <1>13 DEF LoopWake, LoopStep, TypeOK, scan
<1>14. CASE UNCHANGED vars
  BY <1>14 DEF vars, TypeOK
<1> QED
  BY Zenon, <1>1, <1>2, <1>3, <1>4, <1>5, <1>6, <1>7, <1>8, <1>9, <1>10, <1>11, <1>12, <1>13, <1>14
     DEF Next, SchedulerStep

\* Only listing a page moves the cursor, and it takes the page along.
LEMMA CursorStep ==
    ASSUME TypeOK, CursorOK, [Next]_vars
    PROVE  CursorOK'
<1>1. CASE LoopListPage
  <2>1. CASE InFlight >= MaxRunning
    BY Zenon, <1>1, <2>1 DEF LoopListPage, LoopStep, CursorOK
  <2>2. CASE ~(InFlight >= MaxRunning)
    <3> DEFINE ready == ReadyAfter(after)
    <3>1. /\ page' = PageOf(ready)
          /\ after' = after \cup {id \in TaskIds : \E last \in PageOf(ready) : id <= last}
      BY Zenon, <1>1, <2>2 DEF LoopListPage
    <3>2. PageOf(ready) \subseteq TaskIds /\ TaskIds \subseteq Nat
      BY Zenon, LoopAssumption DEF PageOf, ReadyAfter
    <3> HIDE DEF ready
    <3>3. page' \subseteq after'
      <4> SUFFICES ASSUME NEW id \in PageOf(ready)
                   PROVE  id \in after'
        BY Zenon, <3>1
      <4>1. id \in TaskIds /\ id \in Nat
        BY <3>2, Zenon
      <4>2. id <= id
        BY <4>1
      <4> QED
        BY Zenon, <3>1, <4>1, <4>2
    <3>4. ASSUME NEW id \in after', NEW other \in TaskIds, other <= id
          PROVE  other \in after'
      <4>1. CASE id \in after
        BY Zenon, <3>1, <3>4, <4>1 DEF CursorOK
      <4>2. ASSUME NEW last \in PageOf(ready), id <= last, id \in TaskIds
            PROVE  other \in after'
        <5>1. other \in Nat /\ id \in Nat /\ last \in Nat
          BY Zenon, <3>2, <4>2
        <5>2. other <= last
          BY <3>4, <4>2, <5>1
        <5> QED
          BY Zenon, <3>1, <5>2
      <4> QED
        BY Zenon, <3>1, <3>4, <4>1, <4>2
    <3> QED
      BY Zenon, <3>3, <3>4 DEF CursorOK
  <2> QED
    BY Zenon, <2>1, <2>2
<1>2. CASE LoopVisit
  BY Zenon, <1>2 DEF LoopVisit, LoopStep, CursorOK
<1>3. CASE LoopSlots
  BY Zenon, <1>3 DEF LoopSlots, LoopStep, CursorOK
<1>4. CASE LoopLeavePage \/ LoopEndPage \/ LoopAnchorGone
  BY Zenon, <1>4 DEF LoopLeavePage, LoopEndPage, LoopAnchorGone, LoopStep, CursorOK, scan, fairness
<1>5. CASE LoopArm \/ LoopDeadline \/ LoopWake
  BY Zenon, <1>5 DEF LoopArm, LoopDeadline, LoopWake, LoopStep, CursorOK, scan
<1>6. ASSUME NEW id \in TaskIds, CallerStep(id) \/ SupervisorStep(id)
      PROVE  CursorOK'
  BY Zenon, <1>6 DEF CallerStep, Submit, CancelQueued, CallerNotify, CallerDropped, SupervisorStep,
              HandlerReturns, Finish, CursorOK, scan
<1>7. CASE Tick \/ InFlightGuardDrop \/ UNCHANGED vars
  BY Zenon, <1>7 DEF Tick, InFlightGuardDrop, CursorOK, scan, vars
<1> QED
  BY Zenon, <1>1, <1>2, <1>3, <1>4, <1>5, <1>6, <1>7 DEF Next, SchedulerStep

\* A supervisor appears with the start of its task and leaves no later than
\* the write that ends the attempt.
LEMMA SupervisorsStep ==
    ASSUME TypeOK, SupervisorsOK, [Next]_vars
    PROVE  SupervisorsOK'
<1>1. CASE LoopVisit
  <2>1. PICK id \in TaskIds : Refused(id) \/ PassedOver(id) \/ Started(id)
    BY Zenon, <1>1 DEF LoopVisit
  <2>2. CASE Started(id)
    BY Zenon, <2>2 DEF Started, SupervisorsOK, TypeOK
  <2>3. CASE Refused(id) \/ PassedOver(id)
    BY Zenon, <2>3 DEF Refused, PassedOver, SupervisorsOK
  <2> QED
    BY Zenon, <2>1, <2>2, <2>3
<1>2. CASE SchedulerStep /\ ~LoopVisit
  BY Zenon, <1>2 DEF SchedulerStep, LoopArm, LoopSlots, LoopListPage, LoopLeavePage, LoopEndPage,
              LoopAnchorGone, LoopDeadline, LoopWake, SupervisorsOK
<1>3. ASSUME NEW id \in TaskIds, CallerStep(id)
      PROVE  SupervisorsOK'
  BY Zenon, <1>3 DEF CallerStep, Submit, CancelQueued, CallerNotify, CallerDropped, SupervisorsOK, TypeOK
<1>4. ASSUME NEW id \in TaskIds, SupervisorStep(id)
      PROVE  SupervisorsOK'
  BY <1>4 DEF SupervisorStep, HandlerReturns, Finish, SupervisorsOK, TypeOK
<1>5. CASE Tick \/ InFlightGuardDrop \/ UNCHANGED vars
  BY Zenon, <1>5 DEF Tick, InFlightGuardDrop, SupervisorsOK, vars
<1> QED
  BY Zenon, <1>1, <1>2, <1>3, <1>4, <1>5 DEF Next

-----------------------------------------------------------------------------
(***************************************************************************)
(* The scan.                                                               *)
(***************************************************************************)

\* While the scheduler is the only one to step, a quiet state had a quiet one
\* before it, in which the same tasks were fresh and stuck.
LEMMA SameStore ==
    ASSUME UNCHANGED <<task, caller, lost, sup, ended, notified>>, Quiet'
    PROVE  /\ Quiet
           /\ Full' = Full
           /\ \A id \in TaskIds : Fresh(id)' = Fresh(id) /\ Available(id)' = Available(id)
BY Zenon DEF Quiet, NotifierPending, Full, InFlight, Running, Fresh, Available, Leases

\* A caller or a supervisor that steps is about to notify, just has, or was
\* dropped and its notification is lost.
LEMMA OthersNotify ==
    ASSUME TypeOK, NEW id \in TaskIds,
           CallerStep(id) \/ SupervisorStep(id) \/ InFlightGuardDrop
    PROVE  ~Quiet'
<1>1. CASE Submit(id) \/ CancelQueued(id)
  <2>1. caller'[id] = "notify"
    BY Zenon, <1>1 DEF Submit, CancelQueued, TypeOK
  <2> QED
    BY Zenon, <2>1 DEF Quiet, NotifierPending
<1>2. CASE CallerNotify(id) \/ InFlightGuardDrop
  BY Zenon, <1>2 DEF CallerNotify, InFlightGuardDrop, NotifyOne, Quiet
<1>3. CASE HandlerReturns(id)
  <2>1. sup'[id] = "finish"
    BY Zenon, <1>3 DEF HandlerReturns, TypeOK
  <2> QED
    BY Zenon, <2>1 DEF Quiet, NotifierPending
<1>4. CASE Finish(id)
  <2>1. ended' > 0
    BY <1>4 DEF Finish, TypeOK
  <2> QED
    BY Zenon, <2>1 DEF Quiet, NotifierPending
<1>5. CASE CallerDropped(id)
  BY Zenon, <1>5 DEF CallerDropped, Quiet
<1> QED
  BY Zenon, <1>1, <1>2, <1>3, <1>4, <1>5 DEF CallerStep, SupervisorStep

\* list_ready_queued returns every fresh task after the cursor up to the last
\* of its page, and says when there are more.
LEMMA ScanListPage ==
    ASSUME LoopInv, LoopListPage, Quiet'
    PROVE  ScanOK'
<1> DEFINE ready == ReadyAfter(after)
<1>1. /\ pc = "list"
      /\ UNCHANGED <<task, caller, lost, sup, ended, notified, anchor, bypasses, saw_anchor>>
  BY Zenon DEF LoopListPage, LoopStep, fairness
<1>2. /\ Quiet
      /\ Full' = Full
      /\ \A id \in TaskIds : Fresh(id)' = Fresh(id) /\ Available(id)' = Available(id)
  BY Zenon, <1>1, SameStore
<1>3. CASE Full
  <2>1. pc' = "deadline"
    BY Zenon, <1>3 DEF LoopListPage, Full
  <2> QED
    BY Zenon, <1>2, <1>3, <2>1 DEF ScanOK
<1>4. CASE ~Full
  <2>1. /\ pc' = "visit"
        /\ page' = PageOf(ready)
        /\ more' = (PageOf(ready) # ready)
        /\ after' = after \cup {id \in TaskIds : \E last \in PageOf(ready) : id <= last}
    BY Zenon, <1>4 DEF LoopListPage, Full
  <2>2. ready \subseteq TaskIds \ after /\ \A id \in ready : task[id].state = "Queued"
    BY Zenon DEF ReadyAfter
  <2>3. PageOf(ready) \subseteq ready
    BY Zenon DEF PageOf
  <2>4. \A id \in TaskIds \ after : Fresh(id) => id \in ready
    BY DEF ReadyAfter, Fresh, LoopInv, TypeOK
  <2>5. TaskIds \subseteq Nat
    BY Zenon, LoopAssumption
  <2>6. after \subseteq TaskIds
    BY Zenon DEF LoopInv, TypeOK
  <2> HIDE DEF ready
  <2>7. saw_anchor' /\ anchor' # 0 => task'[anchor'].state = "Queued"
    BY Zenon, <1>1, <1>2 DEF LoopInv, ScanOK
  <2>8. \A id \in page' : task'[id].state = "Queued"
    BY Zenon, <1>1, <2>1, <2>2, <2>3
  <2>9. ASSUME NEW id \in after' \ page', Fresh(id)'
        PROVE  Stuck(id)' /\ \A next \in page' : id < next
    <3>1. id \in TaskIds /\ Fresh(id)
      BY Zenon, <1>2, <2>1, <2>6, <2>9
    <3>2. id \in after
      <4> SUFFICES ASSUME id \notin after
                   PROVE  FALSE
        BY Zenon
      <4>1. PICK last \in PageOf(ready) : id <= last
        BY Zenon, <2>1, <2>9
      <4>2. id \in ready /\ ready \in SUBSET TaskIds
        BY Zenon, <2>2, <2>4, <3>1
      <4>3. id \in PageOf(ready)
        BY Zenon, <4>1, <4>2, PageIsPrefix
      <4> QED
        BY Zenon, <2>1, <2>9, <4>3
    <3>3. Stuck(id)
      BY Zenon, <1>1, <1>2, <1>4, <3>1, <3>2 DEF LoopInv, ScanOK
    <3>4. Stuck(id)'
      BY Zenon, <1>1, <1>2, <3>1, <3>3 DEF Stuck, HeldBack
    <3>5. ASSUME NEW next \in page'
          PROVE  id < next
      <4>1. next \in TaskIds \ after
        BY Zenon, <2>1, <2>2, <2>3
      <4>2. ~(next <= id)
        BY Zenon, <3>2, <4>1 DEF LoopInv, CursorOK
      <4>3. id \in Nat /\ next \in Nat
        BY Zenon, <2>5, <3>1, <4>1
      <4> QED
        BY <4>2, <4>3
    <3> QED
      BY Zenon, <3>4, <3>5
  <2>10. more' \/ \A id \in TaskIds : Fresh(id)' => id \in after'
    <3> SUFFICES ASSUME ~more', NEW id \in TaskIds, Fresh(id)'
                 PROVE  id \in after'
      BY Zenon
    <3>1. PageOf(ready) = ready
      BY Zenon, <2>1
    <3>2. id \in after \/ id \in ready
      BY Zenon, <1>2, <2>4
    <3>3. id \in Nat
      BY Zenon, <2>5
    <3>4. id <= id
      BY <3>3
    <3> QED
      BY Zenon, <2>1, <3>1, <3>2, <3>4
  <2> QED
    BY Zenon, <2>1, <2>7, <2>8, <2>9, <2>10 DEF ScanOK
<1> QED
  BY Zenon, <1>3, <1>4

\* Visiting a record: a task is started, refused or passed over, and none of
\* that makes a task startable that was passed over before.
LEMMA ScanVisit ==
    ASSUME LoopInv, LoopVisit, Quiet'
    PROVE  ScanOK'
<1>1. PICK id \in TaskIds :
          IsMin(id, page) /\ page' = page \ {id} /\ (Refused(id) \/ PassedOver(id) \/ Started(id))
  BY Zenon DEF LoopVisit
<1>2. pc = "visit" /\ pc' = "visit" /\ UNCHANGED <<caller, lost, ended, notified, after, more>>
  BY Zenon DEF LoopVisit, LoopStep
<1>3. Quiet
  <2>1. CASE Started(id)
    <3>1. sup[id] # "finish"
      BY Zenon, <2>1 DEF Started, LoopInv, SupervisorsOK
    <3>2. \A other \in TaskIds : other # id => sup'[other] = sup[other]
      BY Zenon, <2>1 DEF Started, LoopInv, TypeOK
    <3> QED
      BY Zenon, <1>2, <3>1, <3>2 DEF Quiet, NotifierPending
  <2>2. CASE Refused(id) \/ PassedOver(id)
    BY Zenon, <1>2, <2>2 DEF Refused, PassedOver, Quiet, NotifierPending
  <2> QED
    BY Zenon, <1>1, <2>1, <2>2
<1>4. /\ saw_anchor /\ anchor # 0 => task[anchor].state = "Queued"
      /\ \A i \in page : task[i].state = "Queued"
      /\ \A i \in after \ page : Fresh(i) => Full \/ (Stuck(i) /\ \A next \in page : i < next)
      /\ Full \/ more \/ \A i \in TaskIds : Fresh(i) => i \in after
  BY Zenon, <1>2, <1>3 DEF LoopInv, ScanOK
<1>5. id \in page /\ page \subseteq TaskIds /\ after \subseteq TaskIds /\ TaskIds \subseteq Nat
  BY Zenon, <1>1, LoopAssumption DEF IsMin, LoopInv, TypeOK
<1>6. \A next \in page' : id < next
  <2> SUFFICES ASSUME NEW next \in page'
               PROVE  id < next
    BY Zenon
  <2>1. id \in Nat /\ next \in Nat /\ id # next /\ id <= next
    BY Zenon, <1>1, <1>5 DEF IsMin
  <2> QED
    BY <2>1
<1>7. CASE Refused(id)
  <2>1. /\ UNCHANGED <<task, caller, lost, sup, ended, notified, bypasses>>
        /\ anchor' = IF anchor = 0 THEN id ELSE anchor
        /\ saw_anchor' = (saw_anchor \/ anchor' = id)
    BY Zenon, <1>2, <1>7 DEF Refused
  <2>2. /\ Full' = Full
        /\ \A i \in TaskIds : Fresh(i)' = Fresh(i) /\ Available(i)' = Available(i)
    BY Zenon, <2>1, SameStore
  <2>3. \A i \in TaskIds : Stuck(i) => Stuck(i)'
    BY Zenon, <2>1, <2>2 DEF Stuck, HeldBack
  <2>4. Stuck(id)'
    BY Zenon, <1>7, <2>2 DEF Refused, Stuck
  <2>5. saw_anchor' /\ anchor' # 0 => task'[anchor'].state = "Queued"
    BY Zenon, <1>4, <1>5, <2>1
  <2>6. \A i \in after' \ page' :
            Fresh(i)' => Full' \/ (Stuck(i)' /\ \A next \in page' : i < next)
    BY Zenon, <1>1, <1>2, <1>4, <1>5, <1>6, <2>2, <2>3, <2>4
  <2> QED
    BY Zenon, <1>1, <1>2, <1>4, <2>1, <2>2, <2>5, <2>6 DEF ScanOK
<1>8. CASE PassedOver(id)
  <2>1. /\ UNCHANGED <<task, caller, lost, sup, ended, notified, anchor, bypasses>>
        /\ saw_anchor' = (saw_anchor \/ anchor = id)
    BY Zenon, <1>2, <1>8 DEF PassedOver, fairness
  <2>2. /\ Full' = Full
        /\ \A i \in TaskIds : Fresh(i)' = Fresh(i) /\ Available(i)' = Available(i)
    BY Zenon, <2>1, SameStore
  <2>3. \A i \in TaskIds : Stuck(i) => Stuck(i)'
    BY Zenon, <2>1, <2>2 DEF Stuck, HeldBack
  <2>4. Stuck(id)'
    BY Zenon, <1>4, <1>5, <1>8, <2>3 DEF PassedOver, Stuck
  <2>5. saw_anchor' /\ anchor' # 0 => task'[anchor'].state = "Queued"
    BY Zenon, <1>4, <1>5, <2>1
  <2>6. \A i \in after' \ page' :
            Fresh(i)' => Full' \/ (Stuck(i)' /\ \A next \in page' : i < next)
    BY Zenon, <1>1, <1>2, <1>4, <1>5, <1>6, <2>2, <2>3, <2>4
  <2> QED
    BY Zenon, <1>1, <1>2, <1>4, <2>1, <2>2, <2>5, <2>6 DEF ScanOK
<1>9. CASE Started(id)
  <2>1. /\ \A i \in TaskIds : i # id => task'[i] = task[i]
        /\ task'[id].state = "Running"
        /\ sup' = [sup EXCEPT ![id] = "handler"] /\ ended' = ended
        /\ saw_anchor' = (saw_anchor \/ anchor = id)
        /\ anchor' = IF anchor = id THEN 0 ELSE anchor
    BY Zenon, <1>2, <1>9 DEF Started, LoopInv, TypeOK
  <2>2. anchor # id => bypasses' \in Nat /\ bypasses' >= bypasses
    BY <1>9 DEF Started, LoopInv, TypeOK
  <2>3. (Full => Full') /\ \A i \in TaskIds : Available(i)' => Available(i)
    BY Zenon, <2>1, StartKeepsFull DEF LoopInv
  <2>4. ~Fresh(id)' /\ \A i \in TaskIds : Fresh(i)' => Fresh(i)
    BY Zenon, <2>1 DEF Fresh
  <2>5. saw_anchor' /\ anchor' # 0 => task'[anchor'].state = "Queued"
    BY Zenon, <1>4, <2>1 DEF LoopInv, TypeOK
  <2>6. ASSUME NEW i \in after' \ page', Fresh(i)'
        PROVE  Full' \/ (Stuck(i)' /\ \A next \in page' : i < next)
    <3>1. i \in after \ page /\ i \in TaskIds /\ Fresh(i)
      BY Zenon, <1>1, <1>2, <1>5, <2>4, <2>6
    <3>2. CASE Full
      BY Zenon, <2>3, <3>2
    <3>3. ASSUME Stuck(i), \A next \in page : i < next, ~Full
          PROVE  Stuck(i)'
      <4>1. CASE HeldBack(i)
        <5>1. i < id /\ i \in Nat /\ id \in Nat
          BY Zenon, <1>5, <3>1, <3>3
        <5>2. anchor # id
          BY <4>1, <5>1 DEF HeldBack
        <5>3. HeldBack(i)'
          BY <2>1, <2>2, <4>1, <5>2, LoopAssumption DEF HeldBack, LoopInv, TypeOK
        <5> QED
          BY Zenon, <5>3 DEF Stuck
      <4> QED
        BY Zenon, <2>3, <3>1, <3>3, <4>1 DEF Stuck
    <3> QED
      BY Zenon, <1>1, <1>4, <3>1, <3>2, <3>3
  <2>7. Full' \/ more' \/ \A i \in TaskIds : Fresh(i)' => i \in after'
    BY Zenon, <1>2, <1>4, <2>3, <2>4
  <2>8. \A i \in page' : task'[i].state = "Queued"
    BY Zenon, <1>1, <1>4, <1>5, <2>1
  <2> QED
    BY Zenon, <1>2, <2>5, <2>6, <2>7, <2>8 DEF ScanOK
<1> QED
  BY Zenon, <1>1, <1>7, <1>8, <1>9

\* Every step that leaves the future quiet keeps the account of the scan.
LEMMA ScanStep ==
    ASSUME LoopInv, [Next]_vars, Quiet'
    PROVE  ScanOK'
<1>1. CASE Tick \/ UNCHANGED vars
  <2>1. UNCHANGED <<task, caller, lost, sup, ended, notified, pc, anchor, bypasses, saw_anchor, after,
                    page, more>>
    BY Zenon, <1>1 DEF Tick, vars, scan
  <2>2. /\ Quiet
        /\ Full' = Full
        /\ \A id \in TaskIds : Fresh(id)' = Fresh(id) /\ Available(id)' = Available(id)
    BY Zenon, <2>1, SameStore
  <2>3. ScanOK
    BY Zenon, <2>2 DEF LoopInv
  <2>4. \A id \in TaskIds : Stuck(id)' = Stuck(id)
    BY Zenon, <2>1, <2>2 DEF Stuck, HeldBack
  <2>5. after \subseteq TaskIds
    BY Zenon DEF LoopInv, TypeOK
  <2> QED
    BY Zenon, <2>1, <2>2, <2>3, <2>4, <2>5 DEF ScanOK
<1>2. ASSUME NEW id \in TaskIds, CallerStep(id) \/ SupervisorStep(id) \/ InFlightGuardDrop
      PROVE  FALSE
  BY Zenon, <1>2, OthersNotify DEF LoopInv
<1>3. CASE LoopArm \/ LoopWake \/ LoopAnchorGone
  BY Zenon, <1>3 DEF LoopArm, LoopWake, LoopAnchorGone, DropNotified, Quiet, ScanOK
<1>4. CASE LoopSlots
  <2>1. UNCHANGED <<task, caller, lost, sup, ended, notified, anchor, bypasses>>
    BY Zenon, <1>4 DEF LoopSlots, LoopStep, fairness
  <2>2. Full' = Full
    BY Zenon, <2>1, SameStore
  <2>3. CASE Full
    <3>1. pc' = "deadline"
      BY <1>4, <2>3, InFlightNat, LoopAssumption DEF LoopSlots, Full, LoopInv
    <3> QED
      BY Zenon, <2>2, <2>3, <3>1 DEF ScanOK
  <2>4. CASE ~Full
    <3>1. pc' = "list" /\ after' = {} /\ saw_anchor' = (anchor = 0)
      BY <1>4, <2>4, InFlightNat, LoopAssumption DEF LoopSlots, Full, LoopInv
    <3> QED
      BY Zenon, <2>1, <3>1 DEF ScanOK
  <2> QED
    BY Zenon, <2>3, <2>4
<1>5. CASE LoopListPage
  BY Zenon, <1>5, ScanListPage
<1>6. CASE LoopVisit
  BY Zenon, <1>6, ScanVisit
<1>7. CASE LoopLeavePage \/ LoopEndPage \/ LoopDeadline
  <2>1. UNCHANGED <<task, caller, lost, sup, ended, notified, anchor, bypasses, saw_anchor, after, more>>
    BY Zenon, <1>7 DEF LoopLeavePage, LoopEndPage, LoopDeadline, LoopStep, scan, fairness
  <2>2. /\ Quiet
        /\ Full' = Full
        /\ \A id \in TaskIds : Fresh(id)' = Fresh(id) /\ Available(id)' = Available(id)
    BY Zenon, <2>1, SameStore
  <2>3. ScanOK
    BY Zenon, <2>2 DEF LoopInv
  <2>4. \A id \in TaskIds : Stuck(id)' = Stuck(id)
    BY Zenon, <2>1, <2>2 DEF Stuck, HeldBack
  <2>5. after \subseteq TaskIds
    BY Zenon DEF LoopInv, TypeOK
  <2>6. CASE LoopLeavePage
    <3>1. pc = "visit" /\ pc' = "endpage" /\ (Full \/ page = {})
      BY Zenon, <2>6 DEF LoopLeavePage, LoopStep, Full
    <3> QED
      BY Zenon, <2>1, <2>2, <2>3, <2>4, <2>5, <3>1 DEF ScanOK
  <2>7. CASE LoopEndPage
    <3>1. /\ pc = "endpage"
          /\ \/ Full /\ pc' = "deadline"
             \/ more /\ pc' = "list"
             \/ ~more /\ saw_anchor /\ pc' = "deadline"
      BY Zenon, <2>7 DEF LoopEndPage, LoopStep, Full
    <3> QED
      BY Zenon, <2>1, <2>2, <2>3, <2>4, <2>5, <3>1 DEF ScanOK
  <2>8. CASE LoopDeadline
    <3>1. pc = "deadline" /\ pc' = "sleep"
      BY Zenon, <2>8 DEF LoopDeadline, LoopStep
    <3> QED
      BY Zenon, <2>1, <2>2, <2>3, <2>4, <3>1 DEF ScanOK
  <2> QED
    BY Zenon, <1>7, <2>6, <2>7, <2>8
<1>8. CASE InFlightGuardDrop
  BY Zenon, <1>8 DEF InFlightGuardDrop, NotifyOne, Quiet
<1> QED
  BY Zenon, <1>1, <1>2, <1>3, <1>4, <1>5, <1>6, <1>7, <1>8 DEF Next, SchedulerStep

-----------------------------------------------------------------------------
\* scheduler_loop never sleeps on a task that has a slot, a lease and its turn
\* while nobody is about to notify it, unless a caller was dropped between its
\* store write and its notification.
THEOREM SleepIsJustified ==
    Spec => []SleepJustified
<1>1. Init => LoopInv
  <2> SUFFICES ASSUME Init
               PROVE  LoopInv
    BY Zenon
  <2>1. TypeOK
    BY Zenon DEF Init, TypeOK, TaskRecords
  <2>2. CursorOK /\ SupervisorsOK /\ ~Quiet
    BY Zenon DEF Init, CursorOK, SupervisorsOK, Quiet
  <2> QED
    BY Zenon, <2>1, <2>2 DEF LoopInv
<1>2. LoopInv /\ [Next]_vars => LoopInv'
  BY Zenon, TypeStep, CursorStep, SupervisorsStep, ScanStep DEF LoopInv
<1>3. LoopInv => SleepJustified
  <2> SUFFICES ASSUME LoopInv, pc = "sleep", notified = "waiting", ~NotifierPending, ~lost,
                      NEW id \in TaskIds, Startable(id)
               PROVE  FALSE
    BY Zenon DEF SleepJustified
  <2>1. ScanOK
    BY Zenon DEF LoopInv, Quiet
  <2>2. ~Full
    BY InFlightNat, LoopAssumption DEF Startable, Full, LoopInv
  <2> QED
    BY Zenon, <2>1, <2>2 DEF ScanOK, Startable, Stuck, HeldBack
<1> QED
  BY <1>1, <1>2, <1>3, PTL DEF Spec
=============================================================================
