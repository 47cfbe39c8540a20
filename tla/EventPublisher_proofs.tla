------------------------ MODULE EventPublisher_proofs ------------------------
(***************************************************************************)
(* No committed event is lost, the bus gets the events of a task in order, *)
(* no accepted command is left unanswered, and a command archives nothing  *)
(* but the failing head, for any tasks, clocks, page size, channel         *)
(* capacity and number of restarts.                                        *)
(*                                                                         *)
(* A row is deleted in two places only.  The worker deletes the head of    *)
(* its page after the bus has accepted it, and the page does not change in *)
(* between, whatever is written meanwhile; an operator's command moves the *)
(* row to the archive in the same transaction.                             *)
(***************************************************************************)
EXTENDS EventPublisher, FiniteSetTheorems, WellFoundedInduction, TLAPS

\* Every revision committed so far is somewhere, and a row about to be deleted
\* has been accepted by the bus.
Kept ==
    /\ \A t \in Tasks : \A v \in 1 .. version[t] :
           <<t, v>> \in Events(outbox) \cup admitted \cup archive
    /\ worker.pc = "mark" => Event(Oldest(worker.page)) \in admitted

\* The gate of quarantine_failed is shut before the worker can leave.
Answered ==
    /\ worker.pc \in {"exit", "done"} => closing
    /\ worker.pc = "done" => controls = <<>>

Fields == {"pc", "page", "failure", "quarantined"}

PublisherInv ==
    /\ version \in [Tasks -> Nat]
    /\ DOMAIN worker = Fields
    /\ Kept
    /\ Answered

\* Where the worker goes without touching the store.
LEMMA GotoKeeps ==
    ASSUME PublisherInv, NEW w, Goto(w),
           DOMAIN w = Fields, w.pc # "mark", w.pc \in {"exit", "done"} => closing,
           w.pc = "done" => controls = <<>>
    PROVE  PublisherInv'
BY Zenon DEF Goto, PublisherInv, Kept, Answered, durable

\* The worker's record at another place.
LEMMA AtFields ==
    ASSUME PublisherInv, NEW pc
    PROVE  /\ DOMAIN At(pc) = Fields
           /\ At(pc).pc = pc
           /\ At(pc).page = worker.page
BY Zenon DEF PublisherInv, At, Fields

\* Deleting a row whose event the bus has accepted loses nothing.
LEMMA DeleteKeeps ==
    ASSUME PublisherInv, worker.pc = "mark", NEW t \in Tasks, NEW v \in 1 .. version[t]
    PROVE  <<t, v>> \in Events(outbox \ {Oldest(worker.page)}) \cup admitted \cup archive
<1>1. CASE <<t, v>> = Event(Oldest(worker.page))
  BY Zenon, <1>1 DEF PublisherInv, Kept
<1>2. CASE <<t, v>> # Event(Oldest(worker.page))
  BY Zenon, <1>2 DEF PublisherInv, Kept, Events
<1> QED
  BY Zenon, <1>1, <1>2

\* process_control: what leaves the outbox enters the archive.
LEMMA ControlKeeps ==
    ASSUME PublisherInv, NEW next, NEW unlucky, ProcessControl(next, unlucky),
           {next, unlucky} \cap {"mark", "done"} = {},
           "exit" \in {next, unlucky} => closing
    PROVE  PublisherInv'
<1> DEFINE gone == Quarantines(Head(controls))
<1>1. /\ outbox' = outbox \ gone
      /\ archive' = archive \cup Events(gone)
      /\ worker' = IF gone = {} THEN [worker EXCEPT !.pc = unlucky]
                   ELSE [worker EXCEPT !.pc = next, !.quarantined = TRUE, !.failure = NoEvent]
      /\ UNCHANGED <<version, admitted, closing>>
  BY Zenon DEF ProcessControl
<1> HIDE DEF gone
<1>2. /\ DOMAIN worker' = Fields
      /\ worker'.pc \in {next, unlucky}
  BY Zenon, <1>1 DEF PublisherInv, Fields
<1>3. Events(outbox') \cup archive' = Events(outbox) \cup archive \cup Events(gone)
  BY Zenon, <1>1 DEF Events
<1>4. Kept'
  BY Zenon, <1>1, <1>2, <1>3 DEF Kept, PublisherInv
<1>5. Answered'
  BY Zenon, <1>1, <1>2 DEF Answered
<1> QED
  BY Zenon, <1>1, <1>2, <1>4, <1>5 DEF PublisherInv

\* The steps of the worker.
LEMMA WorkerKeeps ==
    ASSUME PublisherInv, Worker
    PROVE  PublisherInv'
<1>1. CASE ProcessQueuedControls
  BY Zenon, <1>1, ControlKeeps DEF ProcessQueuedControls, Draining, PublisherInv, Answered
<1>2. CASE List
  <2> DEFINE page == ListOutbox(PageLimit)
  <2>1. \E pc \in {"empty", "page", "backoff"} :
            \/ Goto([At(pc) EXCEPT !.page = page])
            \/ Goto([At(pc) EXCEPT !.page = {}])
    <3>1. CASE Goto([At("backoff") EXCEPT !.page = {}])
      BY Zenon, <3>1
    <3>2. CASE Goto([At(IF page = {} THEN "empty" ELSE "page") EXCEPT !.page = page])
      BY <3>2, Zenon
    <3> QED
      BY Zenon, <1>2, <3>1, <3>2 DEF List
  <2> PICK pc \in {"empty", "page", "backoff"} :
            \/ Goto([At(pc) EXCEPT !.page = page])
            \/ Goto([At(pc) EXCEPT !.page = {}])
    BY Zenon, <2>1
  <2>2. PICK w : /\ Goto(w)
                 /\ w = [At(pc) EXCEPT !.page = page] \/ w = [At(pc) EXCEPT !.page = {}]
    BY Zenon
  <2> HIDE DEF page
  <2>3. DOMAIN w = Fields /\ w.pc = pc
    BY Zenon, <2>2, AtFields DEF Fields
  <2> QED
    BY Zenon, <2>2, <2>3, GotoKeeps
<1>3. CASE Empty
  BY Zenon, <1>3, AtFields, GotoKeeps DEF Empty
<1>4. CASE Exit
  BY <1>4, AtFields, GotoKeeps DEF Exit, PublisherInv, Answered
<1>5. CASE Idle
  <2>1. CASE ProcessControl("top", "top")
    BY Zenon, <2>1, ControlKeeps
  <2>2. CASE Goto(At("top"))
    BY <2>2, AtFields, GotoKeeps
  <2>3. CASE worker' = At("top") /\ UNCHANGED <<durable, controls, closing>>
    BY Zenon, <2>3, AtFields DEF PublisherInv, Kept, Answered, durable
  <2> QED
    BY Zenon, <1>5, <2>1, <2>2, <2>3 DEF Idle
<1>6. CASE TakeEntry
  <2> DEFINE w == [At("entry") EXCEPT
                      !.failure = IF Same(@, Oldest(worker.page)) THEN @ ELSE NoEvent]
  <2>1. Goto(w)
    BY Zenon, <1>6 DEF TakeEntry
  <2>2. DOMAIN w = Fields /\ w.pc = "entry"
    BY Zenon, AtFields DEF Fields
  <2> QED
    BY Zenon, <2>1, <2>2, GotoKeeps
<1>7. CASE Entry
  BY Zenon, <1>7, AtFields, GotoKeeps DEF Entry
<1>8. CASE PublishAdmitted
  BY Zenon, <1>8, AtFields DEF PublishAdmitted, PublisherInv, Kept, Answered
<1>9. CASE PublishFails \/ MarkFails
  <2> DEFINE w == [At("failed") EXCEPT !.failure = Oldest(worker.page)]
  <2>1. Goto(w)
    BY Zenon, <1>9 DEF PublishFails, MarkFails, Fail
  <2>2. DOMAIN w = Fields /\ w.pc = "failed"
    BY Zenon, AtFields DEF Fields
  <2> QED
    BY Zenon, <2>1, <2>2, GotoKeeps
<1>10. CASE MarkPublished
  <2>1. /\ worker.pc = "mark" /\ outbox' = outbox \ {Oldest(worker.page)}
        /\ UNCHANGED <<version, archive, admitted, controls, closing>>
    BY Zenon, <1>10 DEF MarkPublished
  <2>2. DOMAIN worker' = Fields /\ worker'.pc \in {"top", "page"}
    BY Zenon, <1>10, AtFields DEF MarkPublished, Fields
  <2>3. Kept'
    BY Zenon, <2>1, <2>2, DeleteKeeps DEF Kept
  <2> QED
    BY Zenon, <2>1, <2>2, <2>3 DEF PublisherInv, Answered
<1>11. CASE Failed
  BY Zenon, <1>11, AtFields, GotoKeeps DEF Failed
<1>12. CASE Backoff
  <2>1. CASE ProcessControl("top", "backoff")
    BY Zenon, <2>1, ControlKeeps
  <2>2. CASE Goto(At("top"))
    BY <2>2, AtFields, GotoKeeps
  <2>3. CASE worker' = At("top") /\ UNCHANGED <<durable, controls, closing>>
    BY Zenon, <2>3, AtFields DEF PublisherInv, Kept, Answered, durable
  <2> QED
    BY Zenon, <1>12, <2>1, <2>2, <2>3 DEF Backoff
<1> QED
  BY Zenon, <1>1, <1>2, <1>3, <1>4, <1>5, <1>6, <1>7, <1>8, <1>9, <1>10, <1>11, <1>12 DEF Worker


\* A write adds the row of its revision in the same transaction.
LEMMA CommitKeeps ==
    ASSUME PublisherInv, NEW t \in Tasks, NEW now \in Clock, NEW notified \in BOOLEAN,
           Commit(t, now, notified)
    PROVE  PublisherInv'
<1> DEFINE row == [task |-> t, version |-> version[t] + 1, created |-> CreatedAt(outbox, now)]
<1>1. /\ version' = [version EXCEPT ![t] = @ + 1]
      /\ outbox' = outbox \cup {row}
      /\ UNCHANGED <<archive, admitted, worker, controls, closing>>
  BY Zenon DEF Commit
<1>2. Event(row) = <<t, version[t] + 1>>
  BY Zenon DEF Event
<1> HIDE DEF row
<1>3. version' \in [Tasks -> Nat]
  BY <1>1 DEF PublisherInv
<1>4. Events(outbox') = Events(outbox) \cup {<<t, version[t] + 1>>}
  BY Zenon, <1>1, <1>2 DEF Events
<1>5. ASSUME NEW s \in Tasks, NEW v \in 1 .. version'[s]
      PROVE  v \in 1 .. version[s] \/ <<s, v>> = <<t, version[t] + 1>>
  BY <1>1 DEF PublisherInv
<1>6. Kept'
  BY Zenon, <1>1, <1>4, <1>5 DEF Kept, PublisherInv
<1> QED
  BY Zenon, <1>1, <1>3, <1>6 DEF PublisherInv, Answered

\* The service's calls, close with its deadline, and a crash.
LEMMA ServiceKeeps ==
    ASSUME PublisherInv, Service
    PROVE  PublisherInv'
<1>1. ASSUME NEW row \in outbox, QuarantineFailed(row)
      PROVE  PublisherInv'
  <2>1. ~closing /\ UNCHANGED <<durable, worker, closing>>
    BY Zenon, <1>1 DEF QuarantineFailed
  <2> QED
    BY Zenon, <2>1 DEF PublisherInv, Kept, Answered, durable
<1>2. CASE Close
  BY Zenon, <1>2 DEF Close, PublisherInv, Kept, Answered, durable
<1>3. CASE CloseAgain \/ CloseDropped \/ CloseJoins
  BY Zenon, <1>3 DEF CloseAgain, CloseDropped, CloseJoins, PublisherInv, Kept, Answered, durable
<1>4. CASE CloseExpires
  <2>1. DOMAIN worker' = Fields /\ worker'.pc = "aborted"
    BY Zenon, <1>4 DEF CloseExpires, PublisherInv, Fields
  <2>2. UNCHANGED <<version, archive, admitted>>
    BY Zenon, <1>4 DEF CloseExpires
  <2>3. outbox' = outbox \/ (worker.pc = "mark" /\ outbox' = outbox \ {Oldest(worker.page)})
    BY <1>4, Zenon DEF CloseExpires
  <2>4. Kept'
    BY Zenon, <2>1, <2>2, <2>3, DeleteKeeps DEF Kept, PublisherInv
  <2> QED
    BY Zenon, <2>1, <2>2, <2>4 DEF PublisherInv, Answered
<1>5. CASE Restart
  BY Zenon, <1>5 DEF Restart, NewWorker, PublisherInv, Kept, Answered, Fields, durable
<1> QED
  BY Zenon, <1>1, <1>2, <1>3, <1>4, <1>5, CommitKeeps DEF Service

\* The inductive invariant holds in every state of the publisher.
THEOREM PublisherInvariant == Spec => []PublisherInv
<1>1. Init => PublisherInv
  BY DEF Init, NewWorker, PublisherInv, Kept, Answered, Fields
<1>2. PublisherInv /\ [Next]_vars => PublisherInv'
  <2>1. CASE UNCHANGED vars
    BY Zenon, <2>1 DEF vars, PublisherInv, Kept, Answered
  <2> QED
    BY Zenon, <2>1, WorkerKeeps, ServiceKeeps DEF Next
<1> QED
  BY <1>1, <1>2, PTL DEF Spec

\* Every committed revision is in the outbox, accepted by the bus or archived,
\* through failures, the abort of the worker by close, and crashes.
THEOREM NoEventIsLost == Spec => []NothingLost
<1>1. PublisherInv => NothingLost
  <2> SUFFICES ASSUME PublisherInv, NEW t \in Tasks, NEW v \in 1 .. VersionBound,
                      v <= version[t]
               PROVE  <<t, v>> \in Events(outbox) \cup admitted \cup archive
    BY Zenon DEF NothingLost
  <2>1. v \in 1 .. version[t]
    BY PublisherAssumption DEF PublisherInv
  <2> QED
    BY Zenon, <2>1 DEF PublisherInv, Kept
<1> QED
  BY <1>1, PublisherInvariant, PTL

\* A worker that returned has answered every command quarantine_failed let in.
THEOREM EveryCommandIsAnswered == Spec => []CommandsAnswered
<1>1. PublisherInv => CommandsAnswered
  BY Zenon DEF PublisherInv, Answered, CommandsAnswered
<1> QED
  BY <1>1, PublisherInvariant, PTL


-----------------------------------------------------------------------------
(***************************************************************************)
(* The order.  A row is stamped no earlier than any row that is still      *)
(* there, so within a task the rows sort by revision; a page takes a row   *)
(* only with every earlier row of its task.  So what precedes the head of  *)
(* a page was accepted or archived, however stale the page has become.     *)
(***************************************************************************)
Row == [task : Tasks, version : Nat, created : Nat]

\* The rows the publisher can still see: stored, listed or failed.
Known == outbox \cup worker.page \cup ({worker.failure} \ {NoEvent})

Unambiguous(rows) ==
    /\ rows \subseteq Row
    /\ \A a, b \in rows : Same(a, b) => a = b
    /\ \A a \in rows : a.version \in 1 .. version[a.task]

Stamped(rows) ==
    \A a, b \in rows : a.task = b.task /\ a.version < b.version => a.created <= b.created

Settled(e, page) ==
    \A v \in 1 .. (e[2] - 1) : <<e[1], v>> \in Events(page) \cup admitted \cup archive

OrderInv ==
    /\ Unambiguous(Known)
    /\ IsFiniteSet(outbox) /\ IsFiniteSet(worker.page)
    /\ \E n \in Nat : \A r \in outbox : r.created <= n
    /\ Stamped(outbox) /\ Stamped(worker.page)
    /\ worker.pc \in {"page", "entry", "publish", "mark"} => worker.page # {}
    /\ \A row \in worker.page : Settled(Event(row), worker.page)
    /\ admitted \subseteq Tasks \X Nat
    /\ \A e \in admitted : Settled(e, {})

\* A set of numbers has a least member.
LEMMA Least ==
    ASSUME NEW T, T \subseteq Nat, T # {}
    PROVE  \E n \in T : \A m \in T : n <= m
<1> DEFINE less == {p \in Nat \X Nat : p[1] < p[2]}
<1>0. IsWellFoundedOn(less, Nat)
  BY Zenon, NatLessThanWellFounded DEF OpToRel
<1>1. PICK n \in T : \A m \in T : <<m, n>> \notin less
  <2> HIDE DEF less
  <2> QED
    BY Zenon, <1>0, WFMin
<1>2. ASSUME NEW m \in T
      PROVE  n <= m
  <2>1. n \in Nat /\ m \in Nat
    BY Zenon
  <2>2. m < n => <<m, n>> \in less
    BY Zenon, <2>1
  <2>3. ~ (m < n)
    BY Zenon, <1>1, <2>2
  <2> QED
    BY <2>1, <2>3
<1> QED
  BY Zenon, <1>2

\* A set of numbers with a bound has a greatest member.
LEMMA Greatest ==
    ASSUME NEW T, T \subseteq Nat, T # {}, NEW b \in Nat, \A m \in T : m <= b
    PROVE  \E n \in T : \A m \in T : m <= n
<1> DEFINE bounds == {n \in Nat : \A m \in T : m <= n}
<1>1. PICK n \in bounds : \A m \in bounds : n <= m
  <2>1. bounds \subseteq Nat /\ bounds # {}
    BY Zenon
  <2> HIDE DEF bounds
  <2> QED
    BY Zenon, <2>1, Least
<1>2. n \in T
  <2> SUFFICES ASSUME n \notin T
               PROVE  FALSE
    BY Zenon
  <2>1. \A m \in T : m < n
    OBVIOUS
  <2>2. n \in Nat /\ n # 0
    <3>1. PICK m \in T : m < n
      BY Zenon, <2>1
    <3>2. n \in Nat /\ m \in Nat
      BY Zenon
    <3> QED
      BY <3>1, <3>2
  <2>3. \A m \in T : m <= n - 1
    BY <2>1, <2>2
  <2>4. n - 1 \in Nat /\ n - 1 < n
    BY <2>2
  <2> QED
    BY <1>1, <2>3, <2>4
<1> QED
  BY Zenon, <1>2

\* The clock of a row is that of its write or of a row that is still there.
LEMMA CreatedAtLast ==
    ASSUME NEW rows, rows \subseteq Row, NEW n \in Nat, \A r \in rows : r.created <= n,
           NEW now \in Nat
    PROVE  /\ CreatedAt(rows, now) \in Nat
           /\ \A r \in rows : r.created <= CreatedAt(rows, now)
           /\ CreatedAt(rows, now) <= n \/ CreatedAt(rows, now) = now
<1> DEFINE times == {now} \cup {r.created : r \in rows}
<1>1. times \subseteq Nat /\ times # {}
  BY Zenon DEF Row
<1>2. PICK b \in Nat : \A m \in times : m <= b
  <2>1. \E b \in Nat : n <= b /\ now <= b
    <3>1. CASE n <= now
      BY <3>1
    <3>2. CASE now <= n
      BY <3>2
    <3> QED
      BY <3>1, <3>2
  <2> QED
    BY <2>1 DEF Row
<1>3. \A r \in rows : r.created \in times
  BY Zenon
<1>4. \A m \in times : m <= n \/ m = now
  BY Zenon
<1>5. CreatedAt(rows, now) = CHOOSE at \in times : \A other \in times : other <= at
  BY Zenon DEF CreatedAt
<1> HIDE DEF times
<1>6. \E at \in times : \A other \in times : other <= at
  BY Zenon, <1>1, <1>2, Greatest
<1>7. /\ CreatedAt(rows, now) \in times
      /\ \A other \in times : other <= CreatedAt(rows, now)
  BY Zenon, <1>5, <1>6
<1> QED
  BY Zenon, <1>1, <1>3, <1>4, <1>7

\* A set of rows has a first row in the order of the query.
LEMMA OldestIsFirst ==
    ASSUME NEW rows, rows \subseteq Row, rows # {}
    PROVE  /\ Oldest(rows) \in rows
           /\ \A other \in rows \ {Oldest(rows)} : RowBefore(Oldest(rows), other)
<1>1. PICK a \in rows : \A r \in rows : a.created <= r.created
  <2> DEFINE T == {r.created : r \in rows}
  <2>1. T \subseteq Nat /\ T # {}
    BY Zenon DEF Row
  <2>2. \E n \in T : \A m \in T : n <= m
    <3> HIDE DEF T
    <3> QED
      BY Zenon, <2>1, Least
  <2> QED
    BY Zenon, <2>2
<1>2. PICK b \in rows : /\ b.created = a.created
                        /\ \A r \in rows : r.created = a.created => b.task <= r.task
  <2> DEFINE T == {r.task : r \in {q \in rows : q.created = a.created}}
  <2>1. T \subseteq Nat /\ T # {}
    BY Zenon, PublisherAssumption DEF Row
  <2>2. \E n \in T : \A m \in T : n <= m
    <3> HIDE DEF T
    <3> QED
      BY Zenon, <2>1, Least
  <2> QED
    BY Zenon, <2>2
<1>3. PICK c \in rows : /\ c.created = a.created /\ c.task = b.task
                        /\ \A r \in rows : r.created = a.created /\ r.task = b.task
                                               => c.version <= r.version
  <2> DEFINE T == {r.version : r \in {q \in rows : q.created = a.created /\ q.task = b.task}}
  <2>1. T \subseteq Nat /\ T # {}
    BY Zenon, <1>2 DEF Row
  <2>2. \E n \in T : \A m \in T : n <= m
    <3> HIDE DEF T
    <3> QED
      BY Zenon, <2>1, Least
  <2> QED
    BY <2>2
<1>4. ASSUME NEW r \in rows \ {c}
      PROVE  RowBefore(c, r)
  <2>1. r \in Row /\ c \in Row /\ r # c
    BY Zenon
  <2>2. /\ r.created \in Nat /\ r.task \in Nat /\ r.version \in Nat
        /\ c.created \in Nat /\ c.task \in Nat /\ c.version \in Nat
    BY Zenon, <2>1, PublisherAssumption DEF Row
  <2>3. r.created # c.created \/ r.task # c.task \/ r.version # c.version
    BY <2>1 DEF Row
  <2> QED
    BY <1>1, <1>2, <1>3, <2>2, <2>3 DEF RowBefore
<1>5. \E r \in rows : \A other \in rows \ {r} : RowBefore(r, other)
  BY Zenon, <1>4
<1> QED
  BY Zenon, <1>5 DEF Oldest


Loaded == {"page", "entry", "publish", "mark"}

\* Steps after which no row is known that was not known before: most steps of
\* the worker, the commands, close and a crash.
LEMMA FewerRowsKnown ==
    ASSUME PublisherInv, OrderInv, version' = version,
           outbox' \subseteq outbox, admitted' = admitted, archive \subseteq archive',
           worker'.page \in {worker.page, {}},
           worker'.failure \in {worker.failure, NoEvent} \cup worker.page,
           worker'.pc \in Loaded => worker'.page # {}
    PROVE  OrderInv'
<1>1. Known' \subseteq Known
  BY Zenon DEF Known
<1>2. Unambiguous(Known)'
  BY Zenon, <1>1 DEF OrderInv, Unambiguous
<1>3. IsFiniteSet(outbox') /\ IsFiniteSet(worker'.page)
  BY Zenon, FS_Subset, FS_EmptySet DEF OrderInv
<1>4. \E n \in Nat : \A r \in outbox' : r.created <= n
  BY Zenon DEF OrderInv
<1>5. Stamped(outbox') /\ Stamped(worker'.page)
  BY Zenon DEF OrderInv, Stamped
<1>6. \A row \in worker'.page : Settled(Event(row), worker.page)'
  BY Zenon DEF OrderInv, Settled
<1>7. \A e \in admitted' : Settled(e, {})'
  BY Zenon DEF OrderInv, Settled
<1> QED
  BY Zenon, <1>2, <1>3, <1>4, <1>5, <1>6, <1>7 DEF OrderInv, Loaded

\* Rows of a page.
LEMMA PageRows ==
    ASSUME PublisherInv, OrderInv, worker.pc \in Loaded
    PROVE  /\ worker.page \subseteq Row
           /\ Oldest(worker.page) \in worker.page
           /\ \A other \in worker.page \ {Oldest(worker.page)} :
                  RowBefore(Oldest(worker.page), other)
BY Zenon, OldestIsFirst DEF OrderInv, Unambiguous, Known, Loaded

\* A worker that goes on without the store.
LEMMA GotoOrdered ==
    ASSUME PublisherInv, OrderInv, NEW w, Goto(w),
           w.page \in {worker.page, {}},
           w.failure \in {worker.failure, NoEvent} \cup worker.page,
           w.pc \in Loaded => w.page # {}
    PROVE  OrderInv'
BY Zenon, FewerRowsKnown DEF Goto, durable

\* The worker's record at another place.
LEMMA AtOrdered ==
    ASSUME PublisherInv, NEW pc
    PROVE  /\ At(pc).pc = pc /\ At(pc).page = worker.page /\ At(pc).failure = worker.failure
BY Zenon DEF PublisherInv, At, Fields

\* process_control takes rows away and forgets the failure.
LEMMA ControlOrdered ==
    ASSUME PublisherInv, OrderInv, NEW next, NEW unlucky, ProcessControl(next, unlucky),
           {next, unlucky} \cap Loaded # {} => worker.pc \in Loaded
    PROVE  OrderInv'
<1> DEFINE gone == Quarantines(Head(controls))
<1>1. /\ outbox' = outbox \ gone
      /\ archive' = archive \cup Events(gone)
      /\ worker' = IF gone = {} THEN [worker EXCEPT !.pc = unlucky]
                   ELSE [worker EXCEPT !.pc = next, !.quarantined = TRUE, !.failure = NoEvent]
      /\ UNCHANGED <<version, admitted>>
  BY Zenon DEF ProcessControl
<1> HIDE DEF gone
<1>2. /\ worker'.pc \in {next, unlucky}
      /\ worker'.page = worker.page
      /\ worker'.failure \in {worker.failure, NoEvent}
  BY Zenon, <1>1 DEF PublisherInv, Fields
<1>3. worker'.pc \in Loaded => worker'.page # {}
  BY Zenon, <1>2 DEF OrderInv, Loaded
<1> QED
  BY Zenon, <1>1, <1>2, <1>3, FewerRowsKnown

\* Rows of one task sort by revision.
LEMMA EarlierRevisionFirst ==
    ASSUME NEW rows, rows \subseteq Row, Stamped(rows), NEW a \in rows, NEW b \in rows,
           a.task = b.task, a.version < b.version
    PROVE  RowBefore(a, b) /\ ~RowBefore(b, a)
<1>1. /\ a.created \in Nat /\ b.created \in Nat /\ a.created <= b.created
      /\ a.version \in Nat /\ b.version \in Nat /\ a.task \in Nat
  BY Zenon, PublisherAssumption DEF Row, Stamped
<1> QED
  BY <1>1 DEF RowBefore

\* A page holds a row only with the earlier rows of its task.
LEMMA PageIsClosed ==
    ASSUME PublisherInv, OrderInv, NEW a \in outbox, NEW b \in ListOutbox(PageLimit),
           a.task = b.task, a.version < b.version
    PROVE  a \in ListOutbox(PageLimit)
<1> DEFINE before(r) == {other \in outbox : RowBefore(other, r)}
<1>1. outbox \subseteq Row /\ b \in outbox /\ IsFiniteSet(outbox)
  BY Zenon DEF OrderInv, Unambiguous, Known, ListOutbox
<1>2. RowBefore(a, b)
  BY Zenon, <1>1, EarlierRevisionFirst DEF OrderInv
<1>3. ASSUME NEW r \in outbox, RowBefore(r, a)
      PROVE  RowBefore(r, b)
  <2>1. /\ r.created \in Nat /\ r.task \in Nat /\ r.version \in Nat
        /\ a.created \in Nat /\ a.task \in Nat /\ a.version \in Nat
        /\ b.created \in Nat /\ b.task \in Nat /\ b.version \in Nat
    BY Zenon, <1>1, PublisherAssumption DEF Row
  <2> QED
    BY <1>2, <1>3, <2>1 DEF RowBefore
<1>4. before(a) \subseteq before(b)
  BY Zenon, <1>3
<1>5. before(b) \subseteq outbox
  BY Zenon
<1>6. Cardinality(before(b)) < PageLimit
  BY Zenon DEF ListOutbox
<1>7. a \in outbox /\ Cardinality(before(a)) < PageLimit => a \in ListOutbox(PageLimit)
  BY Zenon DEF ListOutbox
<1> HIDE DEF before
<1>8. IsFiniteSet(before(b))
  BY Zenon, <1>1, <1>5, FS_Subset
<1>9. /\ Cardinality(before(a)) <= Cardinality(before(b))
      /\ Cardinality(before(a)) \in Nat /\ Cardinality(before(b)) \in Nat
  BY Zenon, <1>4, <1>8, FS_Subset, FS_CardinalityType
<1> QED
  BY <1>6, <1>7, <1>9, PublisherAssumption


\* list_event_outbox: what precedes a row of the page in its task is in the
\* page too, or has left the outbox for the bus or the archive.
LEMMA ListOrdered ==
    ASSUME PublisherInv, OrderInv, NEW w, Goto(w), w.page = ListOutbox(PageLimit),
           w.failure = worker.failure, w.pc \in Loaded => w.page # {}
    PROVE  OrderInv'
<1>1. /\ worker'.page = ListOutbox(PageLimit) /\ worker'.failure = worker.failure
      /\ UNCHANGED <<version, outbox, archive, admitted>>
  BY Zenon DEF Goto, durable
<1>2. ListOutbox(PageLimit) \subseteq outbox
  BY Zenon DEF ListOutbox
<1>3. Known' \subseteq Known
  BY Zenon, <1>1, <1>2 DEF Known
<1>4. Unambiguous(Known)'
  BY Zenon, <1>1, <1>3 DEF OrderInv, Unambiguous
<1>5. IsFiniteSet(worker'.page)
  BY <1>1, <1>2, FS_Subset DEF OrderInv
<1>6. Stamped(worker'.page)
  BY Zenon, <1>1, <1>2 DEF OrderInv, Stamped
<1>7. ASSUME NEW row \in ListOutbox(PageLimit), NEW v \in 1 .. (row.version - 1)
      PROVE  <<row.task, v>> \in Events(ListOutbox(PageLimit)) \cup admitted \cup archive
  <2>1. /\ row \in outbox /\ row.task \in Tasks
        /\ row.version \in Nat /\ row.version <= version[row.task]
    BY <1>2 DEF OrderInv, Unambiguous, Known, Row
  <2>2. v \in 1 .. version[row.task] /\ v < row.version
    BY <2>1 DEF PublisherInv
  <2>3. CASE <<row.task, v>> \in Events(outbox)
    <3>1. PICK a \in outbox : Event(a) = <<row.task, v>>
      BY Zenon, <2>3 DEF Events
    <3>2. a.task = row.task /\ a.version = v
      BY Zenon, <3>1 DEF Event
    <3>3. a \in ListOutbox(PageLimit)
      BY Zenon, <2>2, <3>2, PageIsClosed
    <3> QED
      BY Zenon, <3>1, <3>3 DEF Events
  <2> QED
    BY Zenon, <2>1, <2>2, <2>3 DEF PublisherInv, Kept
<1>8. \A row \in worker'.page : Settled(Event(row), worker.page)'
  BY Zenon, <1>1, <1>7 DEF Settled, Event
<1>9. \A e \in admitted' : Settled(e, {})'
  BY Zenon, <1>1 DEF OrderInv, Settled
<1> QED
  BY Zenon, <1>1, <1>4, <1>5, <1>6, <1>8, <1>9 DEF OrderInv, Loaded, Goto

\* The bus gets the head of the page, before which nothing of its task is left.
LEMMA PublishOrdered ==
    ASSUME PublisherInv, OrderInv, PublishAdmitted
    PROVE  OrderInv'
<1>0. PICK head : head = Oldest(worker.page)
  BY Zenon
<1>1. /\ worker.pc = "publish" /\ worker' = At("mark")
      /\ admitted' = admitted \cup {Event(head)}
      /\ UNCHANGED <<version, outbox, archive>>
  BY Zenon, <1>0 DEF PublishAdmitted
<1>2. /\ worker.page \subseteq Row /\ head \in worker.page
      /\ \A other \in worker.page \ {head} : RowBefore(head, other)
  BY Zenon, <1>0, <1>1, PageRows DEF Loaded
<1>3. worker'.pc = "mark" /\ worker'.page = worker.page /\ worker'.failure = worker.failure
  BY Zenon, <1>1, AtOrdered
<1>4. Event(head) = <<head.task, head.version>> /\ head.task \in Tasks /\ head.version \in Nat
  BY Zenon, <1>2 DEF Event, Row
<1>5. ASSUME NEW v \in 1 .. (head.version - 1)
      PROVE  <<head.task, v>> \in admitted \cup archive
  <2>1. <<head.task, v>> \in Events(worker.page) \cup admitted \cup archive
    BY <1>2, <1>4 DEF OrderInv, Settled
  <2>2. <<head.task, v>> \notin Events(worker.page)
    <3> SUFFICES ASSUME NEW a \in worker.page, Event(a) = <<head.task, v>>
                 PROVE  FALSE
      BY Zenon DEF Events
    <3>1. a.task = head.task /\ a.version = v /\ v < head.version
      BY <1>4 DEF Event
    <3>2. ~RowBefore(head, a)
      BY Zenon, <1>2, <3>1, EarlierRevisionFirst DEF OrderInv
    <3>3. a # head
      BY <1>4, <3>1
    <3> QED
      BY Zenon, <1>2, <3>2, <3>3
  <2> QED
    BY Zenon, <2>1, <2>2
<1>6. \A e \in admitted' : Settled(e, {})'
  <2>1. \A e \in admitted : Settled(e, {})'
    BY Zenon, <1>1 DEF OrderInv, Settled
  <2>2. Settled(Event(head), {})'
    BY <1>1, <1>4, <1>5 DEF Settled
  <2> QED
    BY Zenon, <1>1, <2>1, <2>2
<1>7. \A row \in worker'.page : Settled(Event(row), worker.page)'
  BY Zenon, <1>1, <1>3 DEF OrderInv, Settled
<1>8. Unambiguous(Known)'
  BY Zenon, <1>1, <1>3 DEF OrderInv, Unambiguous, Known
<1>9. admitted' \subseteq Tasks \X Nat
  BY <1>1, <1>4 DEF OrderInv
<1> QED
  BY Zenon, <1>1, <1>3, <1>6, <1>7, <1>8, <1>9 DEF OrderInv, Stamped

\* mark_event_published: the head that leaves the page was accepted.
LEMMA MarkOrdered ==
    ASSUME PublisherInv, OrderInv, MarkPublished
    PROVE  OrderInv'
<1> DEFINE head == Oldest(worker.page)
<1>1. /\ worker.pc = "mark" /\ outbox' = outbox \ {head}
      /\ UNCHANGED <<version, archive, admitted>>
  BY Zenon DEF MarkPublished
<1>2. /\ worker'.pc = IF Cardinality(worker.page) = 1 THEN "top" ELSE "page"
      /\ worker'.page = worker.page \ {head}
      /\ worker'.failure \in {worker.failure, NoEvent}
  BY Zenon, AtOrdered DEF MarkPublished, PublisherInv, At, Fields
<1>3. head \in worker.page
  BY Zenon, <1>1, PageRows DEF Loaded
<1>4. Event(head) \in admitted
  BY Zenon, <1>1 DEF PublisherInv, Kept
<1> HIDE DEF head
<1>5. worker'.pc \in Loaded => worker'.page # {}
  <2>1. worker.page = {head} => Cardinality(worker.page) = 1
    BY Zenon, FS_Singleton
  <2> QED
    BY Zenon, <1>2, <1>3, <2>1 DEF Loaded
<1>6. Known' \subseteq Known
  BY Zenon, <1>1, <1>2 DEF Known
<1>7. Unambiguous(Known)'
  BY Zenon, <1>1, <1>6 DEF OrderInv, Unambiguous
<1>8. IsFiniteSet(outbox') /\ IsFiniteSet(worker'.page)
  BY Zenon, <1>1, <1>2, FS_Subset DEF OrderInv
<1>9. Stamped(outbox') /\ Stamped(worker'.page)
  BY Zenon, <1>1, <1>2 DEF OrderInv, Stamped
<1>10. Events(worker.page) \subseteq Events(worker'.page) \cup admitted
  BY Zenon, <1>2, <1>4 DEF Events
<1>11. \A row \in worker'.page : Settled(Event(row), worker.page)'
  BY Zenon, <1>1, <1>2, <1>10 DEF OrderInv, Settled
<1>12. \A e \in admitted' : Settled(e, {})'
  BY Zenon, <1>1 DEF OrderInv, Settled
<1> QED
  BY Zenon, <1>1, <1>5, <1>7, <1>8, <1>9, <1>11, <1>12 DEF OrderInv, Loaded


\* insert_event_outbox: a later revision than any known, stamped after the rows
\* that are still there.
LEMMA CommitOrdered ==
    ASSUME PublisherInv, OrderInv, NEW t \in Tasks, NEW now \in Clock, NEW notified \in BOOLEAN,
           Commit(t, now, notified)
    PROVE  OrderInv'
<1>1. PICK n \in Nat : \A r \in outbox : r.created <= n
  BY Zenon DEF OrderInv
<1>2. PICK at : at = CreatedAt(outbox, now)
  BY Zenon
<1>3. /\ outbox \subseteq Row /\ now \in Nat
  BY Zenon, PublisherAssumption DEF OrderInv, Unambiguous, Known
<1>4. /\ at \in Nat /\ \A r \in outbox : r.created <= at
      /\ at <= n \/ at = now
  BY Zenon, <1>1, <1>2, <1>3, CreatedAtLast
<1>5. PICK new : new = [task |-> t, version |-> version[t] + 1, created |-> at]
  BY Zenon
<1>6. /\ version' = [version EXCEPT ![t] = @ + 1]
      /\ outbox' = outbox \cup {new}
      /\ UNCHANGED <<archive, admitted, worker>>
  BY Zenon, <1>2, <1>5 DEF Commit
<1>7. /\ version[t] \in Nat /\ version' \in [Tasks -> Nat] /\ version'[t] = version[t] + 1
      /\ \A s \in Tasks : version[s] \in Nat /\ version[s] <= version'[s]
  BY <1>6 DEF PublisherInv
<1>8. new \in Row /\ new.task = t /\ new.version = version[t] + 1 /\ new.created = at
  BY Zenon, <1>4, <1>5, <1>7 DEF Row
<1>9. Known' = Known \cup {new}
  BY Zenon, <1>6 DEF Known
<1>10. \A a \in Known : a \in Row /\ a.version \in 1 .. version[a.task]
  BY Zenon DEF OrderInv, Unambiguous
<1>11. \A a \in Known : ~Same(a, new) /\ ~Same(new, a)
  <2> SUFFICES ASSUME NEW a \in Known, a.task = t, a.version = version[t] + 1
               PROVE  FALSE
    BY Zenon, <1>8 DEF Same
  <2> QED
    BY <1>7, <1>10
<1>12. \A a \in Known : a.version \in 1 .. version'[a.task]
  BY <1>7, <1>10 DEF Row
<1>13. Unambiguous(Known)'
  <2>1. Known' \subseteq Row
    BY Zenon, <1>8, <1>9, <1>10
  <2>2. \A a, b \in Known' : Same(a, b) => a = b
    BY Zenon, <1>9, <1>11 DEF OrderInv, Unambiguous
  <2>3. \A a \in Known' : a.version \in 1 .. version'[a.task]
    BY <1>7, <1>8, <1>9, <1>12
  <2> QED
    BY Zenon, <2>1, <2>2, <2>3 DEF Unambiguous
<1>14. IsFiniteSet(outbox')
  BY Zenon, <1>6, FS_AddElement DEF OrderInv
<1>15. \E m \in Nat : \A r \in outbox' : r.created <= m
  BY <1>3, <1>4, <1>6, <1>8 DEF Row
<1>16. Stamped(outbox')
  <2> SUFFICES ASSUME NEW a \in outbox', NEW b \in outbox', a.task = b.task, a.version < b.version
               PROVE  a.created <= b.created
    BY Zenon DEF Stamped
  <2>1. CASE a \in outbox /\ b \in outbox
    BY Zenon, <2>1 DEF OrderInv, Stamped
  <2>2. CASE b = new
    BY <1>4, <1>6, <1>8, <2>2
  <2>3. CASE a = new /\ b \in outbox
    <3>1. b \in Known
      BY Zenon, <2>3 DEF Known
    <3> QED
      BY <1>7, <1>8, <1>10, <2>3, <3>1
  <2> QED
    BY Zenon, <1>6, <2>1, <2>2, <2>3
<1>17. \A row \in worker'.page : Settled(Event(row), worker.page)'
  BY Zenon, <1>6 DEF OrderInv, Settled
<1>18. \A e \in admitted' : Settled(e, {})'
  BY Zenon, <1>6 DEF OrderInv, Settled
<1> QED
  BY Zenon, <1>6, <1>13, <1>14, <1>15, <1>16, <1>17, <1>18 DEF OrderInv, Stamped

\* The steps of the worker.
LEMMA WorkerOrdered ==
    ASSUME PublisherInv, OrderInv, Worker
    PROVE  OrderInv'
<1>1. CASE ProcessQueuedControls
  BY Zenon, <1>1, ControlOrdered DEF ProcessQueuedControls, Loaded
<1>2. CASE List
  <2>1. PICK page : page = ListOutbox(PageLimit)
    BY Zenon
  <2>2. CASE Goto([At("backoff") EXCEPT !.page = {}])
    <3>1. PICK w : w = [At("backoff") EXCEPT !.page = {}]
      BY Zenon
    <3>2. w.pc = "backoff" /\ w.page = {} /\ w.failure = worker.failure
      BY Zenon, <3>1, AtFields, AtOrdered DEF Fields
    <3> QED
      BY Zenon, <2>2, <3>1, <3>2, GotoOrdered DEF Loaded
  <2>3. CASE Goto([At(IF page = {} THEN "empty" ELSE "page") EXCEPT !.page = page])
    <3>1. PICK pc : pc = IF page = {} THEN "empty" ELSE "page"
      BY Zenon
    <3>2. PICK w : w = [At(pc) EXCEPT !.page = page]
      BY Zenon
    <3>3. w.pc = pc /\ w.page = page /\ w.failure = worker.failure
      BY Zenon, <3>2, AtFields, AtOrdered DEF Fields
    <3>4. Goto(w)
      BY Zenon, <2>3, <3>1, <3>2
    <3> QED
      BY Zenon, <2>1, <3>1, <3>3, <3>4, ListOrdered DEF Loaded
  <2> QED
    BY Zenon, <1>2, <2>1, <2>2, <2>3 DEF List
<1>3. CASE Empty \/ Exit \/ Failed
  <2>1. PICK pc \in {"exit", "idle", "top", "done", "backoff"} : Goto(At(pc))
    BY Zenon, <1>3 DEF Empty, Exit, Failed
  <2> QED
    BY Zenon, <2>1, AtOrdered, GotoOrdered DEF Loaded
<1>4. CASE Idle \/ Backoff
  <2>1. CASE ProcessControl("top", "top") \/ ProcessControl("top", "backoff")
    BY Zenon, <2>1, ControlOrdered DEF Loaded
  <2>2. CASE Goto(At("top"))
    BY Zenon, <2>2, AtOrdered, GotoOrdered DEF Loaded
  <2>3. CASE worker' = At("top") /\ UNCHANGED durable
    BY Zenon, <2>3, AtOrdered, FewerRowsKnown DEF durable, Loaded
  <2> QED
    BY Zenon, <1>4, <2>1, <2>2, <2>3 DEF Idle, Backoff
<1>5. CASE TakeEntry
  <2>1. PICK w : w = [At("entry") EXCEPT
                         !.failure = IF Same(@, Oldest(worker.page)) THEN @ ELSE NoEvent]
    BY Zenon
  <2>2. /\ w.pc = "entry" /\ w.page = worker.page /\ w.failure \in {worker.failure, NoEvent}
    BY Zenon, <2>1, AtFields, AtOrdered DEF Fields
  <2>3. Goto(w) /\ worker.pc = "page"
    BY Zenon, <1>5, <2>1 DEF TakeEntry
  <2> QED
    BY Zenon, <2>2, <2>3, GotoOrdered DEF OrderInv
<1>6. CASE Entry
  <2>1. PICK pc \in {"top", "publish"} : Goto(At(pc))
    BY Zenon, <1>6 DEF Entry
  <2> QED
    BY Zenon, <1>6, <2>1, AtOrdered, GotoOrdered DEF Entry, OrderInv
<1>7. CASE PublishAdmitted
  BY Zenon, <1>7, PublishOrdered
<1>8. CASE PublishFails \/ MarkFails
  <2>1. PICK w : w = [At("failed") EXCEPT !.failure = Oldest(worker.page)]
    BY Zenon
  <2>2. /\ w.pc = "failed" /\ w.page = worker.page /\ w.failure = Oldest(worker.page)
    BY Zenon, <2>1, AtFields, AtOrdered DEF Fields
  <2>3. Goto(w) /\ worker.pc \in Loaded
    BY Zenon, <1>8, <2>1 DEF PublishFails, MarkFails, Fail, Loaded
  <2> QED
    BY Zenon, <2>2, <2>3, PageRows, GotoOrdered DEF Loaded
<1>9. CASE MarkPublished
  BY Zenon, <1>9, MarkOrdered
<1> QED
  BY Zenon, <1>1, <1>2, <1>3, <1>4, <1>5, <1>6, <1>7, <1>8, <1>9 DEF Worker


\* The service's calls, close with its deadline, and a crash.
LEMMA ServiceOrdered ==
    ASSUME PublisherInv, OrderInv, Service
    PROVE  OrderInv'
<1>1. ASSUME UNCHANGED <<durable, worker>>
      PROVE  OrderInv'
  BY Zenon, <1>1, FewerRowsKnown DEF durable, OrderInv, Loaded
<1>2. CASE CloseExpires
  <2>1. worker'.pc = "aborted" /\ worker'.page = worker.page /\ worker'.failure = worker.failure
    BY Zenon, <1>2 DEF CloseExpires, PublisherInv, Fields
  <2>2. UNCHANGED <<version, archive, admitted>> /\ outbox' \subseteq outbox
    BY Zenon, <1>2 DEF CloseExpires
  <2> QED
    BY Zenon, <2>1, <2>2, FewerRowsKnown DEF Loaded
<1>3. CASE Restart
  BY Zenon, <1>3, FewerRowsKnown DEF Restart, NewWorker, durable, Loaded
<1>4. CASE Close \/ CloseAgain \/ CloseDropped \/ CloseJoins
  BY Zenon, <1>1, <1>4 DEF Close, CloseAgain, CloseDropped, CloseJoins
<1>5. ASSUME NEW row \in outbox, QuarantineFailed(row)
      PROVE  OrderInv'
  BY Zenon, <1>1, <1>5 DEF QuarantineFailed
<1> QED
  BY Zenon, <1>2, <1>3, <1>4, <1>5, CommitOrdered DEF Service

\* The order of the rows and of what was published holds in every state.
THEOREM OrderInvariant == Spec => []OrderInv
<1>1. Init => OrderInv
  <2> SUFFICES ASSUME Init
               PROVE  OrderInv
    BY Zenon
  <2>1. outbox = {} /\ admitted = {} /\ worker.page = {} /\ worker.failure = NoEvent /\ worker.pc = "top"
    BY Zenon DEF Init, NewWorker
  <2>2. Known = {}
    BY Zenon, <2>1 DEF Known
  <2> QED
    BY Zenon, <2>1, <2>2, FS_EmptySet DEF OrderInv, Unambiguous, Stamped
<1>2. PublisherInv /\ OrderInv /\ [Next]_vars => OrderInv'
  <2>1. CASE UNCHANGED vars
    BY Zenon, <2>1, FewerRowsKnown DEF vars, OrderInv, Loaded
  <2> QED
    BY Zenon, <2>1, WorkerOrdered, ServiceOrdered DEF Next
<1> QED
  BY <1>1, <1>2, PublisherInvariant, PTL DEF Spec

\* The bus gets the events of a task in the order of its revisions, whatever
\* the clock shows and however stale the page of the worker is.
THEOREM EventsArePublishedInOrder == Spec => []PublishedInOrder
<1>1. OrderInv => PublishedInOrder
  <2> SUFFICES ASSUME OrderInv, NEW e \in admitted, NEW v \in 1 .. VersionBound, v < e[2]
               PROVE  <<e[1], v>> \in admitted \cup archive
    BY Zenon DEF PublishedInOrder
  <2>1. v \in 1 .. (e[2] - 1)
    BY PublisherAssumption DEF OrderInv
  <2>2. <<e[1], v>> \in Events({}) \cup admitted \cup archive
    BY Zenon, <2>1 DEF OrderInv, Settled
  <2> QED
    BY Zenon, <2>2 DEF Events
<1> QED
  BY <1>1, OrderInvariant, PTL

\* A command archives the oldest row, and only while it is the failure the
\* worker holds.
LEMMA ControlArchivesTheHead ==
    ASSUME PublisherInv, OrderInv, NEW next, NEW unlucky, ProcessControl(next, unlucky),
           NEW row \in outbox, Event(row) \in archive' \ archive
    PROVE  row = worker.failure /\ \A other \in outbox \ {row} : RowBefore(row, other)
<1>1. PICK command : command = Head(controls)
  BY Zenon
<1>2. PICK taken \in Quarantines(command) : Event(taken) = Event(row)
  BY Zenon, <1>1 DEF ProcessControl, Events
<1>3. /\ taken \in outbox /\ taken = Oldest(outbox)
      /\ worker.failure # NoEvent /\ Same(taken, worker.failure)
  BY Zenon, <1>2 DEF Quarantines, Same
<1>4. Same(taken, row)
  BY Zenon, <1>2 DEF Event, Same
<1>5. taken = row /\ taken = worker.failure
  BY Zenon, <1>3, <1>4 DEF OrderInv, Unambiguous, Known
<1>6. outbox \subseteq Row
  BY Zenon DEF OrderInv, Unambiguous, Known
<1>7. outbox # {} /\ \A other \in outbox \ {Oldest(outbox)} : RowBefore(Oldest(outbox), other)
  BY Zenon, <1>3, <1>6, OldestIsFirst
<1>8. row = Oldest(outbox)
  BY Zenon, <1>3, <1>5
<1>9. \A other \in outbox \ {row} : RowBefore(row, other)
  BY Zenon, <1>7, <1>8
<1> QED
  BY Zenon, <1>5, <1>9

\* A late or stale command of an operator archives no other row than the one
\* that fails at the head of the outbox.
THEOREM OnlyFailedHeadsAreArchived == Spec => OnlyTheFailedHeadIsArchived
<1>1. ASSUME PublisherInv, OrderInv, Next, NEW row \in outbox
      PROVE  Event(row) \in archive' \ archive =>
                 /\ row = worker.failure
                 /\ \A other \in outbox \ {row} : RowBefore(row, other)
  <2>1. CASE archive' = archive
    BY Zenon, <2>1
  <2>2. CASE \E next, unlucky : ProcessControl(next, unlucky)
    <3>1. PICK next, unlucky : ProcessControl(next, unlucky)
      BY Zenon, <2>2
    <3> QED
      BY Zenon, <1>1, <3>1, ControlArchivesTheHead
  <2>3. archive' = archive \/ \E next, unlucky : ProcessControl(next, unlucky)
    <3>1. CASE Worker
      BY Zenon, <3>1 DEF Worker, ProcessQueuedControls, List, Empty, Exit, Idle, TakeEntry, Entry,
                  PublishAdmitted, PublishFails, MarkPublished, MarkFails, Failed, Backoff,
                  Fail, Goto, durable
    <3>2. CASE Service
      BY Zenon, <3>2 DEF Service, Commit, QuarantineFailed, Close, CloseAgain, CloseDropped, CloseJoins,
                  CloseExpires, Restart, durable
    <3> QED
      BY Zenon, <1>1, <3>1, <3>2 DEF Next
  <2> QED
    BY Zenon, <2>1, <2>2, <2>3
<1>2. PublisherInv /\ OrderInv /\ [Next]_vars
          => [\A row \in outbox : Event(row) \in archive' \ archive =>
                 /\ row = worker.failure
                 /\ \A other \in outbox \ {row} : RowBefore(row, other)]_vars
  BY Zenon, <1>1
<1> QED
  BY <1>2, PublisherInvariant, OrderInvariant, PTL DEF Spec, OnlyTheFailedHeadIsArchived
=============================================================================
