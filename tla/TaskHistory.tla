---------------------------- MODULE TaskHistory ----------------------------
(***************************************************************************)
(* The reads of a store that are more than a lookup: history pages         *)
(* (list_encoded), ready pages (list_ready_queued) and the next retry      *)
(* deadline, in both implementations.  The memory store selects from a map *)
(* with a bounded heap; the SQLite store builds a query over columns in    *)
(* which an id is text of a fixed width.                                   *)
(*                                                                         *)
(* A reader walks the history page by page, following the cursors, while   *)
(* tasks are accepted, change state and disappear.                         *)
(***************************************************************************)
EXTENDS TaskRecord, FiniteSets, Sequences

CONSTANTS
    Ids,          \* task ids
    IdWidth,      \* digits of an id in the SQLite table
    CategoryOf,   \* the category of each task, or NoCategory
    NoCategory,
    Queries,      \* history queries: the states and the category they select
    Limit,        \* the page limit of every query
    Clock         \* bound: the timestamps that occur, 0 for none

ASSUME HistoryAssumption ==
    /\ Ids \subseteq Nat \ {0} /\ IsFiniteSet(Ids)
    /\ Limit \in 0 .. 256
    /\ Clock \subseteq Nat
    /\ \A q \in Queries : q.states \subseteq TaskStates

VARIABLES
    row,     \* state, accepted_at_ms and retry_not_before_ms of each task
    reader   \* the history walk in progress

vars == <<row, reader>>

NoRow == [state |-> "Unborn", accepted |-> 0, retry |-> 0]

Rows == {id \in Ids : row[id].state \in TaskStates}

\* checked_page_size
PageSize == IF Limit = 0 THEN 1 ELSE Limit

\* The order of history: TaskCursor, accepted_at_ms and then id.
CursorOf(id) == <<row[id].accepted, id>>
Start == <<0, 0>>
Precedes(a, b) == a[1] < b[1] \/ (a[1] = b[1] /\ a[2] < b[2])

Selects(q, id, state) ==
    /\ q.states = {} \/ state \in q.states
    /\ q.category = NoCategory \/ CategoryOf[id] = q.category

Matches(id, q) == Selects(q, id, row[id].state)

-----------------------------------------------------------------------------
(***************************************************************************)
(* The memory store.                                                       *)
(***************************************************************************)

\* Mutant: the heap keeps the first keys it meets.
HeapOfferFirst(heap, key, limit) == IF Cardinality(heap) < limit THEN heap \cup {key} ELSE heap

\* One turn of the loop over the map: a heap of the smallest keys so far.
HeapOffer(heap, key, limit) ==
    IF Cardinality(heap) < limit THEN heap \cup {key}
    ELSE LET largest == CHOOSE k \in heap : \A other \in heap : ~Precedes(k, other)
         IN  IF Precedes(key, largest) THEN (heap \ {largest}) \cup {key} ELSE heap

\* The heap after all candidates were offered in id order.
HeapOf(candidates, limit) ==
    LET last == IF candidates = {} THEN 0
                ELSE CHOOSE n \in candidates : \A id \in candidates : id <= n
        heap[n \in 0 .. last] ==
            IF n = 0 THEN {}
            ELSE IF n \in candidates THEN HeapOffer(heap[n - 1], CursorOf(n), limit)
            ELSE heap[n - 1]
    IN  heap[last]

\* The first PageSize of the keys that were fetched, and whether there are more.
PageOf(fetched) ==
    LET rank(k) == Cardinality({other \in fetched : Precedes(other, k)})
    IN  [ids |-> {k[2] : k \in {c \in fetched : rank(c) < PageSize}},
         more |-> Cardinality(fetched) > PageSize]

MemoryListEncoded(q, after) ==
    PageOf(HeapOf({id \in Rows : Matches(id, q) /\ Precedes(after, CursorOf(id))},
                  PageSize + 1))

\* list_ready_queued sorts every ready task and truncates.
MemoryListReady(after, now) ==
    PageOf({CursorOf(id) : id \in {i \in Rows : /\ row[i].state = "Queued"
                                                /\ row[i].retry <= now
                                                /\ Precedes(after, CursorOf(i))}})

MemoryNextRetryDeadline(now) ==
    LET deadlines == {row[id].retry : id \in {i \in Rows : /\ row[i].state = "Queued"
                                                           /\ row[i].retry > now}}
    IN  IF deadlines = {} THEN 0 ELSE CHOOSE d \in deadlines : \A e \in deadlines : d <= e

-----------------------------------------------------------------------------
(***************************************************************************)
(* The SQLite store.  An id column holds the decimal digits of the id, and *)
(* SQLite compares text byte by byte.                                      *)
(***************************************************************************)

\* to_padded_decimal: the digits of the id from the last to the first, each
\* the remainder of what the digits behind it leave.
Quotients(id) ==
    LET quotient[k \in 0 .. IdWidth] == IF k = 0 THEN id ELSE quotient[k - 1] \div 10
    IN  quotient

PaddedDecimal(id) == [i \in 1 .. IdWidth |-> Quotients(id)[IdWidth - i] % 10]

\* An id is a u64, which has no more digits than the column.
ASSUME WidthAssumption ==
    /\ IdWidth \in Nat
    /\ \A id \in Ids : Quotients(id)[IdWidth] = 0

TextLess(a, b) ==
    \E n \in 0 .. Len(a) :
        /\ n < Len(b)
        /\ \A i \in 1 .. n : a[i] = b[i]
        /\ n = Len(a) \/ a[n + 1] < b[n + 1]

SqlLess(a, b) ==
    a[1] < b[1] \/ (a[1] = b[1] /\ TextLess(PaddedDecimal(a[2]), PaddedDecimal(b[2])))

\* The cursor predicate of a query, present only when there is a cursor.
AfterPredicate(after, id) == after = Start \/ SqlLess(after, CursorOf(id))

\* WHERE predicates ORDER BY accepted_at, id LIMIT page size + 1
SelectOrdered(selected) ==
    LET place(id) == Cardinality({other \in selected : SqlLess(CursorOf(other), CursorOf(id))})
    IN  {CursorOf(id) : id \in {i \in selected : place(i) < PageSize + 1}}

\* build_encoded_history_query and its execution.
SqliteListEncoded(q, after) ==
    PageOf(SelectOrdered({id \in Rows : Matches(id, q) /\ AfterPredicate(after, id)}))

\* Mutant: a task whose deadline is this very instant is not ready yet.
SqliteListReadyStrict(after, now) ==
    PageOf(SelectOrdered({id \in Rows : /\ row[id].state = "Queued"
                                        /\ row[id].retry = 0 \/ row[id].retry < now
                                        /\ AfterPredicate(after, id)}))

\* list_ready_queued of the typed store.
SqliteListReady(after, now) ==
    PageOf(SelectOrdered({id \in Rows : /\ row[id].state = "Queued"
                                        /\ row[id].retry = 0 \/ row[id].retry <= now
                                        /\ AfterPredicate(after, id)}))

\* SELECT MIN(retry_not_before_ms) over queued rows strictly after now.
SqliteNextRetryDeadline(now) ==
    LET deadlines == {row[id].retry : id \in {i \in Rows : /\ row[i].state = "Queued"
                                                           /\ row[i].retry # 0
                                                           /\ row[i].retry > now}}
    IN  IF deadlines = {} THEN 0 ELSE CHOOSE d \in deadlines : \A e \in deadlines : d <= e

-----------------------------------------------------------------------------
(***************************************************************************)
(* The walk.  reader.owed are the tasks that matched the query in every    *)
(* state since the walk began; reader.seen those of them that were         *)
(* returned.  missed and repeated say what went wrong with a page.         *)
(***************************************************************************)
NoQuery == [states |-> {}, category |-> NoCategory]

NoWalk == [pc |-> "idle", query |-> NoQuery, after |-> Start, owed |-> {}, seen |-> {},
           missed |-> {}, repeated |-> {}]

Init ==
    /\ row = [id \in Ids |-> NoRow]
    /\ reader = NoWalk

\* The records change; a task that no longer matches is no longer owed.
Becomes(id, r) ==
    /\ row' = [row EXCEPT ![id] = r]
    /\ LET still == {i \in reader.owed :
                        i = id => r.state \in TaskStates /\ Selects(reader.query, id, r.state)}
       IN  reader' = [reader EXCEPT !.owed = still, !.seen = @ \cap still]

Accept(id, now) ==
    /\ row[id].state = "Unborn"
    /\ Becomes(id, [state |-> "Queued", accepted |-> now, retry |-> 0])

Move(id, state, retry) ==
    /\ row[id].state \in TaskStates
    /\ AllowsTransitionTo(row[id].state, state)
    /\ retry # 0 => state = "Queued"
    /\ Becomes(id, [row[id] EXCEPT !.state = state, !.retry = retry])

\* Eviction or pruning.
Remove(id) ==
    /\ row[id].state \in TerminalStates
    /\ Becomes(id, [NoRow EXCEPT !.state = "Removed"])

BeginWalk(q) ==
    /\ reader.pc = "idle"
    /\ reader' = [NoWalk EXCEPT !.pc = "walking", !.query = q,
                                !.owed = {id \in Rows : Matches(id, q)}]
    /\ UNCHANGED row

\* Mutant: the cursor names the lookahead row, which the page does not hold.
CursorPastPage(ids, after) ==
    LET left == {CursorOf(id) : id \in Rows \ ids} \ {Start}
        later == {c \in left : \A id \in ids : Precedes(CursorOf(id), c)}
    IN  CHOOSE c \in later : \A d \in later : ~Precedes(d, c)

\* TaskPage.next: the last record of the page.
NextCursor(ids, after) ==
    CHOOSE c \in {CursorOf(id) : id \in ids} : \A id \in ids : ~Precedes(c, CursorOf(id))

ReadPage(page) ==
    /\ reader.pc = "walking"
    /\ reader' =
           IF page.more
           THEN [reader EXCEPT !.after = NextCursor(page.ids, reader.after),
                               !.seen = @ \cup (page.ids \cap reader.owed),
                               !.repeated = page.ids \cap reader.seen]
           ELSE [NoWalk EXCEPT !.missed = reader.owed \ (reader.seen \cup page.ids),
                               !.repeated = page.ids \cap reader.seen]
    /\ UNCHANGED row

Next ==
    \/ \E id \in Ids, now \in Clock \ {0} : Accept(id, now)
    \/ \E id \in Ids, state \in {"Queued", "Running", "Succeeded"}, retry \in Clock :
           Move(id, state, retry)
    \/ \E id \in Ids : Remove(id)
    \/ \E q \in Queries : BeginWalk(q)
    \/ ReadPage(MemoryListEncoded(reader.query, reader.after))
    \/ ReadPage(SqliteListEncoded(reader.query, reader.after))

Spec == Init /\ [][Next]_vars

-----------------------------------------------------------------------------
(***************************************************************************)
(* Properties.                                                             *)
(***************************************************************************)
\* A walk that follows the cursors of list_encoded returns every task that
\* matched all along, and none of them twice, whatever is accepted, changed
\* or removed between its pages and although the clock may step back.
WalkComplete == reader.missed = {} /\ reader.repeated = {}

\* The bounded heap of the memory store and the query of the SQLite store
\* select the same page of the history for every query and every cursor, that
\* of a removed task included, the same ready page at every time, and the same
\* next retry deadline.
PagesAgree ==
    /\ \A q \in Queries, after \in {Start, reader.after} \cup {CursorOf(id) : id \in Rows} :
           MemoryListEncoded(q, after) = SqliteListEncoded(q, after)
    /\ \A now \in Clock :
           /\ \A after \in {Start} \cup {CursorOf(id) : id \in Rows} :
                  MemoryListReady(after, now) = SqliteListReady(after, now)
           /\ MemoryNextRetryDeadline(now) = SqliteNextRetryDeadline(now)

\* At any one instant every queued task is either found by the ready scan or
\* bounded by the next retry deadline: what the scheduler does not start now it
\* wakes up for.
ReadyOrAwaited ==
    \A now \in Clock, id \in Rows :
        row[id].state = "Queued" =>
            \/ \E after \in {Start} \cup {CursorOf(i) : i \in Rows} :
                   id \in SqliteListReady(after, now).ids
            \/ SqliteNextRetryDeadline(now) \in 1 .. row[id].retry
=============================================================================
