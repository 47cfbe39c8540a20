----------------------- MODULE MemoryTaskStore_proofs -----------------------
(***************************************************************************)
(* The counters, the eviction order and the idempotency index of           *)
(* MemoryTaskStore describe its records exactly, its limits hold, a call   *)
(* that fails changes nothing, evictions are frugal, and the store, alone  *)
(* or behind the submissions of TaskClient, implements TaskStore, for any  *)
(* ids, requests, sizes and limits.                                        *)
(*                                                                         *)
(* Every operation is made of three steps on a MemoryState: a set of tasks *)
(* is removed, a task is inserted, or one record changes.  Each of them    *)
(* keeps the counters, the order and the index in agreement with the       *)
(* records; and the evictions of accept_encoded and transition_encoded make *)
(* the room they are meant to.  The inductive invariant is that the        *)
(* MemoryState is consistent and within its limits.                        *)
(***************************************************************************)
EXTENDS Submission, TLAPS

\* What every operation may rely on, and what remove_encoded_task, the
\* insertion and a change of one record preserve.
Consistent(m) ==
    /\ m \in MemoryStates
    /\ RequestsMatch(m)
    /\ CountersMatch(m)
    /\ OrderMatches(m)
    /\ IndexMatches(m)

-----------------------------------------------------------------------------
(***************************************************************************)
(* Sets and their sizes.  The lemmas assume the facts collected here; the  *)
(* last section takes them from the library.                               *)
(***************************************************************************)
\* A finite set has a size.
SizesAreNumbers ==
    \A S : IsFiniteSet(S) => Cardinality(S) \in Nat

\* The empty set, and no other, has size zero.
EmptyIsZero ==
    /\ IsFiniteSet({}) /\ Cardinality({}) = 0
    /\ \A S : IsFiniteSet(S) => (Cardinality(S) = 0 <=> S = {})

\* A part is finite and no larger than the whole.
PartsAreSmaller ==
    \A S : \A T \in SUBSET S :
        IsFiniteSet(S) => IsFiniteSet(T) /\ Cardinality(T) <= Cardinality(S)

\* An element counts for one.
ElementsCountOne ==
    \A S, x : IsFiniteSet(S) =>
        /\ Cardinality(S \cup {x}) = IF x \in S THEN Cardinality(S) ELSE Cardinality(S) + 1
        /\ Cardinality(S \ {x}) = IF x \in S THEN Cardinality(S) - 1 ELSE Cardinality(S)

\* What is taken away is subtracted.
DifferencesSubtract ==
    \A S, T : IsFiniteSet(S) =>
        /\ IsFiniteSet(S \ T) /\ IsFiniteSet(S \cap T)
        /\ Cardinality(S \ T) = Cardinality(S) - Cardinality(S \cap T)

\* What is put together is added, the common part once.
UnionsAdd ==
    \A S, T : IsFiniteSet(S) /\ IsFiniteSet(T) =>
        Cardinality(S \cup T) = Cardinality(S) + Cardinality(T) - Cardinality(S \cap T)

\* n bytes, each paired with their task, are n pairs.
PairsCount ==
    \A x : \A n \in Nat : IsFiniteSet({x} \X (1 .. n)) /\ Cardinality({x} \X (1 .. n)) = n

\* Finitely many finite sets have a finite union.
UnionsAreFinite ==
    \A S, f : IsFiniteSet(S) /\ (\A x \in S : IsFiniteSet(f[x])) =>
        IsFiniteSet(UNION {f[x] : x \in S})

\* What can be told apart by finitely many values is finite.
InjectionsAreFinite ==
    \A S, T : \A f \in [S -> T] :
        IsFiniteSet(T) /\ (\A x, y \in S : f[x] = f[y] => x = y) => IsFiniteSet(S)

\* Some numbers have a least one among them.
LeastExists ==
    \A T \in SUBSET Nat : T # {} => \E n \in T : \A m \in T : n <= m

SetFacts ==
    /\ SizesAreNumbers /\ EmptyIsZero /\ PartsAreSmaller /\ ElementsCountOne
    /\ DifferencesSubtract /\ UnionsAdd /\ PairsCount /\ UnionsAreFinite
    /\ InjectionsAreFinite /\ LeastExists

\* What is counted is a natural number.
LEMMA SizeIsNumber == ASSUME SetFacts, NEW S, IsFiniteSet(S) PROVE Cardinality(S) \in Nat
  BY Zenon DEF SetFacts, SizesAreNumbers

\* An empty store has nothing to count.
LEMMA SizeOfNothing ==
    ASSUME SetFacts
    PROVE  /\ IsFiniteSet({}) /\ Cardinality({}) = 0
           /\ \A S : IsFiniteSet(S) => (Cardinality(S) = 0 <=> S = {})
  BY Zenon DEF SetFacts, EmptyIsZero

\* Some of the retained tasks are no more than all of them.
LEMMA SizeOfPart ==
    ASSUME SetFacts, NEW S, IsFiniteSet(S), NEW T \in SUBSET S
    PROVE  IsFiniteSet(T) /\ Cardinality(T) <= Cardinality(S)
  BY Zenon DEF SetFacts, PartsAreSmaller

\* An insertion and a removal change a count by one.
LEMMA SizeByOne ==
    ASSUME SetFacts, NEW S, NEW x, IsFiniteSet(S)
    PROVE  /\ Cardinality(S \cup {x}) = IF x \in S THEN Cardinality(S) ELSE Cardinality(S) + 1
           /\ Cardinality(S \ {x}) = IF x \in S THEN Cardinality(S) - 1 ELSE Cardinality(S)
  BY Zenon DEF SetFacts, ElementsCountOne

\* Removing a set of tasks takes those of them off that were counted.
LEMMA SizeOfRest ==
    ASSUME SetFacts, NEW S, NEW T, IsFiniteSet(S)
    PROVE  /\ IsFiniteSet(S \ T) /\ IsFiniteSet(S \cap T)
           /\ Cardinality(S \ T) = Cardinality(S) - Cardinality(S \cap T)
  BY Zenon DEF SetFacts, DifferencesSubtract

\* A set of retained tasks has finitely many payload bytes.
LEMMA SizeNat ==
    ASSUME SetFacts, NEW tasks \in [Ids -> StoredTasks], NEW ids \in SUBSET Ids,
           \A id \in ids : tasks[id].request \in Requests
    PROVE  IsFiniteSet(Bytes(tasks, ids)) /\ Size(tasks, ids) \in Nat
<1> DEFINE part == [id \in ids |-> {id} \X (1 .. SizeOf[tasks[id].request])]
<1>1. IsFiniteSet(ids)
  BY Zenon, SizeOfPart, MemoryAssumption
<1>2. ASSUME NEW id \in ids
      PROVE  IsFiniteSet(part[id])
  BY Zenon, MemoryAssumption DEF SetFacts, PairsCount
<1>3. Bytes(tasks, ids) = UNION {part[id] : id \in ids}
  BY Zenon DEF Bytes
<1> HIDE DEF part
<1>4. IsFiniteSet(UNION {part[id] : id \in ids})
  BY <1>1, <1>2 DEF SetFacts, UnionsAreFinite
<1> QED
  BY Zenon, <1>3, <1>4, SizeIsNumber DEF Size

\* The payload bytes of one task are those of its request.
LEMMA SizeOne ==
    ASSUME SetFacts, NEW tasks \in [Ids -> StoredTasks], NEW id \in Ids,
           tasks[id].request \in Requests
    PROVE  Size(tasks, {id}) = SizeOf[tasks[id].request]
<1>1. SizeOf[tasks[id].request] \in Nat
  BY Zenon, MemoryAssumption
<1>2. Bytes(tasks, {id}) = {id} \X (1 .. SizeOf[tasks[id].request])
  BY Zenon DEF Bytes
<1> QED
  BY Zenon, <1>1, <1>2 DEF Size, SetFacts, PairsCount

\* The bytes of disjoint sets of tasks add up.
LEMMA SizeUnion ==
    ASSUME SetFacts, NEW tasks \in [Ids -> StoredTasks], NEW a \in SUBSET Ids, NEW b \in SUBSET Ids,
           \A id \in a \cup b : tasks[id].request \in Requests,
           a \cap b = {}
    PROVE  Size(tasks, a \cup b) = Size(tasks, a) + Size(tasks, b)
<1>1. Bytes(tasks, a \cup b) = Bytes(tasks, a) \cup Bytes(tasks, b)
  BY Zenon DEF Bytes
<1>2. Bytes(tasks, a) \cap Bytes(tasks, b) = {}
  BY DEF Bytes
<1>3. IsFiniteSet(Bytes(tasks, a)) /\ IsFiniteSet(Bytes(tasks, b))
  BY Zenon, SizeNat
<1>4. Cardinality(Bytes(tasks, a) \cup Bytes(tasks, b))
          = Cardinality(Bytes(tasks, a)) + Cardinality(Bytes(tasks, b)) - 0
  <2>1. Cardinality(Bytes(tasks, a) \cup Bytes(tasks, b))
            = Cardinality(Bytes(tasks, a)) + Cardinality(Bytes(tasks, b))
                  - Cardinality(Bytes(tasks, a) \cap Bytes(tasks, b))
    BY Zenon, <1>3 DEF SetFacts, UnionsAdd
  <2> QED
    BY Zenon, <1>2, <2>1, SizeOfNothing
<1>5. Size(tasks, a) \in Nat /\ Size(tasks, b) \in Nat
  BY Zenon, SizeNat
<1>6. Size(tasks, a \cup b) = Size(tasks, a) + Size(tasks, b) - 0
  BY Zenon, <1>1, <1>4 DEF Size
<1> QED
  BY <1>5, <1>6

\* A part of some tasks has no more bytes than the whole.
LEMMA SizeMonotone ==
    ASSUME SetFacts, NEW tasks \in [Ids -> StoredTasks], NEW b \in SUBSET Ids, NEW a \in SUBSET b,
           \A id \in b : tasks[id].request \in Requests
    PROVE  /\ Size(tasks, a) <= Size(tasks, b)
           /\ Size(tasks, b \ a) = Size(tasks, b) - Size(tasks, a)
           /\ {Size(tasks, a), Size(tasks, b), Size(tasks, b \ a)} \subseteq Nat
<1>1. Size(tasks, a) \in Nat /\ Size(tasks, b \ a) \in Nat /\ Size(tasks, b) \in Nat
  BY Zenon, SizeNat
<1>2. a \cup (b \ a) = b /\ a \cap (b \ a) = {}
  BY Zenon
<1>3. Size(tasks, a \cup (b \ a)) = Size(tasks, a) + Size(tasks, b \ a)
  BY Zenon, <1>2, SizeUnion
<1>4. Size(tasks, b) = Size(tasks, a) + Size(tasks, b \ a)
  BY Zenon, <1>2, <1>3
<1> QED
  BY <1>1, <1>4

\* Only the requests of the tasks matter.
LEMMA SizeSame ==
    ASSUME NEW tasks, NEW others, NEW ids,
           \A id \in ids : tasks[id].request = others[id].request
    PROVE  Size(tasks, ids) = Size(others, ids)
<1>1. Bytes(tasks, ids) = Bytes(others, ids)
  BY Zenon DEF Bytes
<1> QED
  BY Zenon, <1>1 DEF Size

-----------------------------------------------------------------------------
(***************************************************************************)
(* Records and states.                                                     *)
(***************************************************************************)

\* The records a task has before it is accepted and after it is forgotten.
LEMMA AbsentTasks ==
    /\ AbsentTask \in StoredTasks /\ UnbornTask \in StoredTasks
    /\ AbsentTask.summary.state = "Removed" /\ UnbornTask.summary.state = "Unborn"
    /\ AbsentTask.request = NoRequest /\ UnbornTask.request = NoRequest
<1>1. Absent \in Summaries /\ Unborn \in Summaries
  BY Zenon DEF Absent, Unborn, Accepted, Summaries, AbsentStates, RetryStates
<1>2. Absent.state = "Removed" /\ Unborn.state = "Unborn"
  BY Zenon DEF Absent, Unborn, Accepted
<1> QED
  BY Zenon, <1>1, <1>2 DEF AbsentTask, UnbornTask, StoredTasks

\* The members of a MemoryState.
LEMMA MemoryFields ==
    ASSUME NEW m \in MemoryStates
    PROVE  /\ m.tasks \in [Ids -> StoredTasks]
           /\ m.idempotency \in [Keys -> Ids \cup {NoId}]
           /\ m.order \in SUBSET (Nat \X Ids)
           /\ m.ticket \in Nat /\ m.bytes \in Nat /\ m.unfinished \in Nat
BY Zenon DEF MemoryStates

\* A retained task has a request, and a finished one is retained.
LEMMA RetainedRequests ==
    ASSUME NEW m \in MemoryStates, RequestsMatch(m)
    PROVE  /\ \A id \in RetainedIds(m.tasks) : m.tasks[id].request \in Requests
           /\ TerminalIds(m.tasks) \subseteq RetainedIds(m.tasks)
           /\ RetainedIds(m.tasks) \subseteq Ids
           /\ UnfinishedIds(m.tasks) \subseteq Ids
<1>1. \A id \in Ids : m.tasks[id].request \in Requests \cup {NoRequest}
  BY Zenon, MemoryFields DEF StoredTasks
<1> QED
  BY Zenon, <1>1 DEF RequestsMatch, RetainedIds, TerminalIds, UnfinishedIds, Retained, IsTerminal,
              TaskStates

\* What remove_encoded_task leaves.
LEMMA RemovedTasks ==
    ASSUME NEW m \in MemoryStates, NEW ids
    PROVE  LET n == RemoveEncodedTasks(m, ids)
               gone == ids \cap RetainedIds(m.tasks)
           IN  /\ n.tasks \in [Ids -> StoredTasks]
               /\ \A id \in Ids \ gone : n.tasks[id] = m.tasks[id]
               /\ \A id \in gone : n.tasks[id] = AbsentTask
               /\ RetainedIds(n.tasks) = RetainedIds(m.tasks) \ gone
               /\ TerminalIds(n.tasks) = TerminalIds(m.tasks) \ gone
               /\ UnfinishedIds(n.tasks) = UnfinishedIds(m.tasks) \ gone
<1> DEFINE gone == ids \cap RetainedIds(m.tasks)
           n == RemoveEncodedTasks(m, ids)
<1>1. n.tasks = [id \in Ids |-> IF id \in gone THEN AbsentTask ELSE m.tasks[id]]
  BY Zenon DEF RemoveEncodedTasks
<1>2. gone \subseteq Ids
  BY Zenon DEF RetainedIds
<1> HIDE DEF n, gone
<1>3. n.tasks \in [Ids -> StoredTasks]
  BY <1>1, AbsentTasks, MemoryFields
<1>4. (\A id \in Ids \ gone : n.tasks[id] = m.tasks[id]) /\ (\A id \in gone : n.tasks[id] = AbsentTask)
  BY Zenon, <1>1, <1>2
<1>5. RetainedIds(n.tasks) = RetainedIds(m.tasks) \ gone
  BY Zenon, <1>2, <1>4, AbsentTasks DEF RetainedIds, Retained, TaskStates, TerminalStates
<1>6. TerminalIds(n.tasks) = TerminalIds(m.tasks) \ gone
  BY Zenon, <1>2, <1>4, AbsentTasks DEF TerminalIds, IsTerminal, TerminalStates
<1> QED
  BY Zenon, <1>3, <1>4, <1>5, <1>6 DEF n, gone, UnfinishedIds

\* remove_encoded_task, for any tasks, keeps the counters, the order and the
\* index in step with the records, and only ever makes room.
LEMMA RemoveConsistent ==
    ASSUME SetFacts, NEW m, Consistent(m), NEW ids
    PROVE  LET n == RemoveEncodedTasks(m, ids)
           IN  /\ Consistent(n)
               /\ n.bytes <= m.bytes
               /\ n.bytes = m.bytes - Size(m.tasks, ids \cap RetainedIds(m.tasks))
               /\ n.unfinished <= m.unfinished
               /\ n.order = {e \in m.order : e[2] \notin ids \cap RetainedIds(m.tasks)}
<1> DEFINE gone == ids \cap RetainedIds(m.tasks)
           n == RemoveEncodedTasks(m, ids)
<1>1. /\ m \in MemoryStates /\ RequestsMatch(m) /\ CountersMatch(m)
      /\ OrderMatches(m) /\ IndexMatches(m)
  BY Zenon DEF Consistent
<1>2. /\ n.tasks \in [Ids -> StoredTasks]
      /\ \A id \in Ids \ gone : n.tasks[id] = m.tasks[id]
      /\ \A id \in gone : n.tasks[id] = AbsentTask
      /\ RetainedIds(n.tasks) = RetainedIds(m.tasks) \ gone
      /\ TerminalIds(n.tasks) = TerminalIds(m.tasks) \ gone
      /\ UnfinishedIds(n.tasks) = UnfinishedIds(m.tasks) \ gone
  BY Zenon, <1>1, RemovedTasks
<1>3. /\ n.idempotency = IndexWithout(m, gone)
      /\ n.order = OrderWithout(m, gone)
      /\ n.ticket = m.ticket
      /\ n.bytes = m.bytes - Size(m.tasks, gone)
      /\ n.unfinished = m.unfinished - Cardinality(gone \cap UnfinishedIds(m.tasks))
      /\ n = [tasks |-> n.tasks, idempotency |-> n.idempotency, order |-> n.order,
              ticket |-> n.ticket, bytes |-> n.bytes, unfinished |-> n.unfinished]
  BY Zenon DEF RemoveEncodedTasks
<1>4. gone \subseteq RetainedIds(m.tasks) /\ RetainedIds(m.tasks) \subseteq Ids
  BY Zenon DEF RetainedIds
<1> HIDE DEF n, gone
<1>5. n.bytes = Size(n.tasks, RetainedIds(n.tasks)) /\ n.bytes \in Nat /\ n.bytes <= m.bytes
  <2>1. m.tasks \in [Ids -> StoredTasks] /\ m.bytes = Size(m.tasks, RetainedIds(m.tasks))
    BY Zenon, <1>1, MemoryFields DEF CountersMatch
  <2>2. \A id \in RetainedIds(m.tasks) : m.tasks[id].request \in Requests
    BY Zenon, <1>1, RetainedRequests
  <2>3. /\ Size(m.tasks, RetainedIds(m.tasks) \ gone) = m.bytes - Size(m.tasks, gone)
        /\ Size(m.tasks, gone) <= m.bytes
        /\ Size(m.tasks, gone) \in Nat /\ m.bytes \in Nat
    <3>1. /\ Size(m.tasks, gone) <= Size(m.tasks, RetainedIds(m.tasks))
          /\ Size(m.tasks, RetainedIds(m.tasks) \ gone)
                = Size(m.tasks, RetainedIds(m.tasks)) - Size(m.tasks, gone)
          /\ {Size(m.tasks, gone), Size(m.tasks, RetainedIds(m.tasks)),
                Size(m.tasks, RetainedIds(m.tasks) \ gone)} \subseteq Nat
      BY Zenon, <1>4, <2>1, <2>2, SizeMonotone
    <3> QED
      BY Zenon, <2>1, <3>1
  <2>4. \A id \in RetainedIds(m.tasks) \ gone : n.tasks[id].request = m.tasks[id].request
    BY Zenon, <1>2, <1>4
  <2>5. Size(n.tasks, RetainedIds(m.tasks) \ gone) = Size(m.tasks, RetainedIds(m.tasks) \ gone)
    BY <2>4, SizeSame
  <2>6. n.bytes = Size(n.tasks, RetainedIds(n.tasks))
    BY Zenon, <1>2, <1>3, <2>3, <2>5
  <2> QED
    BY <1>3, <2>3, <2>6
<1>6. /\ n.unfinished = Cardinality(UnfinishedIds(n.tasks))
      /\ n.unfinished \in Nat /\ n.unfinished <= m.unfinished
  <2>1. IsFiniteSet(UnfinishedIds(m.tasks))
    BY Zenon, <1>1, RetainedRequests, SizeOfPart, MemoryAssumption
  <2>2. /\ IsFiniteSet(UnfinishedIds(m.tasks) \ gone)
        /\ Cardinality(UnfinishedIds(m.tasks) \ gone)
             = Cardinality(UnfinishedIds(m.tasks)) - Cardinality(UnfinishedIds(m.tasks) \cap gone)
    BY Zenon, <2>1, SizeOfRest
  <2>3. UnfinishedIds(m.tasks) \cap gone = gone \cap UnfinishedIds(m.tasks)
    BY Zenon
  <2>4. n.unfinished = Cardinality(UnfinishedIds(n.tasks))
    BY Zenon, <1>1, <1>2, <1>3, <2>2, <2>3 DEF CountersMatch
  <2>5. IsFiniteSet(UnfinishedIds(m.tasks) \cap gone)
    BY Zenon, <2>1, SizeOfRest
  <2>6. /\ Cardinality(UnfinishedIds(n.tasks)) \in Nat
        /\ Cardinality(gone \cap UnfinishedIds(m.tasks)) \in Nat
    BY Zenon, <1>2, <2>2, <2>3, <2>5, SizeIsNumber
  <2> QED
    BY <1>1, <1>3, <2>4, <2>6, MemoryFields
<1>7. n \in MemoryStates
  <2>1. n.idempotency \in [Keys -> Ids \cup {NoId}]
    BY <1>1, <1>3, MemoryFields DEF IndexWithout
  <2>2. n.order \in SUBSET (Nat \X Ids)
    BY Zenon, <1>1, <1>3, MemoryFields DEF OrderWithout
  <2>3. n.ticket \in Nat
    BY Zenon, <1>1, <1>3, MemoryFields
  <2> QED
    BY Zenon, <1>2, <1>3, <1>5, <1>6, <2>1, <2>2, <2>3 DEF MemoryStates
<1>8. RequestsMatch(n)
  BY Zenon, <1>1, <1>2, <1>4, AbsentTasks DEF RequestsMatch, Retained, TaskStates, TerminalStates
<1>9. OrderMatches(n)
  <2>1. n.order = {e \in m.order : e[2] \notin gone}
    BY Zenon, <1>3 DEF OrderWithout
  <2>2. OrderIds(n.order) = OrderIds(m.order) \ gone
    BY Zenon, <2>1 DEF OrderIds
  <2> QED
    BY Zenon, <1>1, <1>2, <1>3, <2>1, <2>2 DEF OrderMatches
<1>10. IndexMatches(n)
  <2> SUFFICES ASSUME NEW k \in Keys, NEW id \in Ids
               PROVE  n.idempotency[k] = id <=>
                          id \in RetainedIds(n.tasks) /\ KeyOf[n.tasks[id].request] = k
    BY Zenon DEF IndexMatches
  <2>1. m.idempotency[k] = id <=>
            id \in RetainedIds(m.tasks) /\ KeyOf[m.tasks[id].request] = k
    BY Zenon, <1>1 DEF IndexMatches
  <2>2. n.idempotency[k] = IF \E g \in gone : KeyOf[m.tasks[g].request] = k
                           THEN NoId ELSE m.idempotency[k]
    BY Zenon, <1>3 DEF IndexWithout
  <2>3. id # NoId
    BY Zenon, MemoryAssumption DEF NoId
  <2>4. CASE \E g \in gone : KeyOf[m.tasks[g].request] = k
    <3>1. PICK g \in gone : KeyOf[m.tasks[g].request] = k
      BY Zenon, <2>4
    <3>2. m.idempotency[k] = g
      BY <1>1, <1>4, <3>1 DEF IndexMatches
    <3>3. ~(id \in RetainedIds(n.tasks) /\ KeyOf[n.tasks[id].request] = k)
      BY <1>2, <2>1, <3>1, <3>2
    <3> QED
      BY Zenon, <2>2, <2>3, <2>4, <3>3
  <2>5. CASE ~ \E g \in gone : KeyOf[m.tasks[g].request] = k
    BY Zenon, <1>2, <2>1, <2>2, <2>5
  <2> QED
    BY Zenon, <2>4, <2>5
<1>11. Consistent(n)
  BY Zenon, <1>5, <1>6, <1>7, <1>8, <1>9, <1>10 DEF Consistent, CountersMatch
<1> QED
  BY Zenon, <1>3, <1>5, <1>6, <1>11 DEF n, gone, OrderWithout

-----------------------------------------------------------------------------
(***************************************************************************)
(* Eviction.                                                               *)
(***************************************************************************)

\* The eviction order is finite, and all of it can be evicted.
LEMMA OrderFinite ==
    ASSUME SetFacts, NEW m, Consistent(m)
    PROVE  /\ IsFiniteSet(m.order) /\ Cardinality(m.order) \in Nat
           /\ m.order \in SUBSET (Nat \X Ids)
           /\ \A e \in m.order : Evictable(m, e)
<1>1. m \in MemoryStates /\ RequestsMatch(m) /\ OrderMatches(m)
  BY Zenon DEF Consistent
<1>2. m.order \in SUBSET (Nat \X Ids)
  BY Zenon, <1>1, MemoryFields
<1>3. /\ [e \in m.order |-> e[2]] \in [m.order -> Ids]
      /\ \A e, d \in m.order : e[2] = d[2] => e = d
  BY Zenon, <1>1, <1>2 DEF OrderMatches
<1>4. IsFiniteSet(m.order)
  <2>1. PICK f \in [m.order -> Ids] : \A e, d \in m.order : f[e] = f[d] => e = d
    BY Zenon, <1>3
  <2> QED
    BY Zenon, <2>1, MemoryAssumption DEF SetFacts, InjectionsAreFinite
<1>5. \A e \in m.order : e[2] \in RetainedIds(m.tasks)
  BY Zenon, <1>1, RetainedRequests DEF OrderMatches, OrderIds
<1> QED
  BY Zenon, <1>2, <1>4, <1>5, SizeIsNumber DEF Evictable, OrderBefore

\* Some entry of the eviction order is the oldest.
LEMMA Oldest ==
    ASSUME SetFacts, NEW order \in SUBSET (Nat \X Ids), NEW rest \in SUBSET order, rest # {}
    PROVE  \E e \in rest : \A d \in rest : e[1] <= d[1]
<1>1. {e[1] : e \in rest} \in SUBSET Nat /\ {e[1] : e \in rest} # {}
  BY Zenon
<1>2. PICK n \in {e[1] : e \in rest} : \A m \in {e[1] : e \in rest} : n <= m
  BY Zenon, <1>1 DEF SetFacts, LeastExists
<1> QED
  BY Zenon, <1>2

\* With the evictions of transition_encoded the deque is within its capacity.
LEMMA HistoryWithinCapacity ==
    ASSUME SetFacts, NEW m, Consistent(m)
    PROVE  Cardinality(RemoveEncodedTasks(m, EvictedForHistory(m)).order) <= history_capacity
<1> DEFINE n == RemoveEncodedTasks(m, EvictedForHistory(m))
           after(e) == m.order \ OrderBefore(m.order, e)
<1>1. IsFiniteSet(m.order) /\ m.order \in SUBSET (Nat \X Ids) /\ \A e \in m.order : Evictable(m, e)
  BY Zenon, OrderFinite
<1>2. n.order = {e \in m.order : e[2] \notin EvictedForHistory(m) \cap RetainedIds(m.tasks)}
  BY Zenon, RemoveConsistent
<1>3. ASSUME NEW e \in m.order, Cardinality(after(e)) > history_capacity
      PROVE  e \notin n.order
  <2>1. e[2] \in EvictedForHistory(m)
    BY Zenon, <1>1, <1>3 DEF EvictedForHistory, OrderIds
  <2>2. e[2] \in RetainedIds(m.tasks)
    BY Zenon, <1>1 DEF Evictable
  <2> QED
    BY Zenon, <1>2, <2>1, <2>2
<1>4. n.order \subseteq m.order /\ IsFiniteSet(n.order)
  BY Zenon, <1>1, <1>2, SizeOfPart
<1> HIDE DEF n
<1>5. CASE n.order = {}
  BY <1>5, SizeOfNothing, MemoryAssumption DEF n
<1>6. CASE n.order # {}
  <2>1. PICK e \in n.order : \A d \in n.order : e[1] <= d[1]
    BY Zenon, <1>1, <1>4, <1>6, Oldest
  <2>2. n.order \subseteq after(e)
    BY <1>1, <1>4, <2>1 DEF OrderBefore
  <2>3. IsFiniteSet(after(e)) /\ Cardinality(after(e)) \in Nat
    BY Zenon, <1>1, SizeOfRest, SizeIsNumber
  <2>4. Cardinality(n.order) <= Cardinality(after(e))
    BY Zenon, <2>2, <2>3, SizeOfPart
  <2>5. ~(Cardinality(after(e)) > history_capacity)
    BY Zenon, <1>3, <1>4, <2>1
  <2>6. Cardinality(n.order) \in Nat
    BY Zenon, <1>4, SizeIsNumber
  <2> HIDE DEF after
  <2> QED
    BY <2>3, <2>4, <2>5, <2>6, MemoryAssumption DEF n
<1> QED
  BY Zenon, <1>5, <1>6

\* When evicting every finished task would make room, the evictions of
\* accept_encoded make it.
LEMMA RoomIsMade ==
    ASSUME SetFacts, NEW m, Consistent(m), NEW room \in Int, MinimumRetained(m) <= room
    PROVE  RemoveEncodedTasks(m, EvictedForRoom(m, room)).bytes <= room
<1> DEFINE evicted == EvictedForRoom(m, room)
           gone == evicted \cap RetainedIds(m.tasks)
           n == RemoveEncodedTasks(m, evicted)
           rest == {e \in m.order : e[2] \notin evicted}
           earlier(e) == OrderIds(OrderBefore(m.order, e))
<1>1. /\ m \in MemoryStates /\ RequestsMatch(m) /\ CountersMatch(m) /\ OrderMatches(m)
      /\ m.tasks \in [Ids -> StoredTasks] /\ m.bytes \in Nat
  BY Zenon, MemoryFields DEF Consistent
<1>2. /\ IsFiniteSet(m.order) /\ m.order \in SUBSET (Nat \X Ids)
      /\ \A e \in m.order : Evictable(m, e)
  BY Zenon, OrderFinite
<1>3. /\ OrderIds(m.order) = TerminalIds(m.tasks)
      /\ TerminalIds(m.tasks) \subseteq RetainedIds(m.tasks)
      /\ RetainedIds(m.tasks) \subseteq Ids
      /\ \A id \in RetainedIds(m.tasks) : m.tasks[id].request \in Requests
  BY Zenon, <1>1, RetainedRequests DEF OrderMatches
<1>4. n.bytes = m.bytes - Size(m.tasks, gone) /\ m.bytes = Size(m.tasks, RetainedIds(m.tasks))
  BY Zenon, <1>1, RemoveConsistent DEF CountersMatch
<1>5. gone \subseteq RetainedIds(m.tasks)
  BY Zenon
<1>6. Size(m.tasks, gone) \in Nat
  BY Zenon, <1>1, <1>3, <1>5, SizeNat
<1>7. CASE rest = {}
  <2>1. OrderIds(m.order) \subseteq gone
    BY Zenon, <1>3, <1>7 DEF OrderIds
  <2>2. gone \subseteq OrderIds(m.order)
    BY Zenon DEF EvictedForRoom, OrderIds
  <2>3. gone = OrderIds(m.order) \cap RetainedIds(m.tasks)
    BY Zenon, <1>3, <2>1, <2>2
  <2>4. Size(m.tasks, gone) <= m.bytes
    <3>1. Size(m.tasks, gone) <= Size(m.tasks, RetainedIds(m.tasks))
      BY Zenon, <1>1, <1>3, <1>5, SizeMonotone
    <3> QED
      BY Zenon, <1>4, <3>1
  <2>5. MinimumRetained(m) = m.bytes - Size(m.tasks, gone)
    <3> HIDE DEF gone
    <3> QED
      BY <1>1, <1>6, <2>3, <2>4 DEF MinimumRetained
  <2> QED
    BY Zenon, <1>4, <2>5
<1>8. CASE rest # {}
  <2>1. PICK e \in rest : \A d \in rest : e[1] <= d[1]
    BY Zenon, <1>2, <1>8, Oldest
  <2>2. ~(m.bytes - Size(m.tasks, earlier(e)) > room)
    BY Zenon, <1>2, <2>1 DEF EvictedForRoom, OrderIds
  <2>3. earlier(e) \subseteq gone
    <3>1. ASSUME NEW d \in OrderBefore(m.order, e)
          PROVE  d[2] \in gone
      <4>1. d \in m.order /\ d[1] < e[1] /\ d[1] \in Nat /\ e[1] \in Nat
        BY Zenon, <1>2, <2>1 DEF OrderBefore
      <4>2. d \notin rest
        BY <2>1, <4>1
      <4> QED
        BY Zenon, <1>2, <4>1, <4>2 DEF Evictable
    <3> QED
      BY Zenon, <3>1 DEF OrderIds
  <2>4. /\ Size(m.tasks, earlier(e)) <= Size(m.tasks, gone)
        /\ Size(m.tasks, earlier(e)) \in Nat
    BY ZenonT(30), <1>1, <1>3, <1>5, <2>3, SizeMonotone
  <2> QED
    BY <1>1, <1>4, <1>6, <2>2, <2>4
<1> QED
  BY Zenon, <1>7, <1>8

\* The insertion at the end of accept_encoded.
LEMMA InsertConsistent ==
    ASSUME SetFacts, NEW m, Consistent(m), NEW id \in Ids, m.tasks[id] = UnbornTask,
           NEW r \in Requests, NEW now \in Nat, KeyHolder(m, r) = NoId
    PROVE  LET n == Insert(m, id, r, now)
           IN  /\ Consistent(n)
               /\ n.bytes = m.bytes + SizeOf[r]
               /\ n.unfinished = m.unfinished + 1
               /\ n.order = m.order
               /\ RetainedIds(n.tasks) = RetainedIds(m.tasks) \cup {id}
<1> DEFINE n == Insert(m, id, r, now)
           task == [summary |-> Accepted, request |-> r, accepted |-> now,
                    finished |-> 0, progress |-> 0]
<1>1. /\ m \in MemoryStates /\ RequestsMatch(m) /\ CountersMatch(m)
      /\ OrderMatches(m) /\ IndexMatches(m)
  BY Zenon DEF Consistent
<1>2. /\ n.tasks = [m.tasks EXCEPT ![id] = task]
      /\ n.idempotency = IF KeyOf[r] = NoKey THEN m.idempotency
                         ELSE [m.idempotency EXCEPT ![KeyOf[r]] = id]
      /\ n.order = m.order /\ n.ticket = m.ticket
      /\ n.bytes = m.bytes + SizeOf[r] /\ n.unfinished = m.unfinished + 1
      /\ n = [tasks |-> n.tasks, idempotency |-> n.idempotency, order |-> n.order,
              ticket |-> n.ticket, bytes |-> n.bytes, unfinished |-> n.unfinished]
  BY Zenon DEF Insert
<1>3. task \in StoredTasks /\ task.summary.state = "Queued" /\ task.request = r
  BY Zenon DEF StoredTasks, Summaries, Accepted, TaskStates, RetryStates
<1> HIDE DEF n, task
<1>4. /\ m.tasks \in [Ids -> StoredTasks] /\ n.tasks \in [Ids -> StoredTasks]
      /\ n.tasks[id] = task /\ \A o \in Ids \ {id} : n.tasks[o] = m.tasks[o]
  BY <1>1, <1>2, <1>3, MemoryFields
<1>5. id \notin RetainedIds(m.tasks) /\ id \notin TerminalIds(m.tasks)
  BY Zenon, AbsentTasks DEF RetainedIds, Retained, TerminalIds, IsTerminal, TaskStates, TerminalStates
<1>6. /\ RetainedIds(n.tasks) = RetainedIds(m.tasks) \cup {id}
      /\ TerminalIds(n.tasks) = TerminalIds(m.tasks)
  BY Zenon, <1>3, <1>4, <1>5 DEF RetainedIds, Retained, TerminalIds, IsTerminal, TaskStates, TerminalStates
<1>7. UnfinishedIds(n.tasks) = UnfinishedIds(m.tasks) \cup {id} /\ id \notin UnfinishedIds(m.tasks)
  BY Zenon, <1>5, <1>6 DEF UnfinishedIds
<1>8. SizeOf[r] \in Nat
  BY Zenon, MemoryAssumption
<1>9. RequestsMatch(n)
  BY Zenon, <1>1, <1>3, <1>4, MemoryAssumption DEF RequestsMatch, Retained, TaskStates
<1>10. n.bytes = Size(n.tasks, RetainedIds(n.tasks))
  <2>1. /\ \A o \in RetainedIds(m.tasks) : m.tasks[o].request \in Requests
        /\ RetainedIds(m.tasks) \subseteq Ids
    BY Zenon, <1>1, RetainedRequests
  <2>2. \A o \in RetainedIds(m.tasks) : n.tasks[o].request = m.tasks[o].request
    BY Zenon, <1>4, <1>5, <2>1
  <2>3. Size(n.tasks, RetainedIds(m.tasks)) = Size(m.tasks, RetainedIds(m.tasks))
    BY Zenon, <2>2, SizeSame
  <2>4. Size(n.tasks, {id}) = SizeOf[r]
    BY Zenon, <1>3, <1>4, SizeOne
  <2>5. Size(n.tasks, RetainedIds(m.tasks) \cup {id})
            = Size(n.tasks, RetainedIds(m.tasks)) + Size(n.tasks, {id})
    BY <1>3, <1>4, <1>5, <2>1, <2>2, SizeUnion
  <2> QED
    BY Zenon, <1>1, <1>2, <1>6, <2>3, <2>4, <2>5 DEF CountersMatch
<1>11. n.unfinished = Cardinality(UnfinishedIds(n.tasks))
  <2>1. IsFiniteSet(UnfinishedIds(m.tasks))
    BY Zenon, <1>1, RetainedRequests, SizeOfPart, MemoryAssumption
  <2> QED
    BY <1>1, <1>2, <1>7, <2>1, SizeByOne DEF CountersMatch
<1>12. n \in MemoryStates
  <2>1. m.idempotency \in [Keys -> Ids \cup {NoId}]
    BY Zenon, <1>1, MemoryFields
  <2>2. n.idempotency \in [Keys -> Ids \cup {NoId}]
    <3>1. CASE KeyOf[r] = NoKey
      BY Zenon, <1>2, <2>1, <3>1
    <3>2. CASE KeyOf[r] # NoKey
      BY Zenon, <1>2, <2>1, <3>2
    <3> QED
      BY Zenon, <3>1, <3>2
  <2> QED
    BY <1>1, <1>2, <1>4, <1>8, <2>2, MemoryFields DEF MemoryStates
<1>13. OrderMatches(n)
  BY Zenon, <1>1, <1>2, <1>6 DEF OrderMatches
<1>14. IndexMatches(n)
  <2> SUFFICES ASSUME NEW k \in Keys, NEW o \in Ids
               PROVE  n.idempotency[k] = o <=>
                          o \in RetainedIds(n.tasks) /\ KeyOf[n.tasks[o].request] = k
    BY Zenon DEF IndexMatches
  <2>1. m.idempotency[k] = o <=> o \in RetainedIds(m.tasks) /\ KeyOf[m.tasks[o].request] = k
    BY Zenon, <1>1 DEF IndexMatches
  <2>2. id # NoId /\ o # NoId /\ k # NoKey
    BY Zenon, MemoryAssumption DEF NoId, Keys
  <2>3. n.idempotency[k] = IF k = KeyOf[r] THEN id ELSE m.idempotency[k]
    BY Zenon, <1>1, <1>2, <2>2, MemoryFields
  <2>4. k = KeyOf[r] => m.idempotency[k] = NoId
    BY Zenon, <2>2 DEF KeyHolder
  <2>5. CASE o = id
    BY Zenon, <1>3, <1>4, <1>5, <1>6, <2>1, <2>3, <2>5
  <2>6. CASE o # id
    BY Zenon, <1>4, <1>6, <2>1, <2>2, <2>3, <2>4, <2>6
  <2> QED
    BY Zenon, <2>5, <2>6
<1> QED
  BY Zenon, <1>2, <1>6, <1>9, <1>10, <1>11, <1>12, <1>13, <1>14 DEF n, Consistent, CountersMatch

\* What a new record for a retained task changes, and what not.
Changed(m, n, id, task) ==
    /\ n \in MemoryStates
    /\ RequestsMatch(n)
    /\ n.tasks[id] = task
    /\ \A o \in Ids \ {id} : n.tasks[o] = m.tasks[o]
    /\ \A o \in Ids : n.tasks[o].request = m.tasks[o].request
    /\ RetainedIds(n.tasks) = RetainedIds(m.tasks)
    /\ TerminalIds(n.tasks) =
           IF IsTerminal(task.summary.state) THEN TerminalIds(m.tasks) \cup {id}
                                             ELSE TerminalIds(m.tasks) \ {id}
    /\ n.idempotency = m.idempotency /\ n.order = m.order /\ n.ticket = m.ticket
    /\ n.bytes = m.bytes /\ n.unfinished = m.unfinished

\* A new record for a retained task, with the request it had.
LEMMA ChangedTasks ==
    ASSUME NEW m \in MemoryStates, RequestsMatch(m), NEW id \in RetainedIds(m.tasks),
           NEW task \in StoredTasks, task.request = m.tasks[id].request, Retained(task.summary),
           NEW n, n = WithTask(m, id, task)
    PROVE  Changed(m, n, id, task)
<1>1. /\ n.tasks = [m.tasks EXCEPT ![id] = task]
      /\ n.idempotency = m.idempotency /\ n.order = m.order /\ n.ticket = m.ticket
      /\ n.bytes = m.bytes /\ n.unfinished = m.unfinished
      /\ n = [tasks |-> n.tasks, idempotency |-> n.idempotency, order |-> n.order,
              ticket |-> n.ticket, bytes |-> n.bytes, unfinished |-> n.unfinished]
  BY Zenon DEF WithTask
<1>2. id \in Ids /\ Retained(m.tasks[id].summary)
  BY Zenon DEF RetainedIds
<1>3. /\ n.tasks \in [Ids -> StoredTasks]
      /\ n.tasks[id] = task /\ \A o \in Ids \ {id} : n.tasks[o] = m.tasks[o]
  BY <1>1, <1>2, MemoryFields
<1>4. n \in MemoryStates
  BY Zenon, <1>1, <1>3, MemoryFields DEF MemoryStates
<1>5. \A o \in Ids : n.tasks[o].request = m.tasks[o].request
  BY Zenon, <1>3
<1>6. \A o \in Ids : Retained(n.tasks[o].summary) <=> Retained(m.tasks[o].summary)
  BY Zenon, <1>2, <1>3
<1>7. RequestsMatch(n) /\ RetainedIds(n.tasks) = RetainedIds(m.tasks)
  BY Zenon, <1>5, <1>6 DEF RequestsMatch, RetainedIds
<1>8. TerminalIds(n.tasks) = IF IsTerminal(task.summary.state) THEN TerminalIds(m.tasks) \cup {id}
                             ELSE TerminalIds(m.tasks) \ {id}
  BY Zenon, <1>2, <1>3 DEF TerminalIds
<1> QED
  BY Zenon, <1>1, <1>3, <1>4, <1>5, <1>7, <1>8 DEF Changed

\* The counters of bytes and the index do not depend on what a record says
\* beyond its request.
LEMMA ChangeKeepsIndex ==
    ASSUME NEW m, Consistent(m), NEW n \in MemoryStates,
           \A o \in Ids : n.tasks[o].request = m.tasks[o].request,
           RetainedIds(n.tasks) = RetainedIds(m.tasks),
           n.idempotency = m.idempotency, n.bytes = m.bytes
    PROVE  IndexMatches(n) /\ n.bytes = Size(n.tasks, RetainedIds(n.tasks))
<1>1. m \in MemoryStates /\ IndexMatches(m) /\ m.bytes = Size(m.tasks, RetainedIds(m.tasks))
  BY Zenon DEF Consistent, CountersMatch
<1>2. RetainedIds(m.tasks) \subseteq Ids
  BY Zenon DEF RetainedIds
<1>3. Size(n.tasks, RetainedIds(m.tasks)) = Size(m.tasks, RetainedIds(m.tasks))
  BY <1>2, SizeSame
<1>4. n.bytes = Size(n.tasks, RetainedIds(n.tasks))
  BY Zenon, <1>1, <1>3
<1>5. ASSUME NEW k \in Keys, NEW id \in Ids
      PROVE  n.idempotency[k] = id <=>
                 id \in RetainedIds(n.tasks) /\ KeyOf[n.tasks[id].request] = k
  <2>1. m.idempotency[k] = id <=> id \in RetainedIds(m.tasks) /\ KeyOf[m.tasks[id].request] = k
    BY Zenon, <1>1 DEF IndexMatches
  <2> QED
    BY Zenon, <2>1
<1> QED
  BY Zenon, <1>4, <1>5 DEF IndexMatches

\* A record that changes without becoming terminal, or was terminal before.
LEMMA ChangeConsistent ==
    ASSUME NEW m, Consistent(m), NEW id \in RetainedIds(m.tasks),
           NEW task \in StoredTasks, task.request = m.tasks[id].request, Retained(task.summary),
           IsTerminal(task.summary.state) <=> IsTerminal(m.tasks[id].summary.state)
    PROVE  Consistent(WithTask(m, id, task))
<1> DEFINE n == WithTask(m, id, task)
<1>1. m \in MemoryStates /\ RequestsMatch(m) /\ CountersMatch(m) /\ OrderMatches(m)
  BY Zenon DEF Consistent
<1>2. /\ n \in MemoryStates /\ RequestsMatch(n)
      /\ \A o \in Ids : n.tasks[o].request = m.tasks[o].request
      /\ RetainedIds(n.tasks) = RetainedIds(m.tasks)
      /\ TerminalIds(n.tasks) = IF IsTerminal(task.summary.state) THEN TerminalIds(m.tasks) \cup {id}
                                ELSE TerminalIds(m.tasks) \ {id}
      /\ n.idempotency = m.idempotency /\ n.order = m.order /\ n.ticket = m.ticket
      /\ n.bytes = m.bytes /\ n.unfinished = m.unfinished
  <2>1. n = WithTask(m, id, task)
    BY Zenon
  <2> HIDE DEF n
  <2>2. Changed(m, n, id, task)
    BY Zenon, <1>1, <2>1, ChangedTasks
  <2> QED
    BY Zenon, <2>2 DEF Changed
<1> HIDE DEF n
<1>3. id \in TerminalIds(m.tasks) <=> IsTerminal(task.summary.state)
  BY Zenon DEF TerminalIds, RetainedIds
<1>4. TerminalIds(n.tasks) = TerminalIds(m.tasks)
  BY Zenon, <1>2, <1>3
<1>5. IndexMatches(n) /\ n.bytes = Size(n.tasks, RetainedIds(n.tasks))
  BY Zenon, <1>2, ChangeKeepsIndex
<1>6. CountersMatch(n)
  BY Zenon, <1>1, <1>2, <1>4, <1>5 DEF CountersMatch, UnfinishedIds
<1>7. OrderMatches(n)
  BY Zenon, <1>1, <1>2, <1>4 DEF OrderMatches
<1> QED
  BY Zenon, <1>2, <1>5, <1>6, <1>7 DEF n, Consistent

\* A record that becomes terminal, with the bookkeeping of transition_encoded.
LEMMA FinishConsistent ==
    ASSUME SetFacts, NEW m, Consistent(m), NEW id \in RetainedIds(m.tasks),
           NEW task \in StoredTasks, task.request = m.tasks[id].request, Retained(task.summary),
           IsTerminal(task.summary.state), ~IsTerminal(m.tasks[id].summary.state)
    PROVE  LET n == NewlyFinished(m.tasks[id], WithTask(m, id, task), id)
           IN  /\ Consistent(n)
               /\ n.bytes = m.bytes
               /\ n.unfinished <= m.unfinished
<1> DEFINE w == WithTask(m, id, task)
           n == NewlyFinished(m.tasks[id], w, id)
<1>1. m \in MemoryStates /\ RequestsMatch(m) /\ CountersMatch(m) /\ OrderMatches(m)
  BY Zenon DEF Consistent
<1>2. /\ w \in MemoryStates /\ RequestsMatch(w) /\ w.tasks[id] = task
      /\ \A o \in Ids : w.tasks[o].request = m.tasks[o].request
      /\ RetainedIds(w.tasks) = RetainedIds(m.tasks)
      /\ TerminalIds(w.tasks) = TerminalIds(m.tasks) \cup {id}
      /\ w.idempotency = m.idempotency /\ w.order = m.order /\ w.ticket = m.ticket
      /\ w.bytes = m.bytes /\ w.unfinished = m.unfinished
  <2>1. w = WithTask(m, id, task)
    BY Zenon
  <2> HIDE DEF w
  <2>2. Changed(m, w, id, task)
    BY Zenon, <1>1, <2>1, ChangedTasks
  <2> QED
    BY Zenon, <2>2 DEF Changed
<1> HIDE DEF w
<1>3. n = [tasks |-> w.tasks, idempotency |-> m.idempotency,
           order |-> m.order \cup {<<m.ticket, id>>}, ticket |-> m.ticket + 1,
           bytes |-> m.bytes,
           unfinished |-> IF m.unfinished > 0 THEN m.unfinished - 1 ELSE 0]
  BY Zenon, <1>2 DEF NewlyFinished
<1>4. /\ n.tasks = w.tasks /\ n.idempotency = m.idempotency
      /\ n.order = m.order \cup {<<m.ticket, id>>} /\ n.ticket = m.ticket + 1
      /\ n.bytes = m.bytes
      /\ n.unfinished = IF m.unfinished > 0 THEN m.unfinished - 1 ELSE 0
  BY <1>3
<1>5. id \in Ids /\ id \notin TerminalIds(m.tasks)
  BY Zenon DEF TerminalIds, RetainedIds
<1>6. n \in MemoryStates
  <2>1. m.unfinished \in Nat /\ m.ticket \in Nat /\ m.order \in SUBSET (Nat \X Ids)
    BY Zenon, <1>1, MemoryFields
  <2>2. n.order \in SUBSET (Nat \X Ids) /\ n.ticket \in Nat /\ n.unfinished \in Nat
    BY <1>4, <1>5, <2>1
  <2>3. n.tasks \in [Ids -> StoredTasks] /\ n.idempotency \in [Keys -> Ids \cup {NoId}] /\ n.bytes \in Nat
    BY Zenon, <1>1, <1>2, <1>4, MemoryFields
  <2> QED
    BY Zenon, <1>3, <1>4, <2>2, <2>3 DEF MemoryStates
<1>7. RequestsMatch(n)
  BY Zenon, <1>2, <1>4 DEF RequestsMatch
<1>8. IndexMatches(n) /\ n.bytes = Size(n.tasks, RetainedIds(n.tasks))
  BY <1>2, <1>4, <1>6, ChangeKeepsIndex
<1>9. n.unfinished = Cardinality(UnfinishedIds(n.tasks)) /\ n.unfinished <= m.unfinished
  <2>1. IsFiniteSet(UnfinishedIds(m.tasks)) /\ id \in UnfinishedIds(m.tasks)
    BY Zenon, <1>1, <1>5, RetainedRequests, SizeOfPart, MemoryAssumption DEF UnfinishedIds
  <2>2. UnfinishedIds(n.tasks) = UnfinishedIds(m.tasks) \ {id}
    BY Zenon, <1>2, <1>4 DEF UnfinishedIds
  <2>3. Cardinality(UnfinishedIds(m.tasks) \ {id}) = m.unfinished - 1
    BY Zenon, <1>1, <2>1, SizeByOne DEF CountersMatch
  <2>4. m.unfinished \in Nat /\ m.unfinished # 0
    BY Zenon, <1>1, <2>1, SizeOfNothing, MemoryFields DEF CountersMatch
  <2> QED
    BY <1>4, <2>2, <2>3, <2>4
<1>10. OrderMatches(n)
  <2>1. m.order \in SUBSET (Nat \X Ids) /\ m.ticket \in Nat
    BY Zenon, <1>1, MemoryFields
  <2>2. OrderIds(n.order) = OrderIds(m.order) \cup {id}
    <3>1. <<m.ticket, id>>[2] = id
      BY Zenon
    <3> HIDE DEF n
    <3> QED
      BY Zenon, <1>4, <3>1 DEF OrderIds
  <2>3. \A e \in m.order : e[2] # id /\ e[1] < m.ticket
    BY Zenon, <1>1, <1>5 DEF OrderMatches, OrderIds
  <2>4. \A d, e \in n.order : d[1] = e[1] \/ d[2] = e[2] => d = e
    BY <1>1, <1>4, <2>1, <2>3 DEF OrderMatches
  <2>5. \A e \in n.order : e[1] < n.ticket
    BY <1>4, <2>1, <2>3
  <2> QED
    BY Zenon, <1>1, <1>2, <1>4, <2>2, <2>4, <2>5 DEF OrderMatches
<1> QED
  BY Zenon, <1>4, <1>6, <1>7, <1>8, <1>9, <1>10 DEF n, w, Consistent, CountersMatch

\* The inductive invariant.
StoreInv == TypeOK /\ Consistent(state) /\ LimitsHold

-----------------------------------------------------------------------------
(***************************************************************************)
(* The operations.                                                         *)
(***************************************************************************)

\* The limits of with_limits, of any MemoryState.
WithinLimits(m) ==
    /\ m.bytes <= max_payload_bytes
    /\ m.unfinished <= max_unfinished_records
    /\ Cardinality(m.order) <= history_capacity

\* The invariant after a call that leaves a consistent state within its limits.
LEMMA WriteKeeps ==
    ASSUME StoreInv, Consistent(state'), WithinLimits(state'), failed' \in BOOLEAN,
           UNCHANGED ownership
    PROVE  StoreInv'
<1>1. TypeOK'
  BY Zenon DEF StoreInv, TypeOK, Consistent, ownership
<1>2. LimitsHold'
  BY Zenon DEF LimitsHold, WithinLimits
<1> QED
  BY Zenon, <1>1, <1>2 DEF StoreInv

\* A call that changes nothing but its answer.
LEMMA AnswerKeeps ==
    ASSUME StoreInv, NEW verdict, Answered(verdict)
    PROVE  StoreInv'
<1>1. Consistent(state') /\ WithinLimits(state') /\ failed' \in BOOLEAN /\ UNCHANGED ownership
  BY Zenon DEF Answered, StoreInv, LimitsHold, WithinLimits
<1> QED
  BY Zenon, <1>1, WriteKeeps

\* Removing tasks keeps within the limits.
LEMMA RemoveKeepsLimits ==
    ASSUME SetFacts, NEW m, Consistent(m), WithinLimits(m), NEW ids
    PROVE  WithinLimits(RemoveEncodedTasks(m, ids)) /\ Consistent(RemoveEncodedTasks(m, ids))
<1> DEFINE n == RemoveEncodedTasks(m, ids)
<1>1. /\ Consistent(n) /\ n.bytes <= m.bytes /\ n.unfinished <= m.unfinished
      /\ n.order \subseteq m.order
  BY Zenon, RemoveConsistent
<1> HIDE DEF n
<1>2. /\ {n.bytes, m.bytes, n.unfinished, m.unfinished} \subseteq Nat
  BY Zenon, <1>1, MemoryFields DEF Consistent
<1>3. IsFiniteSet(m.order) /\ Cardinality(m.order) \in Nat /\ Cardinality(n.order) \in Nat
  BY Zenon, <1>1, OrderFinite
<1>4. Cardinality(n.order) <= Cardinality(m.order)
  BY Zenon, <1>1, <1>3, SizeOfPart
<1> QED
  BY <1>1, <1>2, <1>3, <1>4, MemoryAssumption DEF n, WithinLimits

\* An id that is not retained is not touched by a removal, and a key without a
\* holder stays without one.
LEMMA RemoveKeepsVacant ==
    ASSUME NEW m, Consistent(m), NEW ids, NEW id \in Ids, m.tasks[id] = UnbornTask,
           NEW r \in Requests, KeyHolder(m, r) = NoId
    PROVE  /\ RemoveEncodedTasks(m, ids).tasks[id] = UnbornTask
           /\ KeyHolder(RemoveEncodedTasks(m, ids), r) = NoId
<1>1. id \notin RetainedIds(m.tasks)
  BY Zenon, AbsentTasks DEF RetainedIds, Retained, TaskStates, TerminalStates
<1>2. RemoveEncodedTasks(m, ids).tasks[id] = UnbornTask
  BY Zenon, <1>1 DEF RemoveEncodedTasks
<1>3. KeyOf[r] # NoKey => KeyOf[r] \in Keys /\ m.idempotency[KeyOf[r]] = NoId
  BY Zenon DEF KeyHolder, Keys
<1>4. RemoveEncodedTasks(m, ids).idempotency = IndexWithout(m, ids \cap RetainedIds(m.tasks))
  BY Zenon DEF RemoveEncodedTasks
<1>5. KeyHolder(RemoveEncodedTasks(m, ids), r) = NoId
  BY Zenon, <1>3, <1>4 DEF KeyHolder, IndexWithout
<1> QED
  BY Zenon, <1>2, <1>5

\* What the checks of accept_encoded have established when it inserts.
LEMMA AcceptedAnswers ==
    ASSUME NEW m, NEW id, NEW r, AcceptAnswer(m, id, r) = "Ok"
    PROVE  /\ KeyHolder(m, r) = NoId
           /\ ~(m.unfinished >= max_unfinished_records)
           /\ ~(MinimumRetained(m) + SizeOf[r] > max_payload_bytes)
BY Zenon DEF AcceptAnswer

\* accept_encoded makes enough room before it inserts.
LEMMA AcceptMakesRoom ==
    ASSUME SetFacts, StoreInv, NEW id, NEW r \in Requests, AcceptAnswer(state, id, r) = "Ok",
           NEW room, room = max_payload_bytes - SizeOf[r]
    PROVE  RemoveEncodedTasks(state, EvictedForRoom(state, room)).bytes <= room
<1>1. SizeOf[r] \in Nat /\ max_payload_bytes \in Nat /\ room \in Int
  BY MemoryAssumption
<1>2. Consistent(state)
  BY Zenon DEF StoreInv
<1>3. MinimumRetained(state) \in Nat
  <2>1. /\ state \in MemoryStates /\ RequestsMatch(state)
        /\ state.tasks \in [Ids -> StoredTasks] /\ state.bytes \in Nat
    BY Zenon, <1>2, MemoryFields DEF Consistent
  <2>2. Size(state.tasks, OrderIds(state.order) \cap RetainedIds(state.tasks)) \in Nat
    BY Zenon, <2>1, RetainedRequests, SizeNat
  <2> QED
    BY <2>1, <2>2 DEF MinimumRetained
<1>4. ~(MinimumRetained(state) + SizeOf[r] > max_payload_bytes)
  BY Zenon, AcceptedAnswers
<1>5. MinimumRetained(state) <= room
  BY <1>1, <1>3, <1>4
<1> QED
  BY Zenon, <1>1, <1>2, <1>5, RoomIsMade

\* accept_encoded
LEMMA AcceptKeeps ==
    ASSUME SetFacts, StoreInv, NEW id \in Ids, NEW r \in Requests, Accept(id, r, AcceptedAt[id])
    PROVE  StoreInv'
<1> DEFINE room == max_payload_bytes - SizeOf[r]
           evicted == RemoveEncodedTasks(state, EvictedForRoom(state, room))
           now == AcceptedAt[id]
<1>1. CASE AcceptAnswer(state, id, r) # "Ok"
  <2>1. Answered(AcceptAnswer(state, id, r))
    BY Zenon, <1>1 DEF Accept
  <2> QED
    BY Zenon, <2>1, AnswerKeeps
<1>2. CASE AcceptAnswer(state, id, r) = "Ok"
  <2>1. /\ state.tasks[id] = UnbornTask
        /\ state' = IF evicted.bytes > room THEN evicted ELSE Insert(evicted, id, r, now)
        /\ failed' = (evicted.bytes > room)
        /\ UNCHANGED ownership
    BY Zenon, <1>2 DEF Accept
  <2>2. Consistent(state) /\ WithinLimits(state)
    BY Zenon DEF StoreInv, LimitsHold, WithinLimits
  <2>3. Consistent(evicted) /\ WithinLimits(evicted) /\ evicted.unfinished <= state.unfinished
    BY Zenon, <2>2, RemoveKeepsLimits, RemoveConsistent
  <2>4. evicted.tasks[id] = UnbornTask /\ KeyHolder(evicted, r) = NoId
    BY Zenon, <1>2, <2>1, <2>2, AcceptedAnswers, RemoveKeepsVacant
  <2>5. evicted.bytes <= room
    BY Zenon, <1>2, AcceptMakesRoom
  <2>6. {evicted.bytes, evicted.unfinished, state.unfinished} \subseteq Nat
    BY Zenon, <2>2, <2>3, MemoryFields DEF Consistent
  <2>7. SizeOf[r] \in Nat /\ now \in Nat /\ max_payload_bytes \in Nat /\ max_unfinished_records \in Nat
    BY Zenon, MemoryAssumption
  <2> HIDE DEF evicted, now
  <2>8. state' = Insert(evicted, id, r, now)
    BY <2>1, <2>5, <2>6, <2>7
  <2>9. /\ Consistent(state')
        /\ state'.bytes = evicted.bytes + SizeOf[r]
        /\ state'.unfinished = evicted.unfinished + 1
        /\ state'.order = evicted.order
    BY <2>3, <2>4, <2>7, <2>8, InsertConsistent
  <2>10. ~(state.unfinished >= max_unfinished_records)
    BY Zenon, <1>2, AcceptedAnswers
  <2>11. WithinLimits(state')
    BY <2>3, <2>5, <2>6, <2>7, <2>9, <2>10 DEF WithinLimits
  <2>12. failed' \in BOOLEAN
    BY <2>1
  <2> QED
    BY Zenon, <2>1, <2>9, <2>11, <2>12, WriteKeeps
<1> QED
  BY Zenon, <1>1, <1>2

\* A record of a consistent state, field by field.
LEMMA TaskFields ==
    ASSUME NEW m, Consistent(m), NEW id \in Ids
    PROVE  /\ m.tasks[id] \in StoredTasks
           /\ m.tasks[id].summary \in Summaries
           /\ m.tasks[id].accepted \in Nat /\ m.tasks[id].finished \in Nat
           /\ m.tasks[id].progress \in Nat
           /\ Retained(m.tasks[id].summary) => id \in RetainedIds(m.tasks)
<1>1. m.tasks[id] \in StoredTasks
  BY Zenon, MemoryFields DEF Consistent
<1> QED
  BY Zenon, <1>1 DEF StoredTasks, RetainedIds

\* start_encoded
LEMMA StartKeeps ==
    ASSUME StoreInv, NEW id \in Ids, NEW v, Start(id, v)
    PROVE  StoreInv'
<1> DEFINE task == state.tasks[id]
           started == [summary |-> Started(task.summary), request |-> task.request,
                       accepted |-> task.accepted, finished |-> 0, progress |-> 0]
<1>1. CASE StartResult(task.summary, v) # "Ok"
  <2>1. Answered(StartResult(task.summary, v))
    BY Zenon, <1>1 DEF Start
  <2> QED
    BY Zenon, <2>1, AnswerKeeps
<1>2. CASE StartResult(task.summary, v) = "Ok"
  <2>1. Written(WithTask(state, id, started))
    BY Zenon, <1>2 DEF Start
  <2>2. Consistent(state) /\ WithinLimits(state)
    BY Zenon DEF StoreInv, LimitsHold, WithinLimits
  <2>3. /\ task \in StoredTasks /\ task.summary \in Summaries /\ task.accepted \in Nat
        /\ Retained(task.summary) => id \in RetainedIds(state.tasks)
    BY Zenon, <2>2, TaskFields
  <2>4. Retained(task.summary) /\ task.summary.state = "Queued"
    BY Zenon, <1>2 DEF StartResult
  <2>5. Started(task.summary) \in Summaries /\ Started(task.summary).state = "Running"
    BY <2>3 DEF Started, Summaries, TaskStates, RetryStates
  <2>6. started \in StoredTasks
    BY Zenon, <2>3, <2>5 DEF StoredTasks
  <2>7. /\ started.request = task.request /\ Retained(started.summary)
        /\ ~IsTerminal(started.summary.state) /\ ~IsTerminal(task.summary.state)
    BY Zenon, <2>4, <2>5 DEF Retained, IsTerminal, TerminalStates, TaskStates
  <2> HIDE DEF started
  <2>8. Consistent(WithTask(state, id, started))
    BY Zenon, <2>2, <2>3, <2>4, <2>6, <2>7, ChangeConsistent
  <2>9. WithinLimits(WithTask(state, id, started))
    BY Zenon, <2>2 DEF WithTask, WithinLimits
  <2>10. state' = WithTask(state, id, started) /\ failed' \in BOOLEAN /\ UNCHANGED ownership
    BY Zenon, <2>1 DEF Written
  <2> QED
    BY Zenon, <2>8, <2>9, <2>10, WriteKeeps
<1> QED
  BY Zenon, <1>1, <1>2

\* update_encoded_progress
LEMMA ProgressKeeps ==
    ASSUME StoreInv, NEW id \in Ids, NEW attempt, NEW v \in Nat, NEW p,
           UpdateProgress(id, attempt, v, p)
    PROVE  StoreInv'
<1> DEFINE task == state.tasks[id]
           reported == [task EXCEPT !.progress = v]
<1>1. CASE \E verdict : Answered(verdict)
  BY Zenon, <1>1, AnswerKeeps
<1>2. CASE Written(WithTask(state, id, reported)) /\ Retained(task.summary)
  <2>1. Consistent(state) /\ WithinLimits(state)
    BY Zenon DEF StoreInv, LimitsHold, WithinLimits
  <2>2. /\ task \in StoredTasks
        /\ id \in RetainedIds(state.tasks)
    BY Zenon, <1>2, <2>1, TaskFields
  <2>3. /\ reported \in StoredTasks /\ reported.request = task.request
        /\ reported.summary = task.summary
    BY Zenon, <2>2 DEF StoredTasks
  <2> HIDE DEF reported
  <2>4. Consistent(WithTask(state, id, reported))
    BY Zenon, <1>2, <2>1, <2>2, <2>3, ChangeConsistent
  <2>5. WithinLimits(WithTask(state, id, reported))
    BY Zenon, <2>1 DEF WithTask, WithinLimits
  <2>6. state' = WithTask(state, id, reported) /\ failed' \in BOOLEAN /\ UNCHANGED ownership
    BY Zenon, <1>2 DEF Written
  <2> QED
    BY Zenon, <2>4, <2>5, <2>6, WriteKeeps
<1>3. \/ \E verdict : Answered(verdict)
      \/ Written(WithTask(state, id, reported)) /\ Retained(task.summary)
  BY Zenon DEF UpdateProgress
<1> QED
  BY Zenon, <1>1, <1>2, <1>3

\* What transition_encoded requires before it writes.
LEMMA TransitionAllowed ==
    ASSUME NEW task, NEW cmd, NEW output, TransitionAnswer(task, cmd, output) = "Ok"
    PROVE  /\ Retained(task.summary)
           /\ IsTerminal(task.summary.state) => cmd.state = task.summary.state
<1>1. TransitionResult(task.summary, cmd) = "Ok"
  BY Zenon DEF TransitionAnswer
<1>2. /\ Retained(task.summary)
      /\ \/ AllowsTransitionTo(task.summary.state, cmd.state)
         \/ TerminalCancelAnnotation(task.summary, cmd)
  BY Zenon, <1>1 DEF TransitionResult
<1> QED
  BY Zenon, <1>2 DEF AllowsTransitionTo, TerminalCancelAnnotation, IsTerminal, TerminalStates

\* The summary transition_encoded writes.
LEMMA TransitionedSummary ==
    ASSUME NEW rec \in Summaries, NEW cmd, cmd.state \in TaskStates, cmd.retry \in RetryStates,
           cmd.cancel_requested \in BOOLEAN, cmd.cancel_error \in BOOLEAN
    PROVE  Transitioned(rec, cmd) \in Summaries /\ Transitioned(rec, cmd).state = cmd.state
BY DEF Transitioned, Summaries

\* The record transition_encoded writes, and the state before its evictions.
MovedTask(task, cmd, finished) ==
    [summary |-> Transitioned(task.summary, cmd),
     request |-> task.request,
     accepted |-> task.accepted,
     finished |-> IF IsTerminal(cmd.state) THEN finished ELSE task.finished,
     progress |-> task.progress]
Noted(id, cmd, finished) ==
    NewlyFinished(state.tasks[id], WithTask(state, id, MovedTask(state.tasks[id], cmd, finished)), id)

WellTyped(cmd) ==
    /\ cmd.state \in TaskStates /\ cmd.retry \in RetryStates
    /\ cmd.cancel_requested \in BOOLEAN /\ cmd.cancel_error \in BOOLEAN

\* The commands of this module are of that kind.
LEMMA CommandTyped ==
    ASSUME NEW id \in Ids, NEW to \in TaskStates, NEW with
    PROVE  WellTyped(Command(id, to, with))
BY Zenon DEF Command, RetryStates, WellTyped

\* That state: the record is moved, and nothing else is out of step with it.
NotedOK(id, cmd, finished) ==
    LET noted == Noted(id, cmd, finished)
    IN  /\ Consistent(noted) /\ noted.bytes = state.bytes /\ noted.unfinished <= state.unfinished
        /\ noted.tasks = [state.tasks EXCEPT ![id] = MovedTask(state.tasks[id], cmd, finished)]

\* The state is consistent before the evictions of transition_encoded.
LEMMA NotedConsistent ==
    ASSUME SetFacts, StoreInv, NEW id \in Ids, NEW cmd, WellTyped(cmd), NEW output, NEW finished \in Nat,
           TransitionAnswer(state.tasks[id], cmd, output) = "Ok"
    PROVE  NotedOK(id, cmd, finished)
<1> DEFINE task == state.tasks[id]
           moved == MovedTask(task, cmd, finished)
           w == WithTask(state, id, moved)
           noted == NewlyFinished(task, w, id)
<1>1. Noted(id, cmd, finished) = noted
  BY Zenon DEF Noted
<1>2. Consistent(state)
  BY Zenon DEF StoreInv
<1>3. /\ task \in StoredTasks /\ task.summary \in Summaries
      /\ task.accepted \in Nat /\ task.finished \in Nat /\ task.progress \in Nat
      /\ Retained(task.summary) => id \in RetainedIds(state.tasks)
  BY Zenon, <1>2, TaskFields
<1>4. Retained(task.summary) /\ (IsTerminal(task.summary.state) => cmd.state = task.summary.state)
  BY Zenon, TransitionAllowed
<1> DEFINE to == cmd.state
<1>5. /\ to \in TaskStates /\ cmd.retry \in RetryStates
      /\ cmd.cancel_requested \in BOOLEAN /\ cmd.cancel_error \in BOOLEAN
  BY Zenon DEF WellTyped
<1>6. Transitioned(task.summary, cmd) \in Summaries /\ Transitioned(task.summary, cmd).state = to
  BY ZenonT(30), <1>3, <1>5, TransitionedSummary
<1>7. moved \in StoredTasks
  BY Zenon, <1>3, <1>6 DEF StoredTasks, MovedTask
<1>8. moved.request = task.request /\ moved.summary.state = to /\ Retained(moved.summary)
  BY Zenon, <1>5, <1>6 DEF Retained, MovedTask
<1> HIDE DEF moved
<1>9. noted.tasks = [state.tasks EXCEPT ![id] = moved]
  BY Zenon DEF NewlyFinished, WithTask
<1>10. Consistent(noted) /\ noted.bytes = state.bytes /\ noted.unfinished <= state.unfinished
  <2>1. CASE IsTerminal(to) /\ ~IsTerminal(task.summary.state)
    BY Zenon, <1>2, <1>3, <1>4, <1>7, <1>8, <2>1, FinishConsistent
  <2>2. CASE ~(IsTerminal(to) /\ ~IsTerminal(task.summary.state))
    <3>1. IsTerminal(to) <=> IsTerminal(task.summary.state)
      BY Zenon, <1>4, <1>5, <2>2
    <3>2. Consistent(w)
      BY Zenon, <1>2, <1>3, <1>4, <1>7, <1>8, <3>1, ChangeConsistent
    <3>3. w.tasks[id] = moved
      BY Zenon, <1>2, MemoryFields DEF WithTask, Consistent
    <3>4. noted = w
      BY Zenon, <1>8, <2>2, <3>3 DEF NewlyFinished
    <3>5. w.bytes = state.bytes /\ w.unfinished = state.unfinished
      BY Zenon DEF WithTask
    <3>6. state.unfinished \in Nat
      BY Zenon, <1>2, MemoryFields DEF Consistent
    <3> HIDE DEF noted, w
    <3>7. noted.bytes = state.bytes /\ noted.unfinished = state.unfinished /\ Consistent(noted)
      BY Zenon, <3>2, <3>4, <3>5
    <3> QED
      BY <3>6, <3>7
  <2> QED
    BY Zenon, <2>1, <2>2
<1> QED
  BY Zenon, <1>1, <1>9, <1>10 DEF moved, NotedOK

\* transition_encoded, with the state before its evictions named.
LEMMA TransitionWrites ==
    ASSUME NEW id \in Ids, NEW cmd, NEW output, NEW finished, Transition(id, cmd, output, finished)
    PROVE  LET verdict == TransitionAnswer(state.tasks[id], cmd, output)
               noted == Noted(id, cmd, finished)
           IN  \/ verdict # "Ok" /\ Answered(verdict)
               \/ verdict = "Ok" /\ Written(RemoveEncodedTasks(noted, EvictedForHistory(noted)))
BY Zenon DEF Transition, Noted, MovedTask

\* transition_encoded
LEMMA TransitionKeeps ==
    ASSUME SetFacts, StoreInv, NEW id \in Ids, NEW to \in TaskStates, NEW with, NEW output,
           NEW finished \in Nat, Transition(id, Command(id, to, with), output, finished)
    PROVE  StoreInv'
<1>0. PICK cmd : cmd = Command(id, to, with)
  BY Zenon
<1> DEFINE verdict == TransitionAnswer(state.tasks[id], cmd, output)
           noted == Noted(id, cmd, finished)
           n == RemoveEncodedTasks(noted, EvictedForHistory(noted))
<1>1. Answered(verdict) \/ (verdict = "Ok" /\ Written(n))
  <2>1. Transition(id, cmd, output, finished)
    BY Zenon, <1>0
  <2> QED
    BY Zenon, <2>1, TransitionWrites
<1>2. CASE Answered(verdict)
  BY Zenon, <1>2, AnswerKeeps
<1>3. CASE verdict = "Ok" /\ Written(n)
  <2>1. Consistent(state) /\ WithinLimits(state)
    BY Zenon DEF StoreInv, LimitsHold, WithinLimits
  <2>2. Consistent(noted) /\ noted.bytes = state.bytes /\ noted.unfinished <= state.unfinished
    <3>1. WellTyped(cmd)
      BY Zenon, <1>0, CommandTyped
    <3>2. verdict = "Ok"
      BY Zenon, <1>3
    <3>3. NotedOK(id, cmd, finished)
      BY Zenon, <3>1, <3>2, NotedConsistent
    <3> QED
      BY Zenon, <3>3 DEF NotedOK
  <2> HIDE DEF noted
  <2>3. Consistent(n) /\ n.bytes <= noted.bytes /\ n.unfinished <= noted.unfinished
    BY Zenon, <2>2, RemoveConsistent
  <2>4. Cardinality(n.order) <= history_capacity
    BY Zenon, <2>2, HistoryWithinCapacity
  <2>5. state' = n /\ failed' \in BOOLEAN /\ UNCHANGED ownership
    BY Zenon, <1>3 DEF Written
  <2> HIDE DEF n
  <2>6. {n.bytes, noted.bytes, state.bytes, n.unfinished, noted.unfinished, state.unfinished}
            \subseteq Nat
    BY Zenon, <2>1, <2>2, <2>3, MemoryFields DEF Consistent
  <2>7. WithinLimits(n)
    BY <2>1, <2>2, <2>3, <2>4, <2>6, MemoryAssumption DEF WithinLimits
  <2> QED
    BY Zenon, <2>3, <2>5, <2>7, WriteKeeps
<1> QED
  BY Zenon, <1>1, <1>2, <1>3

\* prune_terminal_before, acquire_owner, release_owner and the first state.
LEMMA PruneKeeps ==
    ASSUME SetFacts, StoreInv, NEW cutoff, NEW max_rows, PruneTerminalBefore(cutoff, max_rows)
    PROVE  StoreInv'
<1>1. PICK ids : Written(RemoveEncodedTasks(state, ids))
  BY Zenon DEF PruneTerminalBefore
<1>2. Consistent(state) /\ WithinLimits(state)
  BY Zenon DEF StoreInv, LimitsHold, WithinLimits
<1>3. state' = RemoveEncodedTasks(state, ids) /\ failed' \in BOOLEAN /\ UNCHANGED ownership
  BY Zenon, <1>1 DEF Written
<1>4. Consistent(state') /\ WithinLimits(state')
  BY Zenon, <1>2, <1>3, RemoveKeepsLimits
<1> QED
  BY Zenon, <1>3, <1>4, WriteKeeps

\* The ownership calls touch no record.
LEMMA OwnerKeeps ==
    ASSUME StoreInv, AcquireOwner \/ (\E epoch \in 1 .. EpochBound + 1 : ReleaseOwner(epoch))
    PROVE  StoreInv'
<1>1. CASE \E verdict : Answered(verdict)
  BY Zenon, <1>1, AnswerKeeps
<1>2. CASE ~(\E verdict : Answered(verdict))
  <2>1. /\ UNCHANGED state /\ failed' = FALSE
        /\ \/ owner_epoch' = last_owner_epoch' /\ last_owner_epoch' = last_owner_epoch + 1
           \/ owner_epoch' = 0 /\ last_owner_epoch' = last_owner_epoch
    <3>1. CASE AcquireOwner
      BY Zenon, <1>2, <3>1 DEF AcquireOwner
    <3>2. CASE \E epoch \in 1 .. EpochBound + 1 : ReleaseOwner(epoch)
      <4>1. PICK epoch \in 1 .. EpochBound + 1 : ReleaseOwner(epoch)
        BY Zenon, <3>2
      <4>2. owner_epoch = epoch
        BY <1>2, <4>1, Zenon DEF ReleaseOwner
      <4> QED
        BY Zenon, <4>1, <4>2 DEF ReleaseOwner
    <3> QED
      BY Zenon, <3>1, <3>2
  <2>3. last_owner_epoch \in Nat
    BY Zenon DEF StoreInv, TypeOK
  <2>4. last_owner_epoch' \in Nat /\ owner_epoch' \in 0 .. last_owner_epoch'
    BY <2>1, <2>3
  <2>2. TypeOK' /\ LimitsHold' /\ Consistent(state)'
    BY Zenon, <2>1, <2>4 DEF StoreInv, TypeOK, LimitsHold
  <2> QED
    BY Zenon, <2>2 DEF StoreInv
<1> QED
  BY Zenon, <1>1, <1>2

\* new: an empty store.
LEMMA EmptyConsistent == ASSUME SetFacts PROVE Consistent(EmptyState)
<1> DEFINE m == EmptyState
<1>1. /\ m.tasks = [id \in Ids |-> UnbornTask] /\ m.idempotency = [k \in Keys |-> NoId]
      /\ m.order = {} /\ m.ticket = 1 /\ m.bytes = 0 /\ m.unfinished = 0
  BY Zenon DEF EmptyState
<1>2. UnbornTask \in StoredTasks /\ UnbornTask.summary.state = "Unborn" /\ UnbornTask.request = NoRequest
  BY Zenon, AbsentTasks
<1>3. m \in MemoryStates
  BY Zenon, <1>2 DEF EmptyState, MemoryStates
<1>4. \A id \in Ids : ~Retained(m.tasks[id].summary) /\ ~IsTerminal(m.tasks[id].summary.state)
  BY Zenon, <1>1, <1>2 DEF Retained, IsTerminal, TaskStates, TerminalStates
<1>5. RetainedIds(m.tasks) = {} /\ TerminalIds(m.tasks) = {} /\ UnfinishedIds(m.tasks) = {}
  BY Zenon, <1>4 DEF RetainedIds, TerminalIds, UnfinishedIds
<1>6. RequestsMatch(m)
  BY Zenon, <1>1, <1>2, <1>4 DEF RequestsMatch
<1>7. CountersMatch(m)
  <2>1. Bytes(m.tasks, {}) = {}
    BY Zenon DEF Bytes
  <2>2. Size(m.tasks, RetainedIds(m.tasks)) = Cardinality({})
    BY Zenon, <1>5, <2>1 DEF Size
  <2>3. Cardinality(UnfinishedIds(m.tasks)) = Cardinality({})
    BY Zenon, <1>5
  <2> QED
    BY Zenon, <1>1, <2>2, <2>3, SizeOfNothing DEF CountersMatch
<1>8. OrderMatches(m)
  BY Zenon, <1>1, <1>5 DEF OrderMatches, OrderIds
<1>9. IndexMatches(m)
  BY Zenon, <1>1, <1>5, MemoryAssumption DEF IndexMatches, NoId
<1> QED
  BY Zenon, <1>3, <1>6, <1>7, <1>8, <1>9 DEF Consistent

\* The invariant holds of the new store.
LEMMA InitKeeps == ASSUME SetFacts PROVE Init => StoreInv
<1> SUFFICES ASSUME Init PROVE StoreInv
  BY Zenon
<1>1. state = EmptyState /\ Consistent(state)
  BY Zenon, EmptyConsistent DEF Init
<1>2. TypeOK
  <2>1. state \in MemoryStates /\ RequestsMatch(state)
    BY Zenon, <1>1 DEF Consistent
  <2>2. owner_epoch \in 0 .. last_owner_epoch /\ last_owner_epoch \in Nat
    BY DEF Init
  <2>3. failed \in BOOLEAN
    BY Zenon DEF Init
  <2> QED
    BY Zenon, <2>1, <2>2, <2>3 DEF TypeOK
<1>3. Cardinality({}) = 0
  BY Zenon, SizeOfNothing
<1>4. LimitsHold
  BY <1>1, <1>3, MemoryAssumption DEF LimitsHold, EmptyState
<1> QED
  BY Zenon, <1>1, <1>2, <1>4 DEF StoreInv

\* Every operation preserves the invariant.
LEMMA StepKeeps == ASSUME SetFacts PROVE StoreInv /\ [Next]_vars => StoreInv'
<1> SUFFICES ASSUME StoreInv, [Next]_vars PROVE StoreInv'
  BY Zenon
<1>1. CASE \E id \in Ids, r \in Requests : Accept(id, r, AcceptedAt[id])
  BY Zenon, <1>1, AcceptKeeps
<1>2. CASE \E id \in Ids, v \in {0, 2} : Start(id, v)
  BY Zenon, <1>2, StartKeeps
<1>3. CASE \E id \in Ids, to \in TargetStates, with \in Additions :
               Transition(id, Command(id, to, with), with = "output", FinishedAt[id])
  <2>1. TargetStates \subseteq TaskStates /\ \A id \in Ids : FinishedAt[id] \in Nat
    BY Zenon, MemoryAssumption
  <2> QED
    BY Zenon, <1>3, <2>1, TransitionKeeps
<1>4. CASE \E id \in Ids, v \in 1 .. ProgressBound, p \in Snapshots : UpdateProgress(id, 1, v, p)
  <2>1. 1 .. ProgressBound \subseteq Nat
    BY MemoryAssumption
  <2> QED
    BY Zenon, <1>4, <2>1, ProgressKeeps
<1>5. CASE \E id \in Ids, max_rows \in 1 .. 2 : PruneTerminalBefore(FinishedAt[id] + 1, max_rows)
  BY Zenon, <1>5, PruneKeeps
<1>6. CASE AcquireOwner \/ \E epoch \in 1 .. EpochBound + 1 : ReleaseOwner(epoch)
  BY Zenon, <1>6, OwnerKeeps
<1>7. CASE UNCHANGED vars
  <2>1. TypeOK' /\ LimitsHold' /\ Consistent(state)'
    BY Zenon, <1>7 DEF StoreInv, TypeOK, LimitsHold, vars
  <2> QED
    BY Zenon, <2>1 DEF StoreInv
<1> QED
  BY Zenon, <1>1, <1>2, <1>3, <1>4, <1>5, <1>6, <1>7 DEF Next, Others

\* An accept_encoded that passed its checks never fails afterwards.
LEMMA AcceptDoesNotFailLate ==
    ASSUME SetFacts, StoreInv, NEW id \in Ids, NEW r \in Requests, Accept(id, r, AcceptedAt[id]), failed'
    PROVE  UNCHANGED state
<1> DEFINE room == max_payload_bytes - SizeOf[r]
           evicted == RemoveEncodedTasks(state, EvictedForRoom(state, room))
<1>1. CASE AcceptAnswer(state, id, r) # "Ok"
  BY Zenon, <1>1 DEF Accept, Answered
<1>2. CASE AcceptAnswer(state, id, r) = "Ok"
  <2>1. failed' = (evicted.bytes > room)
    BY Zenon, <1>2 DEF Accept
  <2>2. evicted.bytes <= room
    BY Zenon, <1>2, AcceptMakesRoom
  <2>3. Consistent(evicted)
    BY Zenon, RemoveConsistent DEF StoreInv
  <2> HIDE DEF evicted
  <2>4. evicted.bytes \in Nat /\ room \in Int
    <3>1. evicted.bytes \in Nat
      BY Zenon, <2>3, MemoryFields DEF Consistent
    <3>2. SizeOf[r] \in Nat /\ max_payload_bytes \in Nat
      BY Zenon, MemoryAssumption
    <3> QED
      BY <3>1, <3>2
  <2>5. ~(evicted.bytes > room)
    BY <2>2, <2>4
  <2> QED
    BY Zenon, <2>1, <2>5
<1> QED
  BY Zenon, <1>1, <1>2

\* A call that fails leaves the state alone: accept_encoded does not fail late,
\* and the others check before they write.
LEMMA FailureStep ==
    ASSUME SetFacts, StoreInv, Next, failed'
    PROVE  UNCHANGED state
<1>1. CASE \E id \in Ids, r \in Requests : Accept(id, r, AcceptedAt[id])
  BY Zenon, <1>1, AcceptDoesNotFailLate
<1>2. CASE Others
  <2>1. ASSUME NEW verdict, Answered(verdict) PROVE UNCHANGED state
    BY Zenon, <2>1 DEF Answered
  <2>2. ASSUME NEW m, Written(m) PROVE FALSE
    BY Zenon, <2>2 DEF Written
  <2>3. CASE \E id \in Ids, v \in {0, 2} : Start(id, v)
    BY <2>1, <2>2, <2>3, Zenon DEF Start
  <2>4. CASE \E id \in Ids, to \in TargetStates, with \in Additions :
                 Transition(id, Command(id, to, with), with = "output", FinishedAt[id])
    <3>1. ASSUME NEW id, NEW cmd, NEW output, NEW finished, Transition(id, cmd, output, finished)
          PROVE  (\E verdict : Answered(verdict)) \/ (\E m : Written(m))
      BY Zenon, <3>1 DEF Transition
    <3> QED
      BY Zenon, <2>1, <2>2, <2>4, <3>1
  <2>5. CASE \E id \in Ids, v \in 1 .. ProgressBound, p \in Snapshots : UpdateProgress(id, 1, v, p)
    BY <2>1, <2>2, <2>5, Zenon DEF UpdateProgress
  <2>6. CASE \E id \in Ids, max_rows \in 1 .. 2 : PruneTerminalBefore(FinishedAt[id] + 1, max_rows)
    BY <2>2, <2>6, Zenon DEF PruneTerminalBefore
  <2>7. CASE AcquireOwner \/ \E epoch \in 1 .. EpochBound + 1 : ReleaseOwner(epoch)
    BY <2>1, <2>7, Zenon DEF AcquireOwner, ReleaseOwner
  <2> QED
    BY Zenon, <1>2, <2>3, <2>4, <2>5, <2>6, <2>7 DEF Others
<1> QED
  BY Zenon, <1>1, <1>2 DEF Next

-----------------------------------------------------------------------------
(***************************************************************************)
(* Evictions are frugal.                                                   *)
(***************************************************************************)
\* The entries of the eviction order that accept_encoded pops.
Popped(m, room) ==
    {e \in m.order : m.bytes - Size(m.tasks, OrderIds(OrderBefore(m.order, e))) > room}

\* They are a prefix of the order, they are the ids removed, and with the last
\* of them kept there would be no room.
LEMMA PoppedPrefix ==
    ASSUME SetFacts, NEW m, Consistent(m), NEW room \in Int
    PROVE  /\ EvictedForRoom(m, room) = OrderIds(Popped(m, room))
           /\ \A e \in m.order : e[2] \in EvictedForRoom(m, room) <=> e \in Popped(m, room)
           /\ \A e \in Popped(m, room) : OrderBefore(m.order, e) \subseteq Popped(m, room)
<1> DEFINE popped == Popped(m, room)
           earlier(e) == OrderIds(OrderBefore(m.order, e))
<1>1. /\ m \in MemoryStates /\ RequestsMatch(m) /\ OrderMatches(m)
      /\ m.tasks \in [Ids -> StoredTasks] /\ m.bytes \in Nat
  BY Zenon, MemoryFields DEF Consistent
<1>2. m.order \in SUBSET (Nat \X Ids) /\ \A e \in m.order : Evictable(m, e)
  BY Zenon, OrderFinite
<1>3. EvictedForRoom(m, room) = OrderIds(popped)
  BY Zenon, <1>2 DEF EvictedForRoom, Popped, OrderIds
<1>4. \A e \in m.order : e[2] \in OrderIds(popped) <=> e \in popped
  BY Zenon, <1>1 DEF OrderMatches, OrderIds, Popped
<1>5. ASSUME NEW e \in popped, NEW d \in OrderBefore(m.order, e)
      PROVE  d \in popped
  <2>1. e \in m.order /\ d \in m.order /\ d[1] < e[1]
    BY Zenon DEF Popped, OrderBefore
  <2>2. OrderBefore(m.order, d) \subseteq OrderBefore(m.order, e)
    <3>1. \A f \in m.order : f[1] \in Nat
      BY Zenon, <1>2
    <3> QED
      BY <2>1, <3>1 DEF OrderBefore
  <2>3. earlier(d) \subseteq earlier(e) /\ earlier(e) \subseteq RetainedIds(m.tasks)
    <3>1. earlier(e) \subseteq OrderIds(m.order)
      BY Zenon DEF OrderBefore, OrderIds
    <3>2. OrderIds(m.order) \subseteq RetainedIds(m.tasks)
      BY Zenon, <1>1, RetainedRequests DEF OrderMatches
    <3> QED
      BY Zenon, <2>2, <3>1, <3>2 DEF OrderIds
  <2>4. /\ \A id \in RetainedIds(m.tasks) : m.tasks[id].request \in Requests
        /\ RetainedIds(m.tasks) \subseteq Ids
    BY Zenon, <1>1, RetainedRequests
  <2>5. /\ Size(m.tasks, earlier(d)) <= Size(m.tasks, earlier(e))
        /\ {Size(m.tasks, earlier(d)), Size(m.tasks, earlier(e))} \subseteq Nat
    BY Zenon, <1>1, <2>3, <2>4, SizeMonotone
  <2>6. m.bytes - Size(m.tasks, earlier(e)) > room
    BY Zenon DEF Popped
  <2>7. m.bytes - Size(m.tasks, earlier(d)) > room
    BY <1>1, <2>5, <2>6
  <2> QED
    BY Zenon, <2>1, <2>7 DEF Popped
<1> QED
  BY Zenon, <1>3, <1>4, <1>5

\* With the youngest of the removed tasks kept there would be no room.
LEMMA LastPoppedNeeded ==
    ASSUME SetFacts, NEW m, Consistent(m), NEW room \in Int, NEW e \in Popped(m, room),
           \A d \in Popped(m, room) : d[1] <= e[1]
    PROVE  RemoveEncodedTasks(m, EvictedForRoom(m, room)).bytes + Size(m.tasks, {e[2]}) > room
<1> DEFINE popped == Popped(m, room)
           earlier == OrderIds(OrderBefore(m.order, e))
           n == RemoveEncodedTasks(m, EvictedForRoom(m, room))
<1>1. /\ m \in MemoryStates /\ RequestsMatch(m) /\ OrderMatches(m)
      /\ m.tasks \in [Ids -> StoredTasks] /\ m.bytes \in Nat
  BY Zenon, MemoryFields DEF Consistent
<1>2. m.order \in SUBSET (Nat \X Ids)
  BY Zenon, OrderFinite
<1>3. /\ EvictedForRoom(m, room) = OrderIds(popped)
      /\ OrderBefore(m.order, e) \subseteq popped
  BY Zenon, PoppedPrefix
<1>4. e \in m.order /\ popped \subseteq m.order
  BY Zenon DEF Popped
<1>5. popped = OrderBefore(m.order, e) \cup {e}
  <2>1. ASSUME NEW d \in popped, d # e
        PROVE  d[1] < e[1]
    <3>1. d \in m.order /\ d[1] \in Nat /\ e[1] \in Nat
      BY Zenon, <1>2, <1>4
    <3>2. d[1] # e[1]
      BY Zenon, <1>1, <1>4, <2>1, <3>1 DEF OrderMatches
    <3> QED
      BY <3>1, <3>2
  <2> HIDE DEF popped
  <2>2. popped \subseteq OrderBefore(m.order, e) \cup {e}
    BY Zenon, <1>4, <2>1 DEF OrderBefore
  <2> QED
    BY Zenon, <1>3, <2>2 DEF popped
<1>6. OrderIds(popped) = earlier \cup {e[2]} /\ e[2] \notin earlier
  <2>1. OrderIds(popped) = earlier \cup {e[2]}
    BY <1>5, Zenon DEF OrderIds
  <2>2. ASSUME NEW d \in OrderBefore(m.order, e) PROVE d[2] # e[2]
    <3>1. d \in m.order /\ d[1] < e[1] /\ d[1] \in Nat /\ e[1] \in Nat
      BY Zenon, <1>2, <1>4 DEF OrderBefore
    <3> QED
      BY <1>1, <1>4, <3>1 DEF OrderMatches
  <2> QED
    BY Zenon, <2>1, <2>2 DEF OrderIds
<1>7. OrderIds(popped) \subseteq RetainedIds(m.tasks)
  <2>1. OrderIds(popped) \subseteq OrderIds(m.order)
    BY Zenon, <1>4 DEF OrderIds
  <2>2. OrderIds(m.order) \subseteq RetainedIds(m.tasks)
    BY Zenon, <1>1, RetainedRequests DEF OrderMatches
  <2> QED
    BY Zenon, <2>1, <2>2
<1>8. /\ \A id \in RetainedIds(m.tasks) : m.tasks[id].request \in Requests
      /\ RetainedIds(m.tasks) \subseteq Ids
  BY Zenon, <1>1, RetainedRequests
<1> HIDE DEF popped, earlier
<1>9. /\ Size(m.tasks, earlier \cup {e[2]}) = Size(m.tasks, earlier) + Size(m.tasks, {e[2]})
      /\ Size(m.tasks, earlier) \in Nat /\ Size(m.tasks, {e[2]}) \in Nat
  <2>1. /\ earlier \in SUBSET Ids /\ {e[2]} \in SUBSET Ids
        /\ \A id \in earlier \cup {e[2]} : m.tasks[id].request \in Requests
        /\ earlier \cap {e[2]} = {}
    BY Zenon, <1>6, <1>7, <1>8
  <2> QED
    BY Zenon, <1>1, <2>1, SizeUnion, SizeNat
<1>10. n.bytes = m.bytes - Size(m.tasks, earlier \cup {e[2]})
  <2>1. EvictedForRoom(m, room) \cap RetainedIds(m.tasks) = earlier \cup {e[2]}
    BY Zenon, <1>3, <1>6, <1>7
  <2>2. n.bytes = m.bytes - Size(m.tasks, EvictedForRoom(m, room) \cap RetainedIds(m.tasks))
    BY Zenon, RemoveConsistent
  <2> QED
    BY Zenon, <2>1, <2>2
<1>11. m.bytes - Size(m.tasks, earlier) > room
  BY Zenon DEF Popped, earlier
<1> QED
  BY <1>1, <1>9, <1>10, <1>11

\* What EvictionIsFrugal says of a step.
Frugal ==
    \A id \in RetainedIds(state'.tasks) \ RetainedIds(state.tasks) :
        LET gone == {e \in state.order : e[2] \notin RetainedIds(state'.tasks)}
        IN  \A e \in gone :
                /\ OrderBefore(state.order, e) \subseteq gone
                /\ (\A d \in gone : d[1] <= e[1]) =>
                       state'.bytes + Size(state.tasks, {e[2]}) > max_payload_bytes

\* accept_encoded evicts the oldest tasks, and no more than it needs to.
LEMMA AcceptIsFrugal ==
    ASSUME SetFacts, StoreInv, NEW id \in Ids, NEW r \in Requests, Accept(id, r, AcceptedAt[id])
    PROVE  Frugal
<1> DEFINE room == max_payload_bytes - SizeOf[r]
           evicted == RemoveEncodedTasks(state, EvictedForRoom(state, room))
           now == AcceptedAt[id]
           popped == Popped(state, room)
           gone == {e \in state.order : e[2] \notin RetainedIds(state'.tasks)}
<1>1. CASE AcceptAnswer(state, id, r) # "Ok"
  BY Zenon, <1>1 DEF Accept, Answered, Frugal
<1>2. CASE AcceptAnswer(state, id, r) = "Ok"
  <2>1. /\ state.tasks[id] = UnbornTask
        /\ state' = IF evicted.bytes > room THEN evicted ELSE Insert(evicted, id, r, now)
    BY Zenon, <1>2 DEF Accept
  <2>2. Consistent(state) /\ Consistent(evicted)
    BY Zenon, RemoveConsistent DEF StoreInv
  <2>3. evicted.tasks[id] = UnbornTask /\ KeyHolder(evicted, r) = NoId
    BY ZenonT(30), <1>2, <2>1, <2>2, AcceptedAnswers, RemoveKeepsVacant
  <2>4. evicted.bytes <= room
    BY Zenon, <1>2, AcceptMakesRoom
  <2>5. /\ evicted.bytes \in Nat /\ SizeOf[r] \in Nat /\ now \in Nat
        /\ max_payload_bytes \in Nat /\ room \in Int
    BY <2>2, MemoryFields, MemoryAssumption DEF Consistent
  <2>6. RetainedIds(evicted.tasks)
           = RetainedIds(state.tasks) \ (EvictedForRoom(state, room) \cap RetainedIds(state.tasks))
    BY Zenon, <2>2, RemovedTasks DEF Consistent
  <2>7. OrderIds(state.order) \subseteq RetainedIds(state.tasks)
    BY ZenonT(30), <2>2, RetainedRequests DEF OrderMatches, Consistent
  <2>8. id \notin RetainedIds(state.tasks)
    BY Zenon, <2>1, AbsentTasks DEF RetainedIds, Retained, TaskStates, TerminalStates
  <2>9. /\ \A e \in state.order : e[2] \in EvictedForRoom(state, room) <=> e \in popped
        /\ \A e \in popped : OrderBefore(state.order, e) \subseteq popped
    BY Zenon, <2>2, <2>5, PoppedPrefix
  <2>10. \A e \in popped : (\A d \in popped : d[1] <= e[1]) =>
                               evicted.bytes + Size(state.tasks, {e[2]}) > room
    BY ZenonT(30), <2>2, <2>5, LastPoppedNeeded
  <2>11. popped \subseteq state.order
    BY Zenon DEF Popped
  <2> HIDE DEF evicted, now, popped
  <2>12. state' = Insert(evicted, id, r, now)
    BY <2>1, <2>4, <2>5
  <2>13. /\ state'.bytes = evicted.bytes + SizeOf[r]
         /\ RetainedIds(state'.tasks) = RetainedIds(evicted.tasks) \cup {id}
    <3>1. Insert(evicted, id, r, now).bytes = evicted.bytes + SizeOf[r]
      BY <2>2, <2>3, <2>5, InsertConsistent
    <3>2. RetainedIds(Insert(evicted, id, r, now).tasks) = RetainedIds(evicted.tasks) \cup {id}
      <4>1. evicted.tasks \in [Ids -> StoredTasks]
        BY Zenon, <2>2, MemoryFields DEF Consistent
      <4> QED
        BY Zenon, <4>1 DEF Insert, RetainedIds, Retained, Accepted, TaskStates
    <3> QED
      BY Zenon, <2>12, <3>1, <3>2
  <2>14. gone = popped
    <3>1. \A e \in state.order : e[2] \in RetainedIds(state.tasks) /\ e[2] # id
      BY Zenon, <2>7, <2>8 DEF OrderIds
    <3>2. \A e \in state.order : e[2] \notin RetainedIds(state'.tasks) <=> e \in popped
      BY Zenon, <2>6, <2>9, <2>13, <3>1
    <3> QED
      BY Zenon, <2>11, <3>2
  <2>15. ASSUME NEW e \in popped, \A d \in popped : d[1] <= e[1]
         PROVE  state'.bytes + Size(state.tasks, {e[2]}) > max_payload_bytes
    <3>1. evicted.bytes + Size(state.tasks, {e[2]}) > room
      BY Zenon, <2>10, <2>15
    <3>2. Size(state.tasks, {e[2]}) \in Nat
      <4>1. /\ e[2] \in RetainedIds(state.tasks) /\ RetainedIds(state.tasks) \subseteq Ids
            /\ \A o \in RetainedIds(state.tasks) : state.tasks[o].request \in Requests
            /\ state.tasks \in [Ids -> StoredTasks]
        BY Zenon, <2>2, <2>7, <2>11, RetainedRequests, MemoryFields DEF OrderIds, Consistent
      <4> QED
        BY Zenon, <4>1, SizeNat
    <3> QED
      BY <2>5, <2>13, <3>1, <3>2
  <2>16. ASSUME NEW e \in gone
         PROVE  /\ OrderBefore(state.order, e) \subseteq gone
                /\ (\A d \in gone : d[1] <= e[1]) =>
                       state'.bytes + Size(state.tasks, {e[2]}) > max_payload_bytes
    <3> HIDE DEF gone
    <3> QED
      BY Zenon, <2>9, <2>14, <2>15
  <2> QED
    BY <2>16, Zenon DEF Frugal
<1> QED
  BY Zenon, <1>1, <1>2

\* Only accept_encoded adds a task.
LEMMA OthersAddNothing ==
    ASSUME StoreInv, Others
    PROVE  RetainedIds(state'.tasks) \subseteq RetainedIds(state.tasks)
<1>1. Consistent(state) /\ state.tasks \in [Ids -> StoredTasks]
  BY Zenon, MemoryFields DEF StoreInv, Consistent
<1>2. ASSUME NEW verdict, Answered(verdict)
      PROVE  RetainedIds(state'.tasks) \subseteq RetainedIds(state.tasks)
  BY Zenon, <1>2 DEF Answered
<1>3. ASSUME NEW m, NEW ids
      PROVE  RetainedIds(RemoveEncodedTasks(m, ids).tasks) \subseteq RetainedIds(m.tasks)
  <2>1. ~Retained(AbsentTask.summary)
    BY Zenon, AbsentTasks DEF Retained, TaskStates, TerminalStates
  <2> QED
    BY Zenon, <2>1 DEF RemoveEncodedTasks, RetainedIds
<1>4. ASSUME NEW id \in Ids, NEW task, Retained(state.tasks[id].summary)
      PROVE  RetainedIds(WithTask(state, id, task).tasks) \subseteq RetainedIds(state.tasks)
  BY Zenon, <1>1, <1>4 DEF WithTask, RetainedIds
<1>5. CASE \E id \in Ids, v \in {0, 2} : Start(id, v)
  <2>1. PICK id \in Ids, v \in {0, 2} : Start(id, v)
    BY Zenon, <1>5
  <2>2. \/ Answered(StartResult(state.tasks[id].summary, v))
        \/ /\ Retained(state.tasks[id].summary)
           /\ \E task : Written(WithTask(state, id, task))
    BY Zenon, <2>1 DEF Start, StartResult
  <2> QED
    BY Zenon, <1>2, <1>4, <2>2 DEF Written
<1>6. CASE \E id \in Ids, v \in 1 .. ProgressBound, p \in Snapshots : UpdateProgress(id, 1, v, p)
  <2>1. PICK id \in Ids, v \in 1 .. ProgressBound, p \in Snapshots : UpdateProgress(id, 1, v, p)
    BY Zenon, <1>6
  <2>2. \/ \E verdict : Answered(verdict)
        \/ /\ Retained(state.tasks[id].summary)
           /\ \E task : Written(WithTask(state, id, task))
    BY Zenon, <2>1 DEF UpdateProgress
  <2> QED
    BY Zenon, <1>2, <1>4, <2>2 DEF Written
<1>7. CASE \E id \in Ids, to \in TargetStates, with \in Additions :
               Transition(id, Command(id, to, with), with = "output", FinishedAt[id])
  <2> PICK id \in Ids : \E cmd, output, finished : Transition(id, cmd, output, finished)
    BY Zenon, <1>7
  <2>1. PICK cmd, output, finished : Transition(id, cmd, output, finished)
    BY Zenon
  <2>2. CASE TransitionAnswer(state.tasks[id], cmd, output) # "Ok"
    <3>1. Answered(TransitionAnswer(state.tasks[id], cmd, output))
      BY Zenon, <2>1, <2>2 DEF Transition
    <3> QED
      BY Zenon, <1>2, <3>1
  <2>3. CASE TransitionAnswer(state.tasks[id], cmd, output) = "Ok"
    <3>1. Retained(state.tasks[id].summary)
      BY Zenon, <2>3, TransitionAllowed
    <3>2. \E task : LET noted == NewlyFinished(state.tasks[id], WithTask(state, id, task), id)
                    IN  Written(RemoveEncodedTasks(noted, EvictedForHistory(noted)))
      BY Zenon, <2>1, <2>3 DEF Transition
    <3>3. PICK task : LET noted == NewlyFinished(state.tasks[id], WithTask(state, id, task), id)
                      IN  state' = RemoveEncodedTasks(noted, EvictedForHistory(noted))
      BY Zenon, <3>2 DEF Written
    <3> DEFINE noted == NewlyFinished(state.tasks[id], WithTask(state, id, task), id)
    <3>4. noted.tasks = WithTask(state, id, task).tasks
      BY Zenon DEF NewlyFinished
    <3>5. RetainedIds(noted.tasks) \subseteq RetainedIds(state.tasks)
      BY Zenon, <1>4, <3>1, <3>4
    <3>6. state' = RemoveEncodedTasks(noted, EvictedForHistory(noted))
      BY Zenon, <3>3
    <3> HIDE DEF noted
    <3> QED
      BY Zenon, <1>3, <3>5, <3>6
  <2> QED
    BY Zenon, <2>2, <2>3
<1>8. CASE \E id \in Ids, max_rows \in 1 .. 2 : PruneTerminalBefore(FinishedAt[id] + 1, max_rows)
  <2>1. \E ids : Written(RemoveEncodedTasks(state, ids))
    BY Zenon, <1>8 DEF PruneTerminalBefore
  <2> QED
    BY Zenon, <1>3, <2>1 DEF Written
<1>9. CASE AcquireOwner \/ \E epoch \in 1 .. EpochBound + 1 : ReleaseOwner(epoch)
  <2>1. (\E verdict : Answered(verdict)) \/ UNCHANGED state
    BY <1>9, Zenon DEF AcquireOwner, ReleaseOwner
  <2> QED
    BY Zenon, <1>2, <2>1
<1> QED
  BY Zenon, <1>5, <1>6, <1>7, <1>8, <1>9 DEF Others

\* Only an acceptance removes tasks to make room, the oldest and no more than needed.
LEMMA FrugalStep ==
    ASSUME SetFacts, StoreInv, Next
    PROVE  Frugal
<1>1. CASE \E id \in Ids, r \in Requests : Accept(id, r, AcceptedAt[id])
  BY Zenon, <1>1, AcceptIsFrugal
<1>2. CASE Others
  BY Zenon, <1>2, OthersAddNothing DEF Frugal
<1> QED
  BY Zenon, <1>1, <1>2 DEF Next

-----------------------------------------------------------------------------
(***************************************************************************)
(* The store implements TaskStore.                                         *)
(***************************************************************************)
Summary == [id \in Ids |-> state.tasks[id].summary]
Requested == [id \in Ids |-> state.tasks[id].request]
Progressed == [id \in Ids |-> state.tasks[id].progress]

\* What TaskStore shares with the records.
LEMMA SharedRecords ==
    /\ Abstract!Accepted = Accepted /\ Abstract!Absent = Absent /\ Abstract!Unborn = Unborn
    /\ Abstract!TerminalStates = TerminalStates
    /\ \A s : Abstract!IsTerminal(s) <=> IsTerminal(s)
    /\ \A rec : Abstract!Started(rec) = Started(rec) /\ (Abstract!Retained(rec) <=> Retained(rec))
    /\ \A rec, cmd : /\ Abstract!Transitioned(rec, cmd) = Transitioned(rec, cmd)
                     /\ Abstract!TransitionResult(rec, cmd) = TransitionResult(rec, cmd)
<1>1. Abstract!Accepted = Accepted
  BY Zenon DEF Abstract!Accepted, Accepted
<1>2. Abstract!Absent = Absent /\ Abstract!Unborn = Unborn
  BY Zenon, <1>1 DEF Abstract!Absent, Absent, Abstract!Unborn, Unborn
<1>3. Abstract!TerminalStates = TerminalStates /\ Abstract!TaskStates = TaskStates
  BY Zenon DEF Abstract!TerminalStates, TerminalStates, Abstract!TaskStates, TaskStates
<1>4. \A rec : Abstract!Started(rec) = Started(rec) /\ (Abstract!Retained(rec) <=> Retained(rec))
  BY Zenon, <1>3 DEF Abstract!Started, Started, Abstract!Retained, Retained
<1>5. \A rec, cmd : Abstract!Transitioned(rec, cmd) = Transitioned(rec, cmd)
  BY Zenon DEF Abstract!Transitioned, Transitioned
<1>6. \A s : Abstract!IsTerminal(s) <=> IsTerminal(s)
  BY Zenon, <1>3 DEF Abstract!IsTerminal, IsTerminal
<1>7. ASSUME NEW rec, NEW cmd
      PROVE  Abstract!TransitionResult(rec, cmd) = TransitionResult(rec, cmd)
  <2>1. Abstract!AllowsTransitionTo(rec.state, cmd.state) <=> AllowsTransitionTo(rec.state, cmd.state)
    BY Zenon, <1>3 DEF Abstract!AllowsTransitionTo, AllowsTransitionTo
  <2>2. Abstract!TerminalCancelAnnotation(rec, cmd) <=> TerminalCancelAnnotation(rec, cmd)
    BY Zenon, <1>3 DEF Abstract!TerminalCancelAnnotation, TerminalCancelAnnotation, Abstract!IsTerminal, IsTerminal
  <2> QED
    BY Zenon, <1>4, <2>1, <2>2 DEF Abstract!TransitionResult, TransitionResult
<1> QED
  BY Zenon, <1>1, <1>2, <1>3, <1>4, <1>5, <1>6, <1>7

\* A step leaves these records, without some that are finished.
Leaves(tasks, gone) ==
    /\ \A id \in gone : state'.tasks[id] = AbsentTask /\ IsTerminal(tasks[id].summary.state)
    /\ \A id \in Ids \ gone : state'.tasks[id] = tasks[id]

\* What TaskStore sees of some records.
Seen(tasks, s, r, p) ==
    \A id \in Ids : s[id] = tasks[id].summary /\ r[id] = tasks[id].request /\ p[id] = tasks[id].progress

\* A write of records, after which some that are finished are removed, is an
\* Apply of what was written.
LEMMA Applies ==
    ASSUME NEW tasks, NEW gone \in SUBSET Ids, NEW s, NEW r, NEW p,
           Leaves(tasks, gone), Seen(tasks, s, r, p), UNCHANGED ownership
    PROVE  Abstract!Apply(s, r, p)
<1> DEFINE found == {id \in Ids : IsTerminal(s[id].state) /\ Summary'[id] = Absent}
<1>1. ~IsTerminal(Absent.state)
  BY Zenon DEF Absent, Accepted, IsTerminal, TerminalStates
<1>2. \A id \in gone : /\ Summary'[id] = Absent /\ Requested'[id] = NoRequest /\ Progressed'[id] = 0
  BY DEF Leaves, AbsentTask, Summary, Requested, Progressed
<1>3. \A id \in Ids \ gone : Summary'[id] = s[id] /\ Requested'[id] = r[id] /\ Progressed'[id] = p[id]
  BY Zenon DEF Leaves, Seen, Summary, Requested, Progressed
<1>4. found = gone
  BY Zenon, <1>1, <1>2, <1>3 DEF Leaves, Seen
<1>5. found = {id \in Ids : Abstract!IsTerminal(s[id].state) /\ Summary'[id] = Abstract!Absent}
  BY Zenon, SharedRecords
<1> HIDE DEF found
<1>6. /\ Summary' = [id \in Ids |-> IF id \in found THEN Absent ELSE s[id]]
      /\ Requested' = [id \in Ids |-> IF id \in found THEN NoRequest ELSE r[id]]
      /\ Progressed' = [id \in Ids |-> IF id \in found THEN 0 ELSE p[id]]
  <2>1. PICK new, req, pro : new = Summary' /\ req = Requested' /\ pro = Progressed'
    BY Zenon
  <2>2. /\ new = [id \in Ids |-> new[id]] /\ req = [id \in Ids |-> req[id]] /\ pro = [id \in Ids |-> pro[id]]
    BY Zenon, <2>1 DEF Summary, Requested, Progressed
  <2>3. new = [id \in Ids |-> IF id \in found THEN Absent ELSE s[id]]
    BY Zenon, <1>2, <1>3, <1>4, <2>1, <2>2
  <2>4. req = [id \in Ids |-> IF id \in found THEN NoRequest ELSE r[id]]
    BY Zenon, <1>2, <1>3, <1>4, <2>1, <2>2
  <2>5. pro = [id \in Ids |-> IF id \in found THEN 0 ELSE p[id]]
    BY Zenon, <1>2, <1>3, <1>4, <2>1, <2>2
  <2> QED
    BY <2>1, <2>3, <2>4, <2>5, Zenon
<1>7. Abstract!Absent = Absent
  BY Zenon, SharedRecords
<1>8. owner_epoch' = owner_epoch /\ last_owner_epoch' = last_owner_epoch
  BY Zenon DEF ownership
<1> QED
  BY Zenon, <1>5, <1>6, <1>7, <1>8 DEF Abstract!Apply, Summary, Requested, Progressed

\* Removing finished records is Forget.
LEMMA ForgetImplements ==
    ASSUME StoreInv, NEW ids, ids \subseteq TerminalIds(state.tasks),
           state' = RemoveEncodedTasks(state, ids), UNCHANGED ownership
    PROVE  Abstract!Next
<1>1. Consistent(state) /\ state \in MemoryStates /\ RequestsMatch(state)
  BY Zenon DEF StoreInv, Consistent
<1>2. PICK gone : gone = ids \cap RetainedIds(state.tasks)
  BY Zenon
<1>3. /\ \A id \in Ids \ gone : state'.tasks[id] = state.tasks[id]
      /\ \A id \in gone : state'.tasks[id] = AbsentTask
  BY <1>1, <1>2, RemovedTasks
<1>4. gone \in SUBSET Ids /\ \A id \in gone : IsTerminal(state.tasks[id].summary.state)
  BY Zenon, <1>2 DEF TerminalIds
<1>5. PICK tasks, s, r, p : tasks = state.tasks /\ s = Summary /\ r = Requested /\ p = Progressed
  BY Zenon
<1>6. Leaves(tasks, gone) /\ Seen(tasks, s, r, p)
  BY Zenon, <1>3, <1>4, <1>5 DEF Leaves, Seen, Summary, Requested, Progressed
<1>7. Abstract!Apply(s, r, p)
  BY Zenon, <1>4, <1>6, Applies
<1>8. Abstract!Forget
  BY Zenon, <1>5, <1>7 DEF Abstract!Forget, Abstract!Apply, Summary, Requested, Progressed
<1> QED
  BY Zenon, <1>8 DEF Abstract!Next

\* One record is written, finished ones may be removed with it.
LEMMA OneApplies ==
    ASSUME StoreInv, NEW id \in Ids, NEW task, NEW gone \in SUBSET Ids, NEW s, NEW r, NEW p,
           \A o \in gone : state'.tasks[o] = AbsentTask,
           \A o \in gone \ {id} : IsTerminal(state.tasks[o].summary.state),
           id \in gone => IsTerminal(task.summary.state),
           \A o \in Ids \ (gone \cup {id}) : state'.tasks[o] = state.tasks[o],
           id \notin gone => state'.tasks[id] = task,
           s = [Summary EXCEPT ![id] = task.summary],
           r = [Requested EXCEPT ![id] = task.request],
           p = [Progressed EXCEPT ![id] = task.progress],
           UNCHANGED ownership
    PROVE  Abstract!Apply(s, r, p)
<1>0. DOMAIN state.tasks = Ids
  BY Zenon, MemoryFields DEF StoreInv, Consistent
<1>1. PICK tasks : tasks = [state.tasks EXCEPT ![id] = task]
  BY Zenon
<1>2. tasks[id] = task /\ \A o \in Ids \ {id} : tasks[o] = state.tasks[o]
  BY Zenon, <1>0, <1>1
<1>3. Seen(tasks, s, r, p)
  BY Zenon, <1>2 DEF Seen, Summary, Requested, Progressed
<1>4. Leaves(tasks, gone)
  BY Zenon, <1>2 DEF Leaves
<1> QED
  BY Zenon, <1>3, <1>4, Applies

\* The steps of TaskStore that write one lifecycle record.
LEMMA ChangeIsNext ==
    ASSUME NEW id \in Ids, Summary'[id] # Summary[id],
           \/ Abstract!Accept(id) \/ Abstract!Start(id)
           \/ \E to \in TerminalStates : Abstract!Transition(id, to, FALSE, FALSE, "none")
           \/ /\ Retained(Summary'[id])
              /\ Abstract!Transition(id, Summary'[id].state, Summary'[id].cancel_requested,
                                     Summary'[id].cancel_error, Summary'[id].retry)
    PROVE  Abstract!Next
<1>1. Abstract!TerminalStates = TerminalStates /\ (Abstract!Retained(Summary'[id]) <=> Retained(Summary'[id]))
  BY Zenon, SharedRecords
<1> QED
  BY Zenon, <1>1 DEF Abstract!Next, Summary

\* accept_encoded is Accept: the index has shown that no other retained task has
\* the key of the new one.
LEMMA AcceptImplements ==
    ASSUME SetFacts, StoreInv, StoreInv', NEW id \in Ids, NEW r \in Requests, Accept(id, r, AcceptedAt[id])
    PROVE  Abstract!Next \/ UNCHANGED <<state, ownership>>
<1> DEFINE room == max_payload_bytes - SizeOf[r]
           ids == EvictedForRoom(state, room)
           evicted == RemoveEncodedTasks(state, ids)
           new == [summary |-> Accepted, request |-> r, accepted |-> AcceptedAt[id],
                   finished |-> 0, progress |-> 0]
<1>1. CASE AcceptAnswer(state, id, r) # "Ok"
  BY Zenon, <1>1 DEF Accept, Answered
<1>2. CASE AcceptAnswer(state, id, r) = "Ok"
  <2>1. /\ state.tasks[id] = UnbornTask /\ UNCHANGED ownership
        /\ state' = IF evicted.bytes > room THEN evicted ELSE Insert(evicted, id, r, AcceptedAt[id])
    BY Zenon, <1>2 DEF Accept
  <2>2. Consistent(state) /\ state \in MemoryStates /\ RequestsMatch(state) /\ OrderMatches(state)
    BY Zenon DEF StoreInv, Consistent
  <2>3. evicted.bytes <= room /\ evicted.bytes \in Nat /\ room \in Int
    <3>1. Consistent(evicted)
      BY Zenon, <2>2, RemoveConsistent
    <3>2. SizeOf[r] \in Nat /\ max_payload_bytes \in Nat
      BY Zenon, MemoryAssumption
    <3>3. evicted.bytes \in Nat
      BY Zenon, <3>1, MemoryFields DEF Consistent
    <3>4. evicted.bytes <= room
      BY Zenon, <1>2, AcceptMakesRoom
    <3> HIDE DEF evicted
    <3> QED
      BY <3>2, <3>3, <3>4
  <2>4. ids \subseteq TerminalIds(state.tasks)
    <3>1. ids \subseteq OrderIds(state.order)
      BY Zenon DEF EvictedForRoom, OrderIds
    <3> QED
      BY Zenon, <2>2, <3>1 DEF OrderMatches
  <2>5. PICK gone : gone = ids \cap RetainedIds(state.tasks)
    BY Zenon
  <2>6. /\ \A o \in Ids \ gone : evicted.tasks[o] = state.tasks[o]
        /\ \A o \in gone : evicted.tasks[o] = AbsentTask
        /\ evicted.tasks \in [Ids -> StoredTasks]
    BY ZenonT(30), <2>2, <2>5, RemovedTasks
  <2> HIDE DEF evicted, ids, room
  <2>7. state' = Insert(evicted, id, r, AcceptedAt[id])
    BY <2>1, <2>3
  <2>8. ~Retained(state.tasks[id].summary) /\ state.tasks[id].summary.state = "Unborn" /\ id \notin gone
    BY Zenon, <2>1, <2>5, AbsentTasks DEF RetainedIds, Retained, TaskStates, TerminalStates
  <2>9. state'.tasks = [evicted.tasks EXCEPT ![id] = new]
    BY Zenon, <2>7 DEF Insert
  <2>10. PICK task : task = new
    BY Zenon
  <2>11. task.summary = Accepted /\ task.request = r /\ task.progress = 0
    BY Zenon, <2>10
  <2> HIDE DEF new
  <2>12. gone \in SUBSET Ids /\ \A o \in gone : IsTerminal(state.tasks[o].summary.state)
    BY Zenon, <2>4, <2>5 DEF TerminalIds
  <2>13. /\ state'.tasks[id] = task
         /\ \A o \in gone : state'.tasks[o] = AbsentTask
         /\ \A o \in Ids \ (gone \cup {id}) : state'.tasks[o] = state.tasks[o]
    <3>1. state'.tasks[id] = task /\ \A o \in Ids \ {id} : state'.tasks[o] = evicted.tasks[o]
      BY Zenon, <2>6, <2>9, <2>10
    <3>2. \A o \in gone : o \in Ids \ {id}
      BY Zenon, <2>8, <2>12
    <3> QED
      BY Zenon, <2>6, <3>1, <3>2
  <2>14. PICK s, q, p : /\ s = [Summary EXCEPT ![id] = Accepted]
                        /\ q = [Requested EXCEPT ![id] = r]
                        /\ p = [Progressed EXCEPT ![id] = 0]
    BY Zenon
  <2>15. Abstract!Apply(s, q, p)
    BY Zenon, <2>1, <2>8, <2>11, <2>12, <2>13, <2>14, OneApplies
  <2>16. Summary'[id] = Accepted /\ Requested'[id] = r
    BY Zenon, <2>11, <2>13 DEF Summary, Requested
  <2>17. ASSUME NEW other \in Ids \ {id}, Retained(Summary'[other]), KeyOf[r] # NoKey
         PROVE  KeyOf[Requested'[other]] # KeyOf[r]
    <3>1. IndexMatches(state')
      BY Zenon DEF StoreInv, Consistent
    <3>2. KeyOf[r] \in Keys
      BY Zenon, <2>17 DEF Keys
    <3>3. id \in RetainedIds(state'.tasks) /\ KeyOf[state'.tasks[id].request] = KeyOf[r]
      BY <2>11, <2>13 DEF RetainedIds, Retained, Accepted, TaskStates
    <3>4. other \in RetainedIds(state'.tasks)
      BY Zenon, <2>17 DEF RetainedIds, Summary
    <3>5. Requested'[other] = state'.tasks[other].request
      BY Zenon DEF Requested
    <3> QED
      BY <3>1, <3>2, <3>3, <3>4, <3>5 DEF IndexMatches
  <2>18. ~Abstract!Retained(Summary[id]) /\ Summary'[id] # Summary[id]
    BY <2>8, <2>16, SharedRecords DEF Summary, Accepted
  <2>19. Abstract!Apply([Summary EXCEPT ![id] = Accepted], [Requested EXCEPT ![id] = r],
                        [Progressed EXCEPT ![id] = 0])
    BY <2>14, <2>15 DEF Abstract!Apply
  <2>20. /\ Abstract!Accepted = Accepted
         /\ \A other \in Ids \ {id} :
                Abstract!Retained(Summary'[other]) /\ KeyOf[r] # NoKey => KeyOf[Requested'[other]] # KeyOf[r]
    BY Zenon, <2>17, SharedRecords
  <2>21. Abstract!Accept(id)
    <3>1. Abstract!Apply([Summary EXCEPT ![id] = Abstract!Accepted], [Requested EXCEPT ![id] = Requested'[id]],
                         [Progressed EXCEPT ![id] = 0])
      BY Zenon, <2>16, <2>19, <2>20
    <3>2. /\ Requested'[id] \in Requests
          /\ \A other \in Ids \ {id} :
                 Abstract!Retained(Summary'[other]) /\ KeyOf[Requested'[id]] # NoKey =>
                     KeyOf[Requested'[other]] # KeyOf[Requested'[id]]
      BY Zenon, <2>16, <2>20
    <3> QED
      BY Zenon, <2>18, <3>1, <3>2 DEF Abstract!Accept, Summary, Requested, Progressed
  <2> QED
    BY Zenon, <2>18, <2>21, ChangeIsNext
<1> QED
  BY Zenon, <1>1, <1>2

\* start_encoded is Start.
LEMMA StartImplements ==
    ASSUME StoreInv, NEW id \in Ids, NEW v, Start(id, v)
    PROVE  Abstract!Next \/ UNCHANGED <<state, ownership>>
<1> DEFINE task == state.tasks[id]
           started == [summary |-> Started(task.summary), request |-> task.request,
                       accepted |-> task.accepted, finished |-> 0, progress |-> 0]
<1>1. CASE StartResult(task.summary, v) # "Ok"
  BY Zenon, <1>1 DEF Start, Answered
<1>2. CASE StartResult(task.summary, v) = "Ok"
  <2>1. state' = WithTask(state, id, started) /\ UNCHANGED ownership
    BY Zenon, <1>2 DEF Start, Written
  <2>2. DOMAIN state.tasks = Ids
    BY Zenon, MemoryFields DEF StoreInv, Consistent
  <2>3. state'.tasks = [state.tasks EXCEPT ![id] = started]
    BY Zenon, <2>1 DEF WithTask
  <2>4. PICK new : new = started
    BY Zenon
  <2>5. new.summary = Started(task.summary) /\ new.request = task.request /\ new.progress = 0
    BY Zenon, <2>4
  <2> HIDE DEF started
  <2>6. state'.tasks[id] = new /\ \A o \in Ids \ {id} : state'.tasks[o] = state.tasks[o]
    BY Zenon, <2>2, <2>3, <2>4
  <2>7. PICK s, r, p : /\ s = [Summary EXCEPT ![id] = new.summary]
                       /\ r = [Requested EXCEPT ![id] = new.request]
                       /\ p = [Progressed EXCEPT ![id] = new.progress]
    BY Zenon
  <2>8. PICK gone \in SUBSET Ids : \A o : o \notin gone
    BY Zenon, {} \in SUBSET Ids
  <2>9. Abstract!Apply(s, r, p)
    BY ZenonT(30), <2>1, <2>6, <2>7, <2>8, OneApplies
  <2>10. Summary[id] = task.summary /\ Summary'[id] = Started(task.summary) /\ Summary[id].state = "Queued"
    BY Zenon, <1>2, <2>5, <2>6 DEF Summary, StartResult
  <2>11. /\ s = [Summary EXCEPT ![id] = Abstract!Started(Summary[id])] /\ r = Requested
         /\ p = [Progressed EXCEPT ![id] = 0]
    <3>1. Abstract!Started(Summary[id]) = new.summary
      BY Zenon, <2>5, <2>10, SharedRecords
    <3>2. Requested[id] = new.request /\ Requested = [o \in Ids |-> Requested[o]]
      BY Zenon, <2>5 DEF Requested
    <3>3. [Requested EXCEPT ![id] = new.request] = Requested
      BY Zenon, <3>2
    <3> QED
      BY Zenon, <2>5, <2>7, <3>1, <3>3
  <2>12. Abstract!Start(id)
    BY Zenon, <2>9, <2>10, <2>11 DEF Abstract!Start, Abstract!Apply, Summary, Requested, Progressed
  <2>13. Summary'[id] # Summary[id]
    BY <2>10 DEF Started
  <2> QED
    BY Zenon, <2>12, <2>13, ChangeIsNext
<1> QED
  BY Zenon, <1>1, <1>2

\* update_encoded_progress is Progress.
LEMMA ProgressImplements ==
    ASSUME StoreInv, NEW id \in Ids, NEW attempt, NEW v \in Nat, NEW snapshot,
           UpdateProgress(id, attempt, v, snapshot)
    PROVE  Abstract!Next \/ UNCHANGED <<state, ownership>>
<1> DEFINE task == state.tasks[id]
           reported == [task EXCEPT !.progress = v]
<1>1. \/ \E verdict : Answered(verdict)
      \/ /\ Written(WithTask(state, id, reported))
         /\ task.summary.state = "Running" /\ ~(task.progress >= v)
  BY Zenon DEF UpdateProgress
<1>2. CASE \E verdict : Answered(verdict)
  BY Zenon, <1>2 DEF Answered
<1>3. CASE /\ Written(WithTask(state, id, reported))
           /\ task.summary.state = "Running" /\ ~(task.progress >= v)
  <2>1. state' = WithTask(state, id, reported) /\ UNCHANGED ownership
    BY Zenon, <1>3 DEF Written
  <2>2. DOMAIN state.tasks = Ids /\ task \in StoredTasks
    BY Zenon, MemoryFields DEF StoreInv, Consistent
  <2>3. state'.tasks = [state.tasks EXCEPT ![id] = reported]
    BY Zenon, <2>1 DEF WithTask
  <2>4. PICK new : new = reported
    BY Zenon
  <2>5. new.summary = task.summary /\ new.request = task.request /\ new.progress = v /\ task.progress \in Nat
    BY Zenon, <2>2, <2>4 DEF StoredTasks
  <2> HIDE DEF reported
  <2>6. state'.tasks[id] = new /\ \A o \in Ids \ {id} : state'.tasks[o] = state.tasks[o]
    BY Zenon, <2>2, <2>3, <2>4
  <2>7. PICK s, r, p : /\ s = [Summary EXCEPT ![id] = new.summary]
                       /\ r = [Requested EXCEPT ![id] = new.request]
                       /\ p = [Progressed EXCEPT ![id] = new.progress]
    BY Zenon
  <2>8. PICK gone \in SUBSET Ids : \A o : o \notin gone
    BY Zenon, {} \in SUBSET Ids
  <2>9. Abstract!Apply(s, r, p)
    BY ZenonT(30), <2>1, <2>6, <2>7, <2>8, OneApplies
  <2>10. Summary[id].state = "Running" /\ Progressed'[id] = v /\ Progressed[id] = task.progress
    BY Zenon, <1>3, <2>5, <2>6 DEF Summary, Progressed
  <2>11. s = Summary /\ r = Requested /\ p = [Progressed EXCEPT ![id] = Progressed'[id]]
    <3>1. Summary[id] = new.summary /\ Summary = [o \in Ids |-> Summary[o]]
      BY Zenon, <2>5 DEF Summary
    <3>2. Requested[id] = new.request /\ Requested = [o \in Ids |-> Requested[o]]
      BY Zenon, <2>5 DEF Requested
    <3>3. [Summary EXCEPT ![id] = new.summary] = Summary
      BY Zenon, <3>1
    <3>4. [Requested EXCEPT ![id] = new.request] = Requested
      BY Zenon, <3>2
    <3> QED
      BY Zenon, <2>5, <2>7, <2>10, <3>3, <3>4
  <2>12. Progressed'[id] > Progressed[id]
    BY <1>3, <2>5, <2>10
  <2>13. Abstract!Apply(Summary, Requested, [Progressed EXCEPT ![id] = Progressed'[id]])
    BY <2>9, <2>11 DEF Abstract!Apply
  <2>14. Abstract!Progress(id)
    BY Zenon, <2>10, <2>12, <2>13 DEF Abstract!Progress, Summary, Requested, Progressed
  <2> QED
    BY Zenon, <2>14 DEF Abstract!Next
<1> QED
  BY Zenon, <1>1, <1>2, <1>3

\* The command TaskStore writes with.
Rewrite(rec, to, requested, error, retry) ==
    [state_version |-> rec.state_version, attempt |-> rec.attempt, state |-> to,
     cancel_requested |-> requested, cancel_error |-> error, retry |-> retry,
     diagnostics_valid |-> TRUE]

\* A command that wrote a record, and the one TaskStore reads off the record
\* afterwards, are the same write.
LEMMA SameTransition ==
    ASSUME NEW rec, NEW cmd, NEW new, TransitionResult(rec, cmd) = "Ok", new = Transitioned(rec, cmd)
    PROVE  /\ TransitionResult(rec, Rewrite(rec, new.state, new.cancel_requested, new.cancel_error, new.retry)) = "Ok"
           /\ new = Transitioned(rec, Rewrite(rec, new.state, new.cancel_requested, new.cancel_error, new.retry))
<1>1. PICK again : again = Rewrite(rec, new.state, new.cancel_requested, new.cancel_error, new.retry)
  BY Zenon
<1>2. /\ new.state = cmd.state /\ new.cancel_requested = cmd.cancel_requested
      /\ new.cancel_error = cmd.cancel_error /\ new.retry = cmd.retry
  BY Zenon DEF Transitioned
<1>3. /\ again.state_version = rec.state_version /\ again.attempt = rec.attempt /\ again.diagnostics_valid
      /\ again.state = cmd.state /\ again.cancel_requested = cmd.cancel_requested
      /\ again.cancel_error = cmd.cancel_error /\ again.retry = cmd.retry
  BY Zenon, <1>1, <1>2 DEF Rewrite
<1>4. TransitionResult(rec, again) = "Ok"
  BY Zenon, <1>3 DEF TransitionResult, TerminalCancelAnnotation
<1>5. Transitioned(rec, again) = new
  BY Zenon, <1>3 DEF Transitioned
<1> QED
  BY Zenon, <1>1, <1>4, <1>5

\* A task that finishes may be evicted in the same step.
LEMMA FinishedTransition ==
    ASSUME NEW rec, NEW cmd, TransitionResult(rec, cmd) = "Ok", IsTerminal(cmd.state), ~IsTerminal(rec.state)
    PROVE  LET plain == [state_version |-> rec.state_version, attempt |-> rec.attempt,
                         state |-> cmd.state, cancel_requested |-> FALSE,
                         cancel_error |-> FALSE, retry |-> "none", diagnostics_valid |-> TRUE]
           IN  TransitionResult(rec, plain) = "Ok" /\ Transitioned(rec, plain).state = cmd.state
BY Zenon DEF TransitionResult, TerminalCancelAnnotation, Transitioned

\* A write of a lifecycle record is Transition.
LEMMA TransitionIs ==
    ASSUME NEW id \in Ids, NEW to, NEW requested, NEW error, NEW retry, NEW new, NEW s, NEW r, NEW p,
           TransitionResult(Summary[id], Rewrite(Summary[id], to, requested, error, retry)) = "Ok",
           new = Transitioned(Summary[id], Rewrite(Summary[id], to, requested, error, retry)),
           s = [Summary EXCEPT ![id] = new], r = Requested, p = Progressed, Abstract!Apply(s, r, p)
    PROVE  Abstract!Transition(id, to, requested, error, retry)
<1>1. PICK cmd : cmd = Rewrite(Summary[id], to, requested, error, retry)
  BY Zenon
<1>2. /\ Abstract!TransitionResult(Summary[id], cmd) = "Ok"
      /\ Abstract!Transitioned(Summary[id], cmd) = new
  BY Zenon, <1>1, SharedRecords
<1>3. Abstract!Apply([Summary EXCEPT ![id] = Abstract!Transitioned(Summary[id], cmd)], Requested, Progressed)
  BY <1>2 DEF Abstract!Apply
<1> QED
  BY Zenon, <1>1, <1>2, <1>3 DEF Abstract!Transition, Rewrite, Summary, Requested, Progressed

\* The same for the record the step leaves.
LEMMA TransitionLeaves ==
    ASSUME NEW id \in Ids, NEW t, Summary'[id] = t, NEW s, NEW r, NEW p,
           TransitionResult(Summary[id], Rewrite(Summary[id], t.state, t.cancel_requested, t.cancel_error, t.retry)) = "Ok",
           t = Transitioned(Summary[id], Rewrite(Summary[id], t.state, t.cancel_requested, t.cancel_error, t.retry)),
           s = [Summary EXCEPT ![id] = t], r = Requested, p = Progressed, Abstract!Apply(s, r, p)
    PROVE  Abstract!Transition(id, Summary'[id].state, Summary'[id].cancel_requested,
                               Summary'[id].cancel_error, Summary'[id].retry)
<1>1. PICK cmd : cmd = Rewrite(Summary[id], t.state, t.cancel_requested, t.cancel_error, t.retry)
  BY Zenon
<1>2. /\ Abstract!TransitionResult(Summary[id], cmd) = "Ok"
      /\ Abstract!Transitioned(Summary[id], cmd) = t
  BY Zenon, <1>1, SharedRecords
<1>3. Abstract!Apply([Summary EXCEPT ![id] = Abstract!Transitioned(Summary[id], cmd)], Requested, Progressed)
  BY <1>2 DEF Abstract!Apply
<1>4. cmd = Rewrite(Summary[id], Summary'[id].state, Summary'[id].cancel_requested,
                    Summary'[id].cancel_error, Summary'[id].retry)
  BY Zenon, <1>1
<1> QED
  BY Zenon, <1>2, <1>3, <1>4 DEF Abstract!Transition, Rewrite, Summary, Requested, Progressed

\* transition_encoded is Transition, with the tasks it evicts; a task that is
\* evicted as soon as it is finished is forgotten in that step.
LEMMA TransitionImplements ==
    ASSUME SetFacts, StoreInv, NEW id \in Ids, NEW cmd, WellTyped(cmd), NEW output,
           NEW finished \in Nat, Transition(id, cmd, output, finished)
    PROVE  Abstract!Next \/ UNCHANGED <<state, ownership>>
<1> DEFINE verdict == TransitionAnswer(state.tasks[id], cmd, output)
           noted == Noted(id, cmd, finished)
           ids == EvictedForHistory(noted)
           rec == state.tasks[id].summary
<1>1. Answered(verdict) \/ (verdict = "Ok" /\ Written(RemoveEncodedTasks(noted, ids)))
  BY Zenon, TransitionWrites
<1>2. CASE Answered(verdict)
  BY Zenon, <1>2 DEF Answered
<1>3. CASE verdict = "Ok" /\ Written(RemoveEncodedTasks(noted, ids))
  <2>1. state' = RemoveEncodedTasks(noted, ids) /\ UNCHANGED ownership
    BY Zenon, <1>3 DEF Written
  <2>2. PICK new : new = MovedTask(state.tasks[id], cmd, finished)
    BY Zenon
  <2>3. /\ Consistent(noted) /\ noted \in MemoryStates /\ OrderMatches(noted)
        /\ noted.tasks = [state.tasks EXCEPT ![id] = new]
    <3>1. NotedOK(id, cmd, finished)
      BY Zenon, <1>3, NotedConsistent
    <3> QED
      BY Zenon, <2>2, <3>1 DEF NotedOK, Consistent
  <2>4. ids \subseteq TerminalIds(noted.tasks)
    <3>1. ids \subseteq OrderIds(noted.order)
      BY Zenon DEF EvictedForHistory, OrderIds
    <3> QED
      BY Zenon, <2>3, <3>1 DEF OrderMatches
  <2>5. PICK gone : gone = ids \cap RetainedIds(noted.tasks)
    BY Zenon
  <2>6. /\ \A o \in Ids \ gone : state'.tasks[o] = noted.tasks[o]
        /\ \A o \in gone : state'.tasks[o] = AbsentTask
    <3>1. PICK m : m = noted
      BY Zenon
    <3>2. state' = RemoveEncodedTasks(m, ids) /\ m \in MemoryStates /\ gone = ids \cap RetainedIds(m.tasks)
      BY Zenon, <2>1, <2>3, <2>5, <3>1
    <3> HIDE DEF noted, ids
    <3>3. /\ \A o \in Ids \ gone : state'.tasks[o] = m.tasks[o]
          /\ \A o \in gone : state'.tasks[o] = AbsentTask
      BY <3>2, RemovedTasks
    <3> QED
      BY Zenon, <3>1, <3>3
  <2>7. gone \in SUBSET Ids /\ \A o \in gone : IsTerminal(noted.tasks[o].summary.state)
    BY Zenon, <2>4, <2>5 DEF TerminalIds
  <2> HIDE DEF noted, ids
  <2>8. DOMAIN state.tasks = Ids /\ rec \in Summaries
    BY Zenon, MemoryFields DEF StoreInv, Consistent, StoredTasks
  <2>9. noted.tasks[id] = new /\ \A o \in Ids \ {id} : noted.tasks[o] = state.tasks[o]
    BY Zenon, <2>3, <2>8
  <2>10. /\ \A o \in gone : state'.tasks[o] = AbsentTask
         /\ \A o \in gone \ {id} : IsTerminal(state.tasks[o].summary.state)
         /\ id \in gone => IsTerminal(new.summary.state)
         /\ \A o \in Ids \ (gone \cup {id}) : state'.tasks[o] = state.tasks[o]
         /\ id \notin gone => state'.tasks[id] = new
    BY Zenon, <2>6, <2>7, <2>9
  <2>11. /\ new.summary = Transitioned(rec, cmd) /\ new.request = state.tasks[id].request
         /\ new.progress = state.tasks[id].progress
    BY Zenon, <2>2 DEF MovedTask
  <2>12. Summary[id] = rec
    BY Zenon DEF Summary
  <2>13. [Requested EXCEPT ![id] = new.request] = Requested /\ [Progressed EXCEPT ![id] = new.progress] = Progressed
    <3>1. Requested[id] = new.request /\ Requested = [o \in Ids |-> Requested[o]]
      BY Zenon, <2>11 DEF Requested
    <3>2. [Requested EXCEPT ![id] = new.request] = Requested
      BY Zenon, <3>1
    <3>3. Progressed[id] = new.progress /\ Progressed = [o \in Ids |-> Progressed[o]]
      BY Zenon, <2>11 DEF Progressed
    <3>4. [Progressed EXCEPT ![id] = new.progress] = Progressed
      BY Zenon, <3>3
    <3> QED
      BY Zenon, <3>2, <3>4
  <2>14. TransitionResult(rec, cmd) = "Ok" /\ Retained(rec)
    <3>1. TransitionResult(rec, cmd) = "Ok"
      BY Zenon, <1>3 DEF TransitionAnswer
    <3> QED
      BY Zenon, <3>1 DEF TransitionResult
  <2>15. PICK s, r, p : s = [Summary EXCEPT ![id] = new.summary] /\ r = Requested /\ p = Progressed
    BY Zenon
  <2>16. CASE id \notin gone
    <3>1. /\ new.summary.state = cmd.state /\ new.summary.state_version = rec.state_version + 1
          /\ Summary'[id] = new.summary
      BY <2>10, <2>11, <2>16 DEF Transitioned, Summary
    <3>2. Summary'[id] # Summary[id] /\ Retained(Summary'[id])
      BY <2>8, <2>12, <3>1 DEF Summaries, Retained, WellTyped
    <3>3. Abstract!Apply(s, r, p)
      <4>1. /\ r = [Requested EXCEPT ![id] = new.request] /\ p = [Progressed EXCEPT ![id] = new.progress]
            /\ s = [Summary EXCEPT ![id] = new.summary]
        BY Zenon, <2>13, <2>15
      <4> QED
        BY Zenon, <2>1, <2>7, <2>10, <4>1, OneApplies
    <3>4. PICK t : t = new.summary
      BY Zenon
    <3>5. /\ TransitionResult(Summary[id], Rewrite(Summary[id], t.state, t.cancel_requested, t.cancel_error, t.retry)) = "Ok"
          /\ t = Transitioned(Summary[id], Rewrite(Summary[id], t.state, t.cancel_requested, t.cancel_error, t.retry))
      <4>1. TransitionResult(Summary[id], cmd) = "Ok" /\ t = Transitioned(Summary[id], cmd)
        BY Zenon, <2>11, <2>12, <2>14, <3>4
      <4> QED
        BY ZenonT(30), <4>1, SameTransition
    <3>6. s = [Summary EXCEPT ![id] = t] /\ Summary'[id] = t
      BY Zenon, <2>15, <3>1, <3>4
    <3>7. Abstract!Transition(id, Summary'[id].state, Summary'[id].cancel_requested,
                              Summary'[id].cancel_error, Summary'[id].retry)
      BY Zenon, <2>15, <3>3, <3>5, <3>6, TransitionLeaves
    <3> QED
      BY Zenon, <3>2, <3>7, ChangeIsNext
  <2>17. CASE id \in gone /\ IsTerminal(rec.state)
    <3>1. PICK tasks, was : tasks = state.tasks /\ was = Summary
      BY Zenon
    <3>2. Leaves(tasks, gone)
      BY Zenon, <2>10, <2>17, <3>1 DEF Leaves
    <3>3. Seen(tasks, was, r, p)
      BY Zenon, <2>15, <3>1 DEF Seen, Summary, Requested, Progressed
    <3>4. Abstract!Apply(was, r, p)
      BY Zenon, <2>1, <2>7, <3>2, <3>3, Applies
    <3>5. Abstract!Forget
      BY Zenon, <2>15, <3>1, <3>4 DEF Abstract!Forget, Abstract!Apply, Summary, Requested, Progressed
    <3> QED
      BY Zenon, <3>5 DEF Abstract!Next
  <2>18. CASE id \in gone /\ ~IsTerminal(rec.state)
    <3>1. IsTerminal(cmd.state)
      BY <2>10, <2>11, <2>18 DEF Transitioned
    <3>2. PICK t : t = Transitioned(rec, Rewrite(rec, cmd.state, FALSE, FALSE, "none"))
      BY Zenon
    <3>3. /\ TransitionResult(rec, Rewrite(rec, cmd.state, FALSE, FALSE, "none")) = "Ok"
          /\ t.state = cmd.state
      BY Zenon, <2>14, <2>18, <3>1, <3>2, FinishedTransition DEF Rewrite
    <3>4. PICK plain : plain = [summary |-> t, request |-> new.request, progress |-> new.progress]
      BY Zenon
    <3>5. plain.summary = t /\ plain.request = new.request /\ plain.progress = new.progress
      BY Zenon, <3>4
    <3>6. PICK u : u = [Summary EXCEPT ![id] = t]
      BY Zenon
    <3>7. Abstract!Apply(u, r, p)
      <4>1. /\ u = [Summary EXCEPT ![id] = plain.summary] /\ r = [Requested EXCEPT ![id] = plain.request]
            /\ p = [Progressed EXCEPT ![id] = plain.progress] /\ IsTerminal(plain.summary.state)
        BY Zenon, <2>13, <2>15, <3>1, <3>3, <3>5, <3>6
      <4> QED
        BY ZenonT(30), <2>1, <2>7, <2>10, <2>18, <4>1, OneApplies
    <3>8. PICK to : to = cmd.state
      BY Zenon
    <3>9. Abstract!Transition(id, to, FALSE, FALSE, "none")
      BY Zenon, <2>12, <2>15, <3>2, <3>3, <3>6, <3>7, <3>8, TransitionIs
    <3>10. to \in TerminalStates
      BY Zenon, <3>1, <3>8 DEF IsTerminal
    <3>11. Summary'[id] # Summary[id]
      <4>1. Summary'[id] = Absent
        BY <2>10, <2>18 DEF Summary, AbsentTask
      <4> QED
        BY Zenon, <2>12, <2>14, <4>1 DEF Absent, Accepted, Retained, TaskStates, TerminalStates
    <3> QED
      BY Zenon, <3>9, <3>10, <3>11, ChangeIsNext
  <2> QED
    BY Zenon, <2>16, <2>17, <2>18
<1> QED
  BY Zenon, <1>1, <1>2, <1>3

\* acquire_owner and release_owner.
LEMMA OwnerImplements ==
    ASSUME AcquireOwner \/ (\E epoch \in 1 .. EpochBound + 1 : ReleaseOwner(epoch))
    PROVE  Abstract!Next \/ UNCHANGED <<state, ownership>>
<1>1. CASE AcquireOwner
  <2>1. CASE owner_epoch # 0
    BY Zenon, <1>1, <2>1 DEF AcquireOwner, Answered
  <2>2. CASE owner_epoch = 0
    <3>1. /\ last_owner_epoch' = last_owner_epoch + 1 /\ owner_epoch' = last_owner_epoch' /\ state' = state
      BY Zenon, <1>1, <2>2 DEF AcquireOwner
    <3>2. Abstract!AcquireOwner
      BY Zenon, <2>2, <3>1 DEF Abstract!AcquireOwner
    <3> QED
      BY Zenon, <3>2 DEF Abstract!Next
  <2> QED
    BY Zenon, <2>1, <2>2
<1>2. ASSUME NEW epoch \in 1 .. EpochBound + 1, ReleaseOwner(epoch)
      PROVE  Abstract!Next \/ UNCHANGED <<state, ownership>>
  <2>1. CASE owner_epoch # epoch
    BY Zenon, <1>2, <2>1 DEF ReleaseOwner, Answered
  <2>2. CASE owner_epoch = epoch
    <3>1. /\ owner_epoch # 0 /\ owner_epoch' = 0 /\ last_owner_epoch' = last_owner_epoch /\ state' = state
      BY <1>2, <2>2, MemoryAssumption DEF ReleaseOwner
    <3>2. Abstract!ReleaseOwner
      BY Zenon, <3>1 DEF Abstract!ReleaseOwner
    <3> QED
      BY Zenon, <3>2 DEF Abstract!Next
  <2> QED
    BY Zenon, <2>1, <2>2
<1> QED
  BY Zenon, <1>1, <1>2

\* Every step is one of TaskStore, or leaves everything it describes alone.
LEMMA StepImplements ==
    ASSUME SetFacts, StoreInv, StoreInv', [Next]_vars
    PROVE  Abstract!Next \/ UNCHANGED <<state, ownership>>
<1>1. ASSUME NEW id \in Ids, NEW r \in Requests, Accept(id, r, AcceptedAt[id])
      PROVE  Abstract!Next \/ UNCHANGED <<state, ownership>>
  BY Zenon, <1>1, AcceptImplements
<1>2. ASSUME NEW id \in Ids, NEW v \in {0, 2}, Start(id, v)
      PROVE  Abstract!Next \/ UNCHANGED <<state, ownership>>
  BY Zenon, <1>2, StartImplements
<1>3. ASSUME NEW id \in Ids, NEW to \in TargetStates, NEW with \in Additions,
             Transition(id, Command(id, to, with), with = "output", FinishedAt[id])
      PROVE  Abstract!Next \/ UNCHANGED <<state, ownership>>
  <2>1. to \in TaskStates /\ FinishedAt[id] \in Nat
    BY Zenon, MemoryAssumption
  <2>2. PICK cmd, output, finished :
            cmd = Command(id, to, with) /\ output = (with = "output") /\ finished = FinishedAt[id]
    BY Zenon
  <2>3. Transition(id, cmd, output, finished) /\ WellTyped(cmd) /\ finished \in Nat
    BY Zenon, <1>3, <2>1, <2>2, CommandTyped
  <2> QED
    BY Zenon, <2>3, TransitionImplements
<1>4. ASSUME NEW id \in Ids, NEW v \in 1 .. ProgressBound, NEW p \in Snapshots, UpdateProgress(id, 1, v, p)
      PROVE  Abstract!Next \/ UNCHANGED <<state, ownership>>
  <2>1. v \in Nat
    BY MemoryAssumption
  <2> QED
    BY Zenon, <1>4, <2>1, ProgressImplements
<1>5. ASSUME NEW id \in Ids, NEW max_rows \in 1 .. 2, PruneTerminalBefore(FinishedAt[id] + 1, max_rows)
      PROVE  Abstract!Next
  <2> DEFINE expired == {o \in TerminalIds(state.tasks) :
                            state.tasks[o].finished # 0 /\ state.tasks[o].finished < FinishedAt[id] + 1}
             earlier(x) ==
                 {other \in expired :
                     \/ state.tasks[other].finished < state.tasks[x].finished
                     \/ state.tasks[other].finished = state.tasks[x].finished /\ other < x}
             oldest == {o \in expired : Cardinality(earlier(o)) < max_rows}
  <2>0. oldest \subseteq TerminalIds(state.tasks) /\ Written(RemoveEncodedTasks(state, oldest))
    BY Zenon, <1>5 DEF PruneTerminalBefore
  <2> HIDE DEF oldest
  <2>1. PICK ids : ids \subseteq TerminalIds(state.tasks) /\ Written(RemoveEncodedTasks(state, ids))
    BY Zenon, <2>0
  <2>2. state' = RemoveEncodedTasks(state, ids) /\ UNCHANGED ownership
    BY Zenon, <2>1 DEF Written
  <2> QED
    BY Zenon, <2>1, <2>2, ForgetImplements
<1>6. CASE AcquireOwner \/ \E epoch \in 1 .. EpochBound + 1 : ReleaseOwner(epoch)
  BY Zenon, <1>6, OwnerImplements
<1>7. CASE UNCHANGED vars
  BY Zenon, <1>7 DEF vars, ownership
<1> QED
  BY Zenon, <1>1, <1>2, <1>3, <1>4, <1>5, <1>6, <1>7 DEF Next, Others

\* An empty store is an empty TaskStore.
LEMMA InitImplements ==
    ASSUME Init
    PROVE  Abstract!Init
<1>1. /\ Abstract!Unborn = Unborn /\ owner_epoch = 0 /\ last_owner_epoch = 0
      /\ state.tasks = [id \in Ids |-> UnbornTask]
  BY Zenon, SharedRecords DEF Init, EmptyState
<1>2. /\ UnbornTask.summary = Unborn /\ UnbornTask.request = NoRequest /\ UnbornTask.progress = 0
  BY Zenon DEF UnbornTask
<1> QED
  BY Zenon, <1>1, <1>2 DEF Abstract!Init

\* A step of the store, or none, is a step of a TaskStore, or none.
LEMMA StepsImplement ==
    ASSUME SetFacts, StoreInv, StoreInv', [Next]_vars
    PROVE  [Abstract!Next]_Abstract!svars
<1>1. CASE UNCHANGED <<state, ownership>>
  BY Zenon, <1>1 DEF Abstract!svars, ownership
<1> QED
  BY Zenon, <1>1, StepImplements

-----------------------------------------------------------------------------
(***************************************************************************)
(* Submissions.                                                            *)
(***************************************************************************)
\* What submit does to the store is what any caller of accept may do, so that
\* what is proved of the store holds under a service.
THEOREM SubmissionsUseTheStore == SubmitSpec => Spec
<1>1. SubmitInit => Init
  BY Zenon DEF SubmitInit
<1>2. [SubmitNext]_svars => [Next]_vars
  <2> SUFFICES ASSUME [SubmitNext]_svars PROVE [Next]_vars
    BY Zenon
  <2>1. ASSUME NEW id \in Ids, NEW r \in Requests, Submit(id, r)
        PROVE  Next
    BY Zenon, <2>1 DEF Submit, Next
  <2>2. CASE Others
    BY Zenon, <2>2 DEF Next
  <2>3. CASE UNCHANGED svars
    BY Zenon, <2>3 DEF svars, vars
  <2> QED
    BY Zenon, <2>1, <2>2, <2>3 DEF SubmitNext
<1> QED
  BY <1>1, <1>2, PTL DEF SubmitSpec, Spec

\* encode lets nothing through that the store would call malformed.
LEMMA EncodedIsWellFormed == \A r \in Encodable : r \notin Malformed
BY Zenon, SubmissionAssumption DEF Encodable, Encodes, EncodesPayload

\* The other refusals of accept_encoded are answered, not latched.
LEMMA AnswersDoNotLatch ==
    ASSUME NEW m, NEW id, NEW r, r \notin Malformed
    PROVE  ~SubmissionLatches(AcceptAnswer(m, id, r))
<1>1. AcceptAnswer(m, id, r) \in {"NotFound", "IdempotencyConflict", "Replayed", "DuplicateTask",
                                  "UnfinishedRecordLimitExceeded", "CapacityExceeded", "Ok"}
  BY Zenon DEF AcceptAnswer
<1> QED
  BY Zenon, <1>1 DEF SubmissionLatches, StoreResultLatches

\* No submission latches a fault, whatever it asks for and however full the
\* store is: encode is at least as strict as the store, and
\* submission_store_result knows every refusal of a full one.
THEOREM SubmissionsKeepServing == SubmitSpec => []RefusalsKeepServing
<1>1. SubmitInit => RefusalsKeepServing
  BY Zenon DEF SubmitInit, RefusalsKeepServing
<1>2. RefusalsKeepServing /\ [SubmitNext]_svars => RefusalsKeepServing'
  <2> SUFFICES ASSUME RefusalsKeepServing, [SubmitNext]_svars PROVE RefusalsKeepServing'
    BY Zenon
  <2>1. ASSUME NEW id \in Ids, NEW r \in Requests, Submit(id, r)
        PROVE  service' = service
    <3>1. r \in Encodable /\ service' = IF SubmissionLatches(AcceptAnswer(state, id, r)) THEN "stopping" ELSE service
      BY Zenon, <2>1 DEF Submit
    <3>2. ~SubmissionLatches(AcceptAnswer(state, id, r))
      BY Zenon, <3>1, EncodedIsWellFormed, AnswersDoNotLatch
    <3> QED
      BY Zenon, <3>1, <3>2
  <2>2. service' = service
    BY Zenon, <2>1 DEF SubmitNext, svars
  <2> QED
    BY Zenon, <2>2 DEF RefusalsKeepServing
<1> QED
  BY <1>1, <1>2, PTL DEF SubmitSpec

-----------------------------------------------------------------------------
(***************************************************************************)
(* The conclusions, with the facts about sets from the library.            *)
(***************************************************************************)
Finite == INSTANCE FiniteSetTheorems

\* Finite sets and their sizes are those of the specification.
LEMMA SameSizes ==
    \A S : (IsFiniteSet(S) <=> Finite!IsFiniteSet(S)) /\ Cardinality(S) = Finite!Cardinality(S)
  BY Zenon DEF IsFiniteSet, Finite!IsFiniteSet, Cardinality, Finite!Cardinality

\* A payload of n bytes counts as n, each byte paired with its task.
LEMMA PayloadSizes ==
    ASSUME NEW x, NEW n \in Nat
    PROVE  IsFiniteSet({x} \X (1 .. n)) /\ Cardinality({x} \X (1 .. n)) = n
<1>1. Finite!IsFiniteSet(1 .. n) /\ Finite!Cardinality(1 .. n) = n
  BY Finite!FS_Interval
<1>2. Finite!IsFiniteSet({x}) /\ Finite!Cardinality({x}) = 1
  BY Zenon, Finite!FS_Singleton
<1>3. /\ Finite!IsFiniteSet({x} \X (1 .. n))
      /\ Finite!Cardinality({x} \X (1 .. n)) = Finite!Cardinality({x}) * Finite!Cardinality(1 .. n)
  BY Zenon, <1>1, <1>2, Finite!FS_Product
<1>4. Finite!Cardinality({x} \X (1 .. n)) = n
  BY <1>1, <1>2, <1>3
<1> QED
  BY Zenon, <1>3, <1>4, SameSizes

\* The payloads of finitely many tasks are finitely many bytes.
LEMMA FiniteUnions ==
    ASSUME NEW S, NEW f, IsFiniteSet(S), \A x \in S : IsFiniteSet(f[x])
    PROVE  IsFiniteSet(UNION {f[x] : x \in S})
<1> DEFINE T == {f[x] : x \in S}
<1>1. [x \in S |-> f[x]] \in Finite!Surjection(S, T)
  BY Zenon DEF Finite!Surjection
<1>2. Finite!IsFiniteSet(T)
  BY Zenon, <1>1, SameSizes, Finite!FS_Surjection
<1>3. \A t \in T : Finite!IsFiniteSet(t)
  BY Zenon, SameSizes
<1>4. Finite!IsFiniteSet(UNION T)
  BY Zenon, <1>2, <1>3, Finite!FS_UNION
<1> QED
  BY Zenon, <1>4, SameSizes

\* An order with one entry for each of finitely many ids is finite.
LEMMA FiniteOrders ==
    ASSUME NEW S, NEW T, NEW f \in [S -> T], IsFiniteSet(T), \A x, y \in S : f[x] = f[y] => x = y
    PROVE  IsFiniteSet(S)
<1>1. f \in Finite!Injection(S, T)
  BY Zenon DEF Finite!Injection, Finite!IsInjective
<1> QED
  BY Zenon, <1>1, SameSizes, Finite!FS_Injection

\* Some finished task is the oldest.
LEMMA LeastNumber ==
    ASSUME NEW T \in SUBSET Nat, T # {}
    PROVE  \E n \in T : \A m \in T : n <= m
<1> DEFINE less == {p \in Nat \X Nat : p[1] < p[2]}
<1>1. Finite!IsWellFoundedOn(less, Nat)
  BY Zenon, Finite!NatLessThanWellFounded DEF Finite!OpToRel
<1>2. PICK n \in T : \A m \in T : <<m, n>> \notin less
  <2> HIDE DEF less
  <2> QED
    BY Zenon, <1>1, Finite!WFMin
<1>3. ASSUME NEW m \in T
      PROVE  n <= m
  <2>1. n \in Nat /\ m \in Nat
    BY Zenon
  <2>2. m < n => <<m, n>> \in less
    BY <2>1
  <2>3. ~ (m < n)
    BY Zenon, <1>2, <2>2
  <2> QED
    BY <2>1, <2>3
<1> QED
  BY Zenon, <1>3

\* What the lemmas on counters, evictions and sizes rely on.
LEMMA SetFactsHold == SetFacts
<1>1. SizesAreNumbers /\ EmptyIsZero
  BY Zenon, SameSizes, Finite!FS_CardinalityType, Finite!FS_EmptySet DEF SizesAreNumbers, EmptyIsZero
<1>2. PartsAreSmaller
  BY Zenon, SameSizes, Finite!FS_Subset DEF PartsAreSmaller
<1>3. ElementsCountOne
  BY Zenon, SameSizes, Finite!FS_AddElement, Finite!FS_RemoveElement DEF ElementsCountOne
<1>4. DifferencesSubtract
  BY Zenon, SameSizes, Finite!FS_Difference, Finite!FS_Intersection DEF DifferencesSubtract
<1>5. UnionsAdd
  BY Zenon, SameSizes, Finite!FS_Union DEF UnionsAdd
<1>6. PairsCount
  BY Zenon, PayloadSizes DEF PairsCount
<1>7. UnionsAreFinite
  BY Zenon, FiniteUnions DEF UnionsAreFinite
<1>8. InjectionsAreFinite
  BY Zenon, FiniteOrders DEF InjectionsAreFinite
<1>9. LeastExists
  BY Zenon, LeastNumber DEF LeastExists
<1> QED
  BY Zenon, <1>1, <1>2, <1>3, <1>4, <1>5, <1>6, <1>7, <1>8, <1>9 DEF SetFacts

\* The inductive invariant holds throughout.
THEOREM StoreConsistent == Spec => []StoreInv
<1>1. StoreInv /\ [Next]_vars => StoreInv'
  BY Zenon, SetFactsHold, StepKeeps
<1>2. Init => StoreInv
  BY Zenon, SetFactsHold, InitKeeps
<1> QED
  BY <1>1, <1>2, PTL DEF Spec

\* retained_payload_bytes and unfinished_records, adjusted by a difference in
\* accept_encoded, transition_encoded and remove_encoded_task, always equal the
\* sizes of what the map holds; encoded_terminal_order holds every finished task
\* once and nothing else; encoded_idempotency leads from each key to the retained
\* task accepted with it; and the three limits of with_limits hold.
THEOREM AccountsAreExact == Spec => []AccountingExact
<1>1. StoreInv => AccountingExact
  BY Zenon DEF StoreInv, Consistent, CountersExact, OrderExact, IndexExact, AccountingExact
<1> QED
  BY <1>1, StoreConsistent, PTL

\* A call that returns an error has changed nothing; for accept_encoded this is
\* the agreement of minimum_retained with the evictions that follow it.
THEOREM FailuresChangeNothing == Spec => FailedCallChangesNothing
<1>1. StoreInv /\ [Next]_vars => [failed' => UNCHANGED state]_vars
  BY Zenon, SetFactsHold, FailureStep
<1> QED
  BY <1>1, StoreConsistent, PTL DEF Spec, FailedCallChangesNothing

\* Accepting a task evicts finished tasks oldest first and only as many as the
\* payload of the new task needs.
THEOREM EvictionsAreFrugal == Spec => EvictionIsFrugal
<1>1. StoreInv /\ [Next]_vars => [Frugal]_vars
  BY Zenon, SetFactsHold, FrugalStep
<1>2. Spec => [][Frugal]_vars
  BY <1>1, StoreConsistent, PTL DEF Spec
<1> QED
  BY Zenon, <1>2 DEF EvictionIsFrugal, Frugal

\* MemoryTaskStore is a TaskStore: every call is one atomic step of it, and
\* evictions forget finished tasks only.
THEOREM MemoryImplementsTaskStore == Spec => ImplementsTaskStore
<1>1. Init => Abstract!Init
  BY Zenon, InitImplements
<1>2. StoreInv /\ StoreInv' /\ [Next]_vars => [Abstract!Next]_Abstract!svars
  BY Zenon, SetFactsHold, StepsImplement
<1> QED
  BY <1>1, <1>2, StoreConsistent, PTL DEF Spec, ImplementsTaskStore, Abstract!Spec

\* The counters, the order, the index and the limits under a service.
THEOREM SubmissionsAreAccounted == SubmitSpec => []AccountingExact
BY SubmissionsUseTheStore, AccountsAreExact, PTL

\* Under a service, too, every step of the store is one of TaskStore.
THEOREM SubmissionsImplementTaskStore == SubmitSpec => ImplementsTaskStore
BY SubmissionsUseTheStore, MemoryImplementsTaskStore, PTL

=============================================================================
