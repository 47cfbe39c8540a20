------------------------- MODULE TaskHistory_proofs -------------------------
(***************************************************************************)
(* Both stores answer every history query, every scan for ready tasks and  *)
(* every question for the next deadline alike; a walk along the cursors    *)
(* misses and repeats nothing; and no queued task is out of sight of the   *)
(* scheduler: for any ids, categories, queries, page limits and clocks.    *)
(*                                                                         *)
(* A page is what the order of the cursors makes the first of the tasks    *)
(* that match.  Counting how many come before a task (the ORDER BY ...     *)
(* LIMIT of SQLite) and keeping the smallest in a bounded heap (the memory *)
(* store) both select it, and nothing else has its two properties: it has  *)
(* the right size, and all it contains precedes all it leaves out.         *)
(*                                                                         *)
(* The loops of the program are functions defined by recursion over a      *)
(* range of numbers.  That they are defined, and what they compute, is due *)
(* to the fact that a nonempty set of numbers has a least element.         *)
(***************************************************************************)
EXTENDS TaskHistory, FiniteSetTheorems, WellFoundedInduction, TLAPS

-----------------------------------------------------------------------------
(***************************************************************************)
(* Numbers: the loops.                                                     *)
(***************************************************************************)
\* A set of numbers, such as deadlines, has a least one.
LEMMA LeastNumber ==
    ASSUME NEW T, T \subseteq Nat, T # {}
    PROVE  \E n \in T : \A m \in T : n <= m
<1> DEFINE less == {p \in Nat \X Nat : p[1] < p[2]}
<1>1. IsWellFoundedOn(less, Nat)
  BY Zenon, NatLessThanWellFounded DEF OpToRel
<1>2. PICK n \in T : \A m \in T : <<m, n>> \notin less
  <2> HIDE DEF less
  <2> QED
    BY Zenon, <1>1, WFMin
<1>3. ASSUME NEW m \in T
      PROVE  n <= m
  <2>1. n \in Nat /\ m \in Nat
    BY Zenon
  <2>2. m < n => <<m, n>> \in less
    BY Zenon, <2>1
  <2>3. ~ (m < n)
    BY Zenon, <1>2, <2>2
  <2> QED
    BY <2>1, <2>3
<1> QED
  BY Zenon, <1>3

\* What holds before a loop and is kept by each of its turns holds after each.
LEMMA EveryTurn ==
    ASSUME NEW k \in Nat, NEW T, 0 \in T, \A n \in 1 .. k : n - 1 \in T => n \in T
    PROVE  \A n \in 0 .. k : n \in T
<1> DEFINE bad == {n \in 0 .. k : n \notin T}
<1>1. SUFFICES ASSUME bad # {} PROVE FALSE
  BY Zenon
<1>2. bad \subseteq Nat
  OBVIOUS
<1> HIDE DEF bad
<1>3. PICK n \in bad : \A m \in bad : n <= m
  BY Zenon, <1>1, <1>2, LeastNumber
<1>4. n \in 0 .. k /\ n \notin T
  BY Zenon DEF bad
<1>5. n # 0
  BY Zenon, <1>4
<1>6. n \in 1 .. k /\ n - 1 \in 0 .. k /\ ~ (n <= n - 1)
  BY <1>4, <1>5
<1>7. n - 1 \notin bad
  BY Zenon, <1>3, <1>6
<1>8. n - 1 \in T
  BY Zenon, <1>6, <1>7 DEF bad
<1> QED
  BY Zenon, <1>4, <1>6, <1>8

\* g are the values of a loop before its first turn and after each of k turns.
Values(g, start, turn, k) == g = [n \in 0 .. k |-> IF n = 0 THEN start ELSE turn[<<g[n - 1], n>>]]

\* A loop of k turns computes something.
LEMMA LoopRuns ==
    ASSUME NEW S, NEW start \in S, NEW turn \in [S \X Nat -> S], NEW k \in Nat
    PROVE  \E g \in [0 .. k -> S] : Values(g, start, turn, k)
<1> DEFINE Run(n, g) == Values(g, start, turn, n)
           good == {n \in Nat : \E g \in [0 .. n -> S] : Run(n, g)}
<1>1. 0 \in good
  <2> DEFINE g == [m \in 0 .. 0 |-> start]
  <2>1. g \in [0 .. 0 -> S]
    BY Zenon
  <2>2. \A m \in 0 .. 0 : m = 0
    OBVIOUS
  <2>3. Run(0, g)
    BY Zenon, <2>2 DEF Values
  <2> QED
    BY <2>1, <2>3
<1>2. ASSUME NEW n \in 1 .. k, n - 1 \in good
      PROVE  n \in good
  <2>1. PICK g \in [0 .. n - 1 -> S] : Run(n - 1, g)
    BY Zenon, <1>2
  <2>2. n \in Nat /\ n \in 0 .. n /\ n - 1 \in 0 .. n - 1 /\ n # 0
    OBVIOUS
  <2> DEFINE next == turn[<<g[n - 1], n>>]
             h == [m \in 0 .. n |-> IF m = n THEN next ELSE g[m]]
  <2>3. next \in S
    BY Zenon, <2>2
  <2>4. \A m \in 0 .. n : m # n => m \in 0 .. n - 1
    OBVIOUS
  <2>5. \A m \in 0 .. n : m # 0 => m - 1 \in 0 .. n /\ m - 1 # n
    OBVIOUS
  <2> HIDE DEF next
  <2>6. h \in [0 .. n -> S]
    BY Zenon, <2>3, <2>4
  <2>7. \A m \in 0 .. n - 1 : g[m] = IF m = 0 THEN start ELSE turn[<<g[m - 1], m>>]
    BY Zenon, <2>1 DEF Values
  <2>8. \A m \in 0 .. n : m # n => h[m] = g[m]
    BY Zenon
  <2>9. h[n] = turn[<<h[n - 1], n>>]
    <3>1. h[n] = next
      BY <2>2
    <3>2. h[n - 1] = g[n - 1]
      BY Zenon, <2>2, <2>5, <2>8
    <3> QED
      BY Zenon, <3>1, <3>2 DEF next
  <2>10. ASSUME NEW m \in 0 .. n
         PROVE  h[m] = IF m = 0 THEN start ELSE turn[<<h[m - 1], m>>]
    <3>1. CASE m = n
      BY Zenon, <2>2, <2>9, <3>1
    <3>2. CASE m # n /\ m = 0
      BY Zenon, <2>4, <2>7, <2>8, <3>2
    <3>3. CASE m # n /\ m # 0
      <4>1. h[m] = g[m] /\ h[m - 1] = g[m - 1]
        BY Zenon, <2>5, <2>8, <3>3
      <4> QED
        BY Zenon, <2>4, <2>7, <3>3, <4>1
    <3> QED
      BY Zenon, <3>1, <3>2, <3>3
  <2>11. h = [m \in 0 .. n |-> h[m]]
    BY Zenon
  <2> HIDE DEF h
  <2>12. Run(n, h)
    BY Zenon, <2>10, <2>11 DEF Values
  <2> QED
    BY Zenon, <2>2, <2>6, <2>12
<1> HIDE DEF good
<1>3. k \in good
  <2>1. k \in 0 .. k
    OBVIOUS
  <2> QED
    BY Zenon, <1>1, <1>2, <2>1, EveryTurn
<1> QED
  BY Zenon, <1>3 DEF good

-----------------------------------------------------------------------------
(***************************************************************************)
(* The order of the cursors, and the first of a set of them.               *)
(***************************************************************************)
Cursors == Nat \X Nat

Before(S, c) == {other \in S : Precedes(other, c)}

\* F are the first n of S, or all of S when it has no more.
AreFirst(F, S, n) ==
    /\ F \subseteq S
    /\ \A a \in F, b \in S \ F : Precedes(a, b)
    /\ Cardinality(S) <= n => F = S
    /\ Cardinality(S) > n => Cardinality(F) = n

\* TaskCursor is ordered by time and then by id.
LEMMA CursorOrder ==
    ASSUME NEW a \in Cursors, NEW b \in Cursors, NEW c \in Cursors
    PROVE  /\ ~ Precedes(a, a)
           /\ Precedes(a, b) => ~ Precedes(b, a)
           /\ Precedes(a, b) /\ Precedes(b, c) => Precedes(a, c)
           /\ a # b => Precedes(a, b) \/ Precedes(b, a)
<1>1. PICK a1, a2 \in Nat : a = <<a1, a2>>
  BY DEF Cursors
<1>2. PICK b1, b2 \in Nat : b = <<b1, b2>>
  BY DEF Cursors
<1>3. PICK c1, c2 \in Nat : c = <<c1, c2>>
  BY DEF Cursors
<1> QED
  BY <1>1, <1>2, <1>3 DEF Precedes

\* What precedes another is preceded by fewer.
LEMMA RankGrows ==
    ASSUME NEW S, S \subseteq Cursors, IsFiniteSet(S), NEW a \in S, NEW b \in S, Precedes(a, b)
    PROVE  /\ Cardinality(Before(S, a)) \in Nat /\ Cardinality(Before(S, b)) \in Nat
           /\ Cardinality(Before(S, a)) < Cardinality(Before(S, b))
<1>1. Before(S, b) \in SUBSET S
  BY Zenon DEF Before
<1>2. IsFiniteSet(Before(S, b))
  BY Zenon, <1>1, FS_Subset
<1>3. a \in Before(S, b)
  BY Zenon DEF Before
<1>4. Before(S, a) \in SUBSET (Before(S, b) \ {a})
  BY Zenon, CursorOrder DEF Before
<1>5. /\ IsFiniteSet(Before(S, b) \ {a})
      /\ Cardinality(Before(S, b) \ {a}) = Cardinality(Before(S, b)) - 1
  BY Zenon, <1>2, <1>3, FS_RemoveElement
<1>6. IsFiniteSet(Before(S, a)) /\ Cardinality(Before(S, a)) <= Cardinality(Before(S, b) \ {a})
  BY Zenon, <1>4, <1>5, FS_Subset
<1>7. Cardinality(Before(S, a)) \in Nat /\ Cardinality(Before(S, b)) \in Nat
  BY Zenon, <1>2, <1>6, FS_CardinalityType
<1>8. PICK x, y \in Nat : x = Cardinality(Before(S, a)) /\ y = Cardinality(Before(S, b)) /\ x <= y - 1
  BY Zenon, <1>5, <1>6, <1>7
<1>9. x < y
  BY <1>8
<1> QED
  BY Zenon, <1>7, <1>8, <1>9

\* The number of cursors before one is a number.
LEMMA RankIsNumber ==
    ASSUME NEW S, IsFiniteSet(S), NEW c
    PROVE  /\ IsFiniteSet(Before(S, c)) /\ Cardinality(Before(S, c)) \in Nat
           /\ Cardinality(S) \in Nat /\ Cardinality(Before(S, c)) <= Cardinality(S)
<1>1. Before(S, c) \in SUBSET S
  BY Zenon DEF Before
<1> QED
  BY Zenon, <1>1, FS_Subset, FS_CardinalityType

\* A page has a first record.
LEMMA FirstCursor ==
    ASSUME NEW S, S \subseteq Cursors, IsFiniteSet(S), NEW P \in SUBSET S, P # {}
    PROVE  \E m \in P : \A s \in P : ~ Precedes(s, m)
<1> DEFINE ranks == {Cardinality(Before(S, c)) : c \in P}
<1>1. ranks \subseteq Nat /\ ranks # {}
  BY Zenon, RankIsNumber
<1> HIDE DEF ranks
<1>2. PICK r \in ranks : \A q \in ranks : r <= q
  BY Zenon, <1>1, LeastNumber
<1>3. PICK m \in P : r = Cardinality(Before(S, m))
  BY Zenon DEF ranks
<1>4. ASSUME NEW s \in P, Precedes(s, m)
      PROVE  FALSE
  <2>1. PICK q : q = Cardinality(Before(S, s))
    BY Zenon
  <2>2. q \in Nat /\ r \in Nat /\ q < r
    BY Zenon, <1>3, <1>4, <2>1, RankGrows
  <2>3. r <= q
    BY Zenon, <1>2, <2>1 DEF ranks
  <2> QED
    BY <2>2, <2>3
<1> QED
  BY Zenon, <1>4

\* A page has a last record.
LEMMA LastCursor ==
    ASSUME NEW S, S \subseteq Cursors, IsFiniteSet(S), S # {}
    PROVE  \E m \in S : \A s \in S : ~ Precedes(m, s)
<1> DEFINE rests == {Cardinality(S) - Cardinality(Before(S, c)) : c \in S}
<1>1. rests \subseteq Nat /\ rests # {}
  <2>1. ASSUME NEW c \in S
        PROVE  Cardinality(S) - Cardinality(Before(S, c)) \in Nat
    <3>1. PICK x, y \in Nat : x = Cardinality(S) /\ y = Cardinality(Before(S, c)) /\ y <= x
      BY Zenon, RankIsNumber
    <3>2. x - y \in Nat
      BY <3>1
    <3> QED
      BY Zenon, <3>1, <3>2
  <2> QED
    BY Zenon, <2>1
<1> HIDE DEF rests
<1>2. PICK r \in rests : \A q \in rests : r <= q
  BY Zenon, <1>1, LeastNumber
<1>3. PICK m \in S : r = Cardinality(S) - Cardinality(Before(S, m))
  BY Zenon DEF rests
<1>4. ASSUME NEW s \in S, Precedes(m, s)
      PROVE  FALSE
  <2>1. PICK x, y, z \in Nat : /\ x = Cardinality(S)
                               /\ y = Cardinality(Before(S, m)) /\ z = Cardinality(Before(S, s))
    BY Zenon, RankIsNumber
  <2>2. y < z
    BY Zenon, <1>4, <2>1, RankGrows
  <2>3. x - y <= x - z
    BY Zenon, <1>2, <1>3, <2>1 DEF rests
  <2> QED
    BY <2>2, <2>3
<1> QED
  BY Zenon, <1>4

\* There is one page: what precedes all the rest, in the size asked for.
LEMMA FirstAreUnique ==
    ASSUME NEW S, S \subseteq Cursors, IsFiniteSet(S), NEW n \in Nat,
           NEW F, AreFirst(F, S, n), NEW G, AreFirst(G, S, n)
    PROVE  F = G
<1>1. Cardinality(S) \in Nat
  BY Zenon, FS_CardinalityType
<1>2. CASE Cardinality(S) <= n
  BY Zenon, <1>2 DEF AreFirst
<1>3. CASE Cardinality(S) > n
  <2>1. /\ F \in SUBSET S /\ G \in SUBSET S
        /\ Cardinality(F) = Cardinality(G)
    BY Zenon, <1>3 DEF AreFirst
  <2>2. IsFiniteSet(F) /\ IsFiniteSet(G)
    BY Zenon, <2>1, FS_Subset
  <2>3. CASE F \subseteq G
    BY Zenon, <2>1, <2>2, <2>3, FS_Subset
  <2>4. CASE ~ (F \subseteq G)
    <3>1. PICK a \in F : a \notin G
      BY Zenon, <2>4
    <3>2. ASSUME NEW b \in G, b \notin F
          PROVE  FALSE
      <4>1. Precedes(a, b) /\ Precedes(b, a)
        BY Zenon, <2>1, <3>1, <3>2 DEF AreFirst
      <4>2. a \in Cursors /\ b \in Cursors
        BY Zenon, <2>1
      <4> QED
        BY Zenon, <4>1, <4>2, CursorOrder
    <3>3. G \in SUBSET F
      BY Zenon, <3>2
    <3> QED
      BY Zenon, <2>1, <2>2, <3>1, <3>3, FS_Subset
  <2> QED
    BY Zenon, <2>3, <2>4
<1> QED
  BY <1>1, <1>2, <1>3

\* ORDER BY ... LIMIT n: those with fewer than n before them are the first n.
LEMMA RankedAreFirst ==
    ASSUME NEW S, S \subseteq Cursors, IsFiniteSet(S), NEW n \in Nat
    PROVE  AreFirst({c \in S : Cardinality(Before(S, c)) < n}, S, n)
<1> DEFINE F == {c \in S : Cardinality(Before(S, c)) < n}
<1>1. F \in SUBSET S /\ IsFiniteSet(F) /\ Cardinality(F) \in Nat /\ Cardinality(S) \in Nat
  <2>1. F \in SUBSET S
    BY Zenon
  <2> QED
    BY Zenon, <2>1, FS_Subset, FS_CardinalityType
<1>2. \A c \in F : Cardinality(Before(S, c)) < n
  BY Zenon
<1>3. ASSUME NEW c \in S \ F
      PROVE  n <= Cardinality(Before(S, c))
  <2>1. PICK r \in Nat : r = Cardinality(Before(S, c))
    BY Zenon, RankIsNumber
  <2>2. ~ (r < n)
    BY Zenon, <2>1
  <2>3. n <= r
    BY <2>2
  <2> QED
    BY Zenon, <2>1, <2>3
<1> HIDE DEF F
<1>4. ASSUME NEW a \in F, NEW b \in S \ F
      PROVE  Precedes(a, b)
  <2>1. a \in S /\ b \in S /\ a \in Cursors /\ b \in Cursors /\ a # b
    BY Zenon, <1>1
  <2>2. ASSUME Precedes(b, a)
        PROVE  FALSE
    <3>1. PICK x, y \in Nat : x = Cardinality(Before(S, a)) /\ y = Cardinality(Before(S, b))
      BY Zenon, RankIsNumber
    <3>2. y < x /\ x < n /\ n <= y
      BY Zenon, <1>2, <1>3, <2>1, <2>2, <3>1, RankGrows
    <3> QED
      BY <3>2
  <2> QED
    BY Zenon, <2>1, <2>2, CursorOrder
<1>5. ASSUME Cardinality(S) <= n
      PROVE  F = S
  <2>1. ASSUME NEW c \in S, c \notin F
        PROVE  FALSE
    <3>1. Before(S, c) \in SUBSET (S \ {c})
      BY Zenon, CursorOrder DEF Before
    <3>2. IsFiniteSet(S \ {c}) /\ Cardinality(S \ {c}) = Cardinality(S) - 1
      BY Zenon, FS_RemoveElement
    <3>3. PICK x, y \in Nat : x = Cardinality(Before(S, c)) /\ y = Cardinality(S)
      BY Zenon, RankIsNumber
    <3>4. x <= y - 1 /\ y <= n /\ n <= x
      <4>1. Cardinality(Before(S, c)) <= Cardinality(S \ {c})
        BY Zenon, <3>1, <3>2, FS_Subset
      <4>2. n <= Cardinality(Before(S, c))
        BY Zenon, <1>3, <2>1
      <4> QED
        BY Zenon, <1>5, <3>2, <3>3, <4>1, <4>2
    <3> QED
      BY <3>4
  <2> QED
    BY Zenon, <1>1, <2>1
<1>6. Cardinality(F) <= n
  <2>1. CASE F = {}
    <3>1. Cardinality(F) = 0
      BY Zenon, <2>1, FS_EmptySet
    <3> QED
      BY <3>1
  <2>2. CASE F # {}
    <3>1. F \subseteq Cursors
      BY Zenon, <1>1
    <3>2. PICK m \in F : \A c \in F : ~ Precedes(m, c)
      BY Zenon, <1>1, <2>2, <3>1, LastCursor
    <3>3. F \ {m} \in SUBSET Before(S, m)
      BY Zenon, <1>1, <3>1, <3>2, CursorOrder DEF Before
    <3>4. IsFiniteSet(F \ {m}) /\ Cardinality(F \ {m}) = Cardinality(F) - 1
      BY Zenon, <1>1, FS_RemoveElement
    <3>5. PICK x, y \in Nat : x = Cardinality(Before(S, m)) /\ y = Cardinality(F)
      BY Zenon, <1>1, RankIsNumber
    <3>6. y - 1 <= x /\ x < n
      BY Zenon, <1>2, <3>3, <3>4, <3>5, RankIsNumber, FS_Subset
    <3>7. y <= n
      BY <3>6
    <3> QED
      BY Zenon, <3>5, <3>7
  <2> QED
    BY Zenon, <2>1, <2>2
<1>7. ASSUME Cardinality(S) > n
      PROVE  Cardinality(F) = n
  <2>1. F # S
    BY <1>1, <1>6, <1>7
  <2>2. S \ F \in SUBSET S /\ S \ F # {}
    BY Zenon, <1>1, <2>1
  <2>3. PICK m \in S \ F : \A c \in S \ F : ~ Precedes(c, m)
    BY Zenon, <2>2, FirstCursor
  <2>4. Before(S, m) \in SUBSET F
    BY Zenon, <2>3 DEF Before
  <2>5. PICK x, y \in Nat : x = Cardinality(Before(S, m)) /\ y = Cardinality(F)
    BY Zenon, <1>1, RankIsNumber
  <2>6. n <= x /\ x <= y /\ y <= n
    BY Zenon, <1>1, <1>3, <1>6, <2>4, <2>5, FS_Subset
  <2>7. y = n
    BY <2>6
  <2> QED
    BY Zenon, <2>5, <2>7
<1>8. AreFirst(F, S, n)
  BY Zenon, <1>1, <1>4, <1>5, <1>7 DEF AreFirst
<1> QED
  BY Zenon, <1>8 DEF F

\* One turn of the loop of list_encoded: the heap holds the first n of the keys
\* it was offered, and does so again when it was offered one more.
LEMMA OfferKeepsFirst ==
    ASSUME NEW S, S \subseteq Cursors, IsFiniteSet(S), NEW key \in Cursors, key \notin S,
           NEW n \in Nat, n > 0, NEW H, AreFirst(H, S, n)
    PROVE  AreFirst(HeapOffer(H, key, n), S \cup {key}, n)
<1> DEFINE T == S \cup {key}
<1>1. /\ H \in SUBSET S /\ H \subseteq Cursors /\ key \notin H
      /\ \A a \in H, b \in S \ H : Precedes(a, b)
  BY Zenon DEF AreFirst
<1>2. IsFiniteSet(H) /\ Cardinality(H) \in Nat /\ Cardinality(S) \in Nat /\ Cardinality(H) <= Cardinality(S)
  BY Zenon, <1>1, FS_Subset, FS_CardinalityType
<1>3. Cardinality(T) = Cardinality(S) + 1
  BY Zenon, FS_AddElement
<1>4. PICK h, k \in Nat : /\ h = Cardinality(H) /\ k = Cardinality(S) /\ h <= k
                          /\ k <= n => H = S
                          /\ k > n => h = n
  BY Zenon, <1>2 DEF AreFirst
<1>5. CASE h < n
  <2>1. k <= n
    BY <1>4, <1>5
  <2>2. H = S /\ h = k
    BY Zenon, <1>4, <2>1
  <2>3. k + 1 <= n /\ ~ (k + 1 > n)
    BY <1>5, <2>2
  <2>4. HeapOffer(H, key, n) = T
    BY Zenon, <1>4, <1>5, <2>2 DEF HeapOffer
  <2> QED
    BY Zenon, <1>3, <1>4, <2>3, <2>4 DEF AreFirst
<1>6. CASE ~ (h < n)
  <2>1. h = n /\ k + 1 > n /\ ~ (k + 1 <= n) /\ h > 0
    <3>1. h >= n /\ k >= n
      BY <1>4, <1>6
    <3>2. CASE k = n
      BY <1>4, <3>1, <3>2
    <3>3. CASE k > n
      BY <1>4, <3>3
    <3> QED
      BY <3>1, <3>2, <3>3
  <2>2. H # {}
    <3>1. H = {} => h = 0
      BY Zenon, <1>4, FS_EmptySet
    <3> QED
      BY <2>1, <3>1
  <2> DEFINE largest == CHOOSE c \in H : \A other \in H : ~ Precedes(c, other)
  <2>3. largest \in H /\ \A other \in H : ~ Precedes(largest, other)
    BY Zenon, <1>1, <1>2, <2>2, LastCursor
  <2>4. HeapOffer(H, key, n)
            = IF Precedes(key, largest) THEN (H \ {largest}) \cup {key} ELSE H
    BY Zenon, <1>4, <1>6 DEF HeapOffer
  <2> HIDE DEF largest
  <2>5. \A a \in H : a = largest \/ Precedes(a, largest)
    BY Zenon, <1>1, <2>3, CursorOrder
  <2>6. largest \in Cursors /\ largest # key
    BY Zenon, <1>1, <2>3
  <2>7. CASE Precedes(key, largest)
    <3> DEFINE G == (H \ {largest}) \cup {key}
    <3>1. G \subseteq T
      BY Zenon, <1>1
    <3>2. ASSUME NEW a \in G, NEW b \in T \ G
          PROVE  Precedes(a, b)
      <4>1. b \in S /\ b \in Cursors /\ a \in Cursors /\ (b = largest \/ b \in S \ H)
        BY Zenon, <1>1, <3>2
      <4>2. CASE b = largest
        BY Zenon, <2>5, <2>7, <4>2
      <4>3. CASE b \in S \ H
        <5>1. Precedes(largest, b)
          BY Zenon, <1>1, <2>3, <4>3
        <5>2. a = key \/ a \in H
          BY Zenon
        <5> QED
          BY Zenon, <1>1, <2>6, <2>7, <4>1, <4>3, <5>1, <5>2, CursorOrder
      <4> QED
        BY Zenon, <4>1, <4>2, <4>3
    <3>3. Cardinality(G) = n
      <4>1. IsFiniteSet(H \ {largest}) /\ Cardinality(H \ {largest}) = h - 1 /\ key \notin H \ {largest}
        BY Zenon, <1>1, <1>2, <1>4, <2>3, FS_RemoveElement
      <4>2. Cardinality(G) = h - 1 + 1
        BY Zenon, <4>1, FS_AddElement
      <4>3. h - 1 + 1 = n
        BY <2>1
      <4> QED
        BY Zenon, <4>2, <4>3
    <3> HIDE DEF G
    <3>4. AreFirst(G, T, n)
      BY Zenon, <1>3, <1>4, <2>1, <3>1, <3>2, <3>3 DEF AreFirst
    <3> QED
      BY Zenon, <2>4, <2>7, <3>4 DEF G
  <2>8. CASE ~ Precedes(key, largest)
    <3>1. Precedes(largest, key)
      BY Zenon, <2>6, <2>8, CursorOrder
    <3>2. \A a \in H : Precedes(a, key)
      BY Zenon, <1>1, <2>5, <2>6, <3>1, CursorOrder
    <3>3. AreFirst(H, T, n)
      BY Zenon, <1>1, <1>3, <1>4, <2>1, <3>2 DEF AreFirst
    <3> QED
      BY Zenon, <2>4, <2>8, <3>3
  <2> QED
    BY Zenon, <2>7, <2>8
<1> QED
  BY Zenon, <1>5, <1>6

-----------------------------------------------------------------------------
(***************************************************************************)
(* The page of the memory store.                                           *)
(***************************************************************************)
RowType == [state : TaskStates \cup {"Unborn", "Removed"}, accepted : Nat, retry : Nat]

RowsTyped == row \in [Ids -> RowType]

KeysOf(ids) == {CursorOf(id) : id \in ids}

\* Every task has a cursor of its own.
LEMMA CursorFacts ==
    ASSUME RowsTyped, NEW id \in Ids
    PROVE  /\ CursorOf(id) \in Cursors /\ CursorOf(id)[1] = row[id].accepted /\ CursorOf(id)[2] = id
           /\ id \in Nat /\ id > 0 /\ row[id].accepted \in Nat /\ row[id].retry \in Nat
<1>1. id \in Nat \ {0}
  BY Zenon, HistoryAssumption
<1>2. row[id].accepted \in Nat /\ row[id].retry \in Nat
  BY Zenon DEF RowsTyped, RowType
<1>3. id \in Nat /\ id > 0
  BY <1>1
<1> QED
  BY Zenon, <1>2, <1>3 DEF Cursors, CursorOf

\* Keys are as many as tasks.
LEMMA KeyFacts ==
    ASSUME RowsTyped, NEW ids \in SUBSET Ids
    PROVE  /\ IsFiniteSet(ids) /\ KeysOf(ids) \subseteq Cursors /\ IsFiniteSet(KeysOf(ids))
           /\ Cardinality(KeysOf(ids)) = Cardinality(ids)
<1>1. IsFiniteSet(ids)
  BY Zenon, HistoryAssumption, FS_Subset
<1>2. [id \in ids |-> CursorOf(id)] \in Bijection(ids, KeysOf(ids))
  <2> DEFINE f == [id \in ids |-> CursorOf(id)]
  <2>1. f \in [ids -> KeysOf(ids)]
    BY Zenon DEF KeysOf
  <2>2. \A a, b \in ids : f[a] = f[b] => a = b
    BY Zenon, CursorFacts
  <2>3. \A t \in KeysOf(ids) : \E a \in ids : f[a] = t
    BY Zenon DEF KeysOf
  <2> HIDE DEF f
  <2>4. f \in Injection(ids, KeysOf(ids))
    BY Zenon, <2>1, <2>2 DEF Injection, IsInjective
  <2>5. f \in Surjection(ids, KeysOf(ids))
    BY Zenon, <2>1, <2>3 DEF Surjection
  <2> QED
    BY Zenon, <2>4, <2>5 DEF Bijection, f
<1>3. ExistsBijection(ids, KeysOf(ids))
  BY Zenon, <1>2 DEF ExistsBijection
<1>4. KeysOf(ids) \subseteq Cursors
  BY Zenon, CursorFacts DEF KeysOf
<1> QED
  BY Zenon, <1>1, <1>3, <1>4, FS_Bijection

\* Some task has the largest id.
LEMMA LargestId ==
    ASSUME NEW ids \in SUBSET Ids, ids # {}
    PROVE  \E n \in ids : \A id \in ids : id <= n
<1> DEFINE keys == {<<0, id>> : id \in ids}
           f == [id \in ids |-> <<0, id>>]
<1>1. IsFiniteSet(ids) /\ ids \subseteq Nat
  BY Zenon, HistoryAssumption, FS_Subset
<1>2. f \in Surjection(ids, keys)
  BY Zenon DEF Surjection
<1>3. IsFiniteSet(keys)
  <2> HIDE DEF f, keys
  <2> QED
    BY Zenon, <1>1, <1>2, FS_Surjection
<1>4. keys \subseteq Cursors /\ keys # {}
  <2>1. \A id \in Nat : <<0, id>> \in Nat \X Nat
    OBVIOUS
  <2> QED
    BY Zenon, <1>1, <2>1 DEF Cursors
<1>5. PICK m \in keys : \A s \in keys : ~ Precedes(m, s)
  <2> HIDE DEF keys
  <2> QED
    BY Zenon, <1>3, <1>4, LastCursor
<1>6. PICK n \in ids : m = <<0, n>>
  BY Zenon
<1>7. ASSUME NEW id \in ids
      PROVE  id <= n
  <2>1. ~ Precedes(<<0, n>>, <<0, id>>)
    BY Zenon, <1>5, <1>6
  <2>2. n \in Nat /\ id \in Nat
    BY Zenon, <1>1
  <2> QED
    BY <2>1, <2>2 DEF Precedes
<1> QED
  BY Zenon, <1>7

\* The loop of list_encoded ends with the first n keys of the candidates.
LEMMA HeapHoldsFirst ==
    ASSUME RowsTyped, NEW candidates \in SUBSET Ids, NEW limit \in Nat, limit > 0
    PROVE  AreFirst(HeapOf(candidates, limit), KeysOf(candidates), limit)
<1> DEFINE last == IF candidates = {} THEN 0
                   ELSE CHOOSE n \in candidates : \A id \in candidates : id <= n
           Body(g) == [n \in 0 .. last |->
                          IF n = 0 THEN {}
                          ELSE IF n \in candidates THEN HeapOffer(g[n - 1], CursorOf(n), limit)
                          ELSE g[n - 1]]
           heap == CHOOSE g : g = Body(g)
           upto(n) == {id \in candidates : id <= n}
<1>1. HeapOf(candidates, limit) = heap[last]
  BY Zenon DEF HeapOf
<1>2. last \in Nat /\ \A id \in candidates : id <= last
  <2>1. CASE candidates = {}
    BY Zenon, <2>1
  <2>2. CASE candidates # {}
    <3>1. last \in candidates /\ \A id \in candidates : id <= last
      BY Zenon, <2>2, LargestId
    <3> QED
      BY Zenon, <3>1, HistoryAssumption
  <2> QED
    BY Zenon, <2>1, <2>2
<1> HIDE DEF last
<1>3. \E g : g = Body(g)
  <2> DEFINE turn == [p \in (SUBSET Cursors) \X Nat |->
                         IF p[2] \in candidates THEN HeapOffer(p[1], CursorOf(p[2]), limit) ELSE p[1]]
  <2>1. ASSUME NEW H \in SUBSET Cursors, NEW n \in Nat
        PROVE  /\ turn[<<H, n>>] = IF n \in candidates THEN HeapOffer(H, CursorOf(n), limit) ELSE H
               /\ turn[<<H, n>>] \in SUBSET Cursors
    <3>1. <<H, n>> \in (SUBSET Cursors) \X Nat /\ <<H, n>>[1] = H /\ <<H, n>>[2] = n
      BY Zenon
    <3>2. turn[<<H, n>>] = IF n \in candidates THEN HeapOffer(H, CursorOf(n), limit) ELSE H
      BY Zenon, <3>1
    <3>3. ASSUME n \in candidates
          PROVE  HeapOffer(H, CursorOf(n), limit) \in SUBSET Cursors
      <4>1. CursorOf(n) \in Cursors
        BY Zenon, <3>3, CursorFacts
      <4> QED
        BY Zenon, <4>1 DEF HeapOffer
    <3> QED
      BY Zenon, <3>2, <3>3
  <2>2. turn \in [(SUBSET Cursors) \X Nat -> SUBSET Cursors]
    <3>1. ASSUME NEW p \in (SUBSET Cursors) \X Nat
          PROVE  turn[p] \in SUBSET Cursors
      <4> HIDE DEF turn
      <4>1. PICK H \in SUBSET Cursors, n \in Nat : p = <<H, n>>
        OBVIOUS
      <4> QED
        BY Zenon, <2>1, <4>1
    <3> QED
      BY Zenon, <3>1
  <2> HIDE DEF turn
  <2>3. PICK S, start : S = SUBSET Cursors /\ start = {}
    BY Zenon
  <2>7. start \in S /\ turn \in [S \X Nat -> S]
    BY Zenon, <2>2, <2>3
  <2>4. PICK g \in [0 .. last -> S] : Values(g, start, turn, last)
    BY Zenon, <1>2, <2>7, LoopRuns
  <2>5. ASSUME NEW n \in 0 .. last, n # 0
        PROVE  turn[<<g[n - 1], n>>]
                   = IF n \in candidates THEN HeapOffer(g[n - 1], CursorOf(n), limit) ELSE g[n - 1]
    <3>1. n \in Nat /\ n - 1 \in 0 .. last
      BY <1>2, <2>5
    <3> QED
      BY Zenon, <2>1, <2>3, <3>1
  <2>6. g = Body(g)
    BY Zenon, <2>3, <2>4, <2>5 DEF Values
  <2> QED
    BY Zenon, <2>6
<1>4. heap = Body(heap)
  BY Zenon, <1>3
<1> HIDE DEF heap
<1> DEFINE good == {n \in 0 .. last : AreFirst(heap[n], KeysOf(upto(n)), limit)}
<1>5. 0 \in good
  <2>1. 0 \in 0 .. last
    BY <1>2
  <2>2. heap[0] = {}
    BY Zenon, <1>4, <2>1
  <2>3. upto(0) = {}
    <3>1. \A n \in Nat \ {0} : ~ (n <= 0)
      OBVIOUS
    <3> QED
      BY Zenon, <3>1, HistoryAssumption
  <2>4. KeysOf(upto(0)) = {}
    BY Zenon, <2>3 DEF KeysOf
  <2>5. Cardinality({}) = 0 /\ 0 <= limit /\ ~ (0 > limit)
    <3>1. Cardinality({}) = 0
      BY Zenon, FS_EmptySet
    <3> QED
      BY <3>1
  <2>6. AreFirst({}, {}, limit)
    BY Zenon, <2>5 DEF AreFirst
  <2> QED
    BY Zenon, <2>1, <2>2, <2>4, <2>6
<1>6. ASSUME NEW n \in 1 .. last, n - 1 \in good
      PROVE  n \in good
  <2>1. n \in 0 .. last /\ n # 0 /\ n \in Nat /\ n - 1 \in Nat
    BY <1>2
  <2>2. AreFirst(heap[n - 1], KeysOf(upto(n - 1)), limit)
    BY Zenon, <1>6
  <2>3. heap[n] = IF n \in candidates THEN HeapOffer(heap[n - 1], CursorOf(n), limit) ELSE heap[n - 1]
    BY Zenon, <1>4, <2>1
  <2> DEFINE prior == {id \in candidates : id <= n - 1}
  <2>6. \A id \in candidates : (id <= n <=> id <= n - 1 \/ id = n) /\ ~ (n <= n - 1)
    <3>1. \A id \in Nat : (id <= n <=> id <= n - 1 \/ id = n) /\ ~ (n <= n - 1)
      BY <2>1
    <3> QED
      BY Zenon, <3>1, HistoryAssumption
  <2>7. upto(n - 1) = prior
    BY Zenon
  <2>4. CASE n \notin candidates
    <3>1. upto(n) = prior
      BY Zenon, <2>4, <2>6
    <3> QED
      BY Zenon, <2>1, <2>2, <2>3, <2>4, <2>7, <3>1
  <2>5. CASE n \in candidates
    <3>1. upto(n) = prior \cup {n} /\ n \notin prior /\ prior \in SUBSET Ids
      BY Zenon, <2>5, <2>6
    <3> HIDE DEF upto, prior
    <3>2. /\ KeysOf(upto(n)) = KeysOf(prior) \cup {CursorOf(n)}
          /\ CursorOf(n) \notin KeysOf(prior) /\ CursorOf(n) \in Cursors
      <4>1. KeysOf(upto(n)) = KeysOf(prior) \cup {CursorOf(n)}
        BY Zenon, <3>1 DEF KeysOf
      <4>2. ASSUME NEW id \in prior PROVE CursorOf(n) # CursorOf(id)
        BY Zenon, <2>5, <3>1, CursorFacts
      <4>3. CursorOf(n) \in Cursors
        BY Zenon, <2>5, CursorFacts
      <4> QED
        BY Zenon, <4>1, <4>2, <4>3 DEF KeysOf
    <3>3. KeysOf(prior) \subseteq Cursors /\ IsFiniteSet(KeysOf(prior))
      BY Zenon, <3>1, KeyFacts
    <3>5. AreFirst(HeapOffer(heap[n - 1], CursorOf(n), limit), KeysOf(prior) \cup {CursorOf(n)}, limit)
      <4>1. AreFirst(heap[n - 1], KeysOf(prior), limit)
        BY Zenon, <2>2, <2>7
      <4> QED
        BY Zenon, <3>2, <3>3, <4>1, OfferKeepsFirst
    <3>4. AreFirst(HeapOffer(heap[n - 1], CursorOf(n), limit), KeysOf(upto(n)), limit)
      BY Zenon, <3>2, <3>5
    <3> QED
      BY Zenon, <2>1, <2>3, <2>5, <3>4
  <2> QED
    BY Zenon, <2>4, <2>5
<1>7. last \in 0 .. last /\ upto(last) = candidates
  <2>1. last \in 0 .. last
    BY <1>2
  <2> QED
    BY Zenon, <1>2, <2>1
<1>8. last \in good
  <2> HIDE DEF good
  <2> QED
    BY Zenon, <1>2, <1>5, <1>6, <1>7, EveryTurn
<1> QED
  BY Zenon, <1>1, <1>7, <1>8

-----------------------------------------------------------------------------
(***************************************************************************)
(* The text of an id.                                                      *)
(***************************************************************************)
\* Each digit is split off what the digits behind it leave.
LEMMA QuotientFacts ==
    ASSUME NEW id \in Nat
    PROVE  /\ Quotients(id) \in [0 .. IdWidth -> Nat]
           /\ Quotients(id)[0] = id
           /\ \A k \in 1 .. IdWidth : Quotients(id)[k] = Quotients(id)[k - 1] \div 10
<1> DEFINE Body(g) == [k \in 0 .. IdWidth |-> IF k = 0 THEN id ELSE g[k - 1] \div 10]
           q == CHOOSE g : g = Body(g)
           turn == [p \in Nat \X Nat |-> p[1] \div 10]
<1>1. Quotients(id) = q
  BY Zenon DEF Quotients
<1>2. \A n, m \in Nat : turn[<<n, m>>] = n \div 10
  BY Zenon
<1>3. turn \in [Nat \X Nat -> Nat]
  OBVIOUS
<1> HIDE DEF turn
<1>4. PICK g \in [0 .. IdWidth -> Nat] : Values(g, id, turn, IdWidth)
  BY Zenon, <1>3, WidthAssumption, LoopRuns
<1>5. ASSUME NEW k \in 0 .. IdWidth, k # 0
      PROVE  turn[<<g[k - 1], k>>] = g[k - 1] \div 10
  <2>1. k - 1 \in 0 .. IdWidth /\ k \in Nat
    BY <1>5, WidthAssumption
  <2> QED
    BY Zenon, <1>2, <2>1
<1>6. g = Body(g)
  BY Zenon, <1>4, <1>5 DEF Values
<1>7. q = Body(q)
  BY Zenon, <1>6
<1> HIDE DEF q
<1>8. 0 \in 0 .. IdWidth /\ \A k \in 1 .. IdWidth : k \in 0 .. IdWidth /\ k # 0 /\ k - 1 \in 0 .. IdWidth
  BY WidthAssumption
<1>9. q[0] = id /\ \A k \in 1 .. IdWidth : q[k] = q[k - 1] \div 10
  BY Zenon, <1>7, <1>8
<1>10. \A k \in 0 .. IdWidth : q[k] \in Nat
  <2> DEFINE good == {k \in 0 .. IdWidth : q[k] \in Nat}
  <2>1. 0 \in good
    BY Zenon, <1>8, <1>9
  <2>2. ASSUME NEW k \in 1 .. IdWidth, k - 1 \in good
        PROVE  k \in good
    <3>1. PICK n \in Nat : n = q[k - 1]
      BY Zenon, <2>2
    <3>2. n \div 10 \in Nat
      OBVIOUS
    <3> QED
      BY Zenon, <1>8, <1>9, <3>1, <3>2
  <2> HIDE DEF good
  <2>3. \A k \in 0 .. IdWidth : k \in good
    BY Zenon, <2>1, <2>2, WidthAssumption, EveryTurn
  <2> QED
    BY Zenon, <2>3 DEF good
<1>11. q \in [0 .. IdWidth -> Nat]
  BY Zenon, <1>7, <1>10
<1> QED
  BY Zenon, <1>1, <1>9, <1>11

\* The text has the width of the column.
LEMMA PaddedFacts ==
    ASSUME NEW id \in Nat
    PROVE  /\ Len(PaddedDecimal(id)) = IdWidth
           /\ \A i \in 1 .. IdWidth : /\ PaddedDecimal(id)[i] = Quotients(id)[IdWidth - i] % 10
                                      /\ PaddedDecimal(id)[i] \in Nat
<1>1. \A i \in 1 .. IdWidth : PaddedDecimal(id)[i] = Quotients(id)[IdWidth - i] % 10
  BY Zenon DEF PaddedDecimal
<1>2. ASSUME NEW i \in 1 .. IdWidth
      PROVE  Quotients(id)[IdWidth - i] % 10 \in Nat
  <2>1. IdWidth - i \in 0 .. IdWidth
    BY WidthAssumption
  <2>2. PICK n \in Nat : n = Quotients(id)[IdWidth - i]
    BY Zenon, <2>1, QuotientFacts
  <2>3. n % 10 \in Nat
    OBVIOUS
  <2> QED
    BY Zenon, <2>2, <2>3
<1>3. Len(PaddedDecimal(id)) = IdWidth
  <2>1. PaddedDecimal(id) \in [1 .. IdWidth -> Nat]
    BY Zenon, <1>2 DEF PaddedDecimal
  <2>2. PICK d \in [1 .. IdWidth -> Nat] : d = PaddedDecimal(id)
    BY Zenon, <2>1
  <2>3. Len(d) = IdWidth
    BY WidthAssumption
  <2> QED
    BY Zenon, <2>2, <2>3
<1> QED
  BY Zenon, <1>1, <1>2, <1>3

\* A smaller id has the smaller text: they differ first where the quotients do.
LEMMA SmallerIdSmallerText ==
    ASSUME NEW a \in Ids, NEW b \in Ids, a < b
    PROVE  TextLess(PaddedDecimal(a), PaddedDecimal(b))
<1> DEFINE A == Quotients(a)
           B == Quotients(b)
<1>1. a \in Nat /\ b \in Nat
  BY Zenon, HistoryAssumption
<1>2. /\ A \in [0 .. IdWidth -> Nat] /\ A[0] = a /\ A[IdWidth] = 0
      /\ B \in [0 .. IdWidth -> Nat] /\ B[0] = b /\ B[IdWidth] = 0
  BY Zenon, <1>1, QuotientFacts, WidthAssumption
<1>3. \A k \in 1 .. IdWidth : A[k] = A[k - 1] \div 10 /\ B[k] = B[k - 1] \div 10
  BY Zenon, <1>1, QuotientFacts
<1>4. \A i \in 1 .. IdWidth : /\ PaddedDecimal(a)[i] = A[IdWidth - i] % 10
                              /\ PaddedDecimal(b)[i] = B[IdWidth - i] % 10
  BY Zenon, <1>1, PaddedFacts
<1> HIDE DEF A, B
<1>5. \A k \in 0 .. IdWidth : A[k] <= B[k]
  <2> DEFINE good == {k \in 0 .. IdWidth : A[k] <= B[k]}
  <2>1. 0 \in good
    <3>1. 0 \in 0 .. IdWidth /\ a <= b
      BY <1>1, WidthAssumption
    <3> QED
      BY Zenon, <1>2, <3>1
  <2>2. ASSUME NEW k \in 1 .. IdWidth, k - 1 \in good
        PROVE  k \in good
    <3>1. k \in 0 .. IdWidth /\ k - 1 \in 0 .. IdWidth
      BY WidthAssumption
    <3>2. PICK m, n \in Nat : m = A[k - 1] /\ n = B[k - 1] /\ m <= n
      BY Zenon, <1>2, <2>2, <3>1
    <3>3. m \div 10 <= n \div 10
      BY <3>2
    <3> QED
      BY Zenon, <1>3, <3>1, <3>2, <3>3
  <2> HIDE DEF good
  <2>3. \A k \in 0 .. IdWidth : k \in good
    BY Zenon, <2>1, <2>2, WidthAssumption, EveryTurn
  <2> QED
    BY Zenon, <2>3 DEF good
<1> DEFINE differ == {i \in 0 .. IdWidth : A[IdWidth - i] # B[IdWidth - i]}
<1>6. PICK i \in differ : \A j \in differ : i <= j
  <2>1. IdWidth \in 0 .. IdWidth /\ IdWidth - IdWidth = 0 /\ a # b
    BY <1>1, WidthAssumption
  <2>2. IdWidth \in differ
    BY Zenon, <1>2, <2>1
  <2>3. differ \subseteq Nat
    BY WidthAssumption
  <2> HIDE DEF differ
  <2> QED
    BY Zenon, <2>2, <2>3, LeastNumber
<1>7. /\ i \in 1 .. IdWidth /\ IdWidth - i \in 0 .. IdWidth
      /\ IdWidth - i + 1 \in 1 .. IdWidth /\ IdWidth - i + 1 - 1 = IdWidth - i
  <2>1. i \in 0 .. IdWidth /\ A[IdWidth - i] # B[IdWidth - i]
    BY Zenon
  <2>2. i # 0
    <3>1. IdWidth - 0 = IdWidth
      BY WidthAssumption
    <3> QED
      BY Zenon, <1>2, <2>1, <3>1
  <2> QED
    BY <2>1, <2>2, WidthAssumption
<1>8. \A j \in 1 .. i - 1 : A[IdWidth - j] = B[IdWidth - j]
  <2>1. \A j \in 1 .. i - 1 : j \in 0 .. IdWidth /\ ~ (i <= j)
    BY <1>7, WidthAssumption
  <2> QED
    BY Zenon, <1>6, <2>1
<1>9. A[IdWidth - i + 1] = B[IdWidth - i + 1]
  <2>1. i - 1 \in 0 .. IdWidth /\ ~ (i <= i - 1) /\ IdWidth - (i - 1) = IdWidth - i + 1
    BY <1>7, WidthAssumption
  <2>2. i - 1 \notin differ
    BY Zenon, <1>6, <2>1
  <2>3. A[IdWidth - (i - 1)] = B[IdWidth - (i - 1)]
    BY Zenon, <2>1, <2>2
  <2> QED
    BY Zenon, <2>1, <2>3
<1>10. A[IdWidth - i] % 10 < B[IdWidth - i] % 10
  <2>1. PICK m, n \in Nat : m = A[IdWidth - i] /\ n = B[IdWidth - i] /\ m <= n
    BY Zenon, <1>2, <1>5, <1>7
  <2>2. m # n
    BY Zenon, <1>6, <2>1
  <2>3. m \div 10 = n \div 10
    <3>1. PICK k \in 1 .. IdWidth : k = IdWidth - i + 1 /\ k - 1 = IdWidth - i
      BY <1>7
    <3> QED
      BY Zenon, <1>3, <1>9, <2>1, <3>1
  <2>4. m % 10 < n % 10
    BY <2>1, <2>2, <2>3
  <2> QED
    BY Zenon, <2>1, <2>4
<1>11. /\ i - 1 \in 0 .. IdWidth /\ i - 1 < IdWidth /\ i - 1 + 1 = i
       /\ \A j \in 1 .. i - 1 : j \in 1 .. IdWidth
  BY <1>7, WidthAssumption
<1>12. \A j \in 1 .. i - 1 : PaddedDecimal(a)[j] = PaddedDecimal(b)[j]
  BY Zenon, <1>4, <1>8, <1>11
<1>13. PaddedDecimal(a)[i - 1 + 1] < PaddedDecimal(b)[i - 1 + 1]
  BY Zenon, <1>4, <1>7, <1>10, <1>11
<1>14. Len(PaddedDecimal(a)) = IdWidth /\ Len(PaddedDecimal(b)) = IdWidth
  BY Zenon, <1>1, PaddedFacts
<1> QED
  BY Zenon, <1>11, <1>12, <1>13, <1>14 DEF TextLess

\* Padded ids compare as text as they compare as numbers.
LEMMA TextOrder ==
    ASSUME NEW a \in Ids, NEW b \in Ids
    PROVE  TextLess(PaddedDecimal(a), PaddedDecimal(b)) <=> a < b
<1>1. a \in Nat /\ b \in Nat
  BY Zenon, HistoryAssumption
<1>2. PICK x, y : x = PaddedDecimal(a) /\ y = PaddedDecimal(b)
  BY Zenon
<1>3. Len(x) = IdWidth /\ Len(y) = IdWidth /\ \A i \in 1 .. IdWidth : x[i] \in Nat /\ y[i] \in Nat
  BY Zenon, <1>1, <1>2, PaddedFacts
<1>4. ASSUME TextLess(x, y), TextLess(y, x)
      PROVE  FALSE
  <2>1. PICK n \in 0 .. IdWidth : /\ n < IdWidth /\ \A i \in 1 .. n : x[i] = y[i]
                                  /\ n = IdWidth \/ x[n + 1] < y[n + 1]
    BY Zenon, <1>3, <1>4 DEF TextLess
  <2>2. PICK m \in 0 .. IdWidth : /\ m < IdWidth /\ \A i \in 1 .. m : y[i] = x[i]
                                  /\ m = IdWidth \/ y[m + 1] < x[m + 1]
    BY Zenon, <1>3, <1>4 DEF TextLess
  <2>3. n + 1 \in 1 .. IdWidth /\ m + 1 \in 1 .. IdWidth
    BY <2>1, <2>2, WidthAssumption
  <2>4. x[n + 1] < y[n + 1] /\ y[m + 1] < x[m + 1]
    BY <2>1, <2>2, WidthAssumption
  <2>5. n < m => x[n + 1] = y[n + 1]
    BY <2>2, WidthAssumption
  <2>6. m < n => x[m + 1] = y[m + 1]
    BY <2>1, WidthAssumption
  <2>7. PICK p, q, r, t \in Nat : p = x[n + 1] /\ q = y[n + 1] /\ r = x[m + 1] /\ t = y[m + 1]
    BY Zenon, <1>3, <2>3
  <2>8. (n < m => p = q) /\ (m < n => r = t) /\ p < q /\ t < r /\ (n = m => p = r /\ q = t)
    BY Zenon, <2>4, <2>5, <2>6, <2>7
  <2> QED
    BY <2>8
<1>5. ASSUME a = b PROVE ~ TextLess(x, y)
  <2>1. x = y
    BY Zenon, <1>2, <1>5
  <2> QED
    BY Zenon, <1>4, <2>1
<1>6. a < b => TextLess(x, y)
  BY Zenon, <1>2, SmallerIdSmallerText
<1>7. b < a => TextLess(y, x)
  BY Zenon, <1>2, SmallerIdSmallerText
<1>8. a < b \/ a = b \/ b < a
  BY <1>1
<1>9. TextLess(x, y) <=> a < b
  BY Zenon, <1>4, <1>5, <1>6, <1>7, <1>8
<1> QED
  BY Zenon, <1>2, <1>9

\* ORDER BY accepted_at, id over the columns is the order of the cursors.
LEMMA SqlOrder ==
    ASSUME NEW a \in Nat \X Ids, NEW b \in Nat \X Ids
    PROVE  SqlLess(a, b) <=> Precedes(a, b)
<1>1. a[2] \in Ids /\ b[2] \in Ids
  OBVIOUS
<1> QED
  BY Zenon, <1>1, TextOrder DEF SqlLess, Precedes

-----------------------------------------------------------------------------
(***************************************************************************)
(* Pages.                                                                  *)
(***************************************************************************)
FirstOf(S, n) == {c \in S : Cardinality(Before(S, c)) < n}

\* The page of the tasks with these keys.
PageFor(S) ==
    [ids |-> {k[2] : k \in FirstOf(S, PageSize)}, more |-> Cardinality(S) > PageSize]

\* checked_page_size
LEMMA PageSizeFacts == PageSize \in Nat /\ PageSize > 0
  BY HistoryAssumption DEF PageSize

\* Fetching more than a page tells the page and whether there is another.
LEMMA FetchedPage ==
    ASSUME NEW S, S \subseteq Cursors, IsFiniteSet(S), NEW m \in Nat, m > PageSize,
           NEW F, AreFirst(F, S, m)
    PROVE  PageOf(F) = PageFor(S)
<1>1. F \in SUBSET S /\ \A a \in F, b \in S \ F : Precedes(a, b)
  BY Zenon DEF AreFirst
<1>2. IsFiniteSet(F) /\ F \subseteq Cursors /\ Cardinality(F) \in Nat /\ Cardinality(S) \in Nat
  BY Zenon, <1>1, FS_Subset, FS_CardinalityType
<1>3. PageSize \in Nat
  BY Zenon, PageSizeFacts
<1>4. PICK P : P = FirstOf(F, PageSize)
  BY Zenon
<1>5. AreFirst(P, F, PageSize)
  BY Zenon, <1>2, <1>3, <1>4, RankedAreFirst DEF FirstOf
<1>6. PICK f, k, n \in Nat : /\ f = Cardinality(F) /\ k = Cardinality(S) /\ n = PageSize
                             /\ k <= m => f = k
                             /\ k > m => f = m
  BY Zenon, <1>2, <1>3 DEF AreFirst
<1>7. (k > n <=> f > n) /\ (k <= n => f <= n /\ k <= m)
  BY <1>6
<1>8. AreFirst(P, S, PageSize)
  <2>1. P \subseteq S /\ \A a \in P, b \in S \ P : Precedes(a, b)
    BY Zenon, <1>1, <1>5 DEF AreFirst
  <2>2. k <= n => P = S
    BY Zenon, <1>5, <1>6, <1>7 DEF AreFirst
  <2>3. k > n => Cardinality(P) = n
    BY Zenon, <1>5, <1>6, <1>7 DEF AreFirst
  <2> QED
    BY Zenon, <1>6, <2>1, <2>2, <2>3 DEF AreFirst
<1>9. AreFirst(FirstOf(S, PageSize), S, PageSize)
  BY Zenon, <1>3, RankedAreFirst DEF FirstOf
<1>10. P = FirstOf(S, PageSize)
  BY Zenon, <1>3, <1>8, <1>9, FirstAreUnique
<1>11. PageOf(F) = [ids |-> {c[2] : c \in P}, more |-> Cardinality(F) > PageSize]
  BY Zenon, <1>4 DEF PageOf, FirstOf, Before
<1>12. (Cardinality(F) > PageSize) = (Cardinality(S) > PageSize)
  BY <1>6, <1>7
<1> QED
  BY Zenon, <1>10, <1>11, <1>12 DEF PageFor

\* The query of the SQLite store fetches the first PageSize + 1 rows.
LEMMA SelectedAreFirst ==
    ASSUME RowsTyped, NEW selected \in SUBSET Ids
    PROVE  AreFirst(SelectOrdered(selected), KeysOf(selected), PageSize + 1)
<1> DEFINE S == KeysOf(selected)
           place(id) == Cardinality({other \in selected : SqlLess(CursorOf(other), CursorOf(id))})
<1>1. S \subseteq Cursors /\ IsFiniteSet(S)
  BY Zenon, KeyFacts
<1>2. ASSUME NEW id \in selected
      PROVE  place(id) = Cardinality(Before(S, CursorOf(id)))
  <2>1. \A i \in selected : CursorOf(i) \in Nat \X Ids
    BY Zenon, CursorFacts DEF CursorOf
  <2>2. \A other \in selected : SqlLess(CursorOf(other), CursorOf(id)) <=> Precedes(CursorOf(other), CursorOf(id))
    BY Zenon, <2>1, SqlOrder
  <2>3. PICK ids : ids = {other \in selected : SqlLess(CursorOf(other), CursorOf(id))}
    BY Zenon
  <2>4. ids \in SUBSET Ids
    BY Zenon, <2>3
  <2>5. KeysOf(ids) = Before(S, CursorOf(id))
    BY Zenon, <2>2, <2>3 DEF KeysOf, Before
  <2>6. Cardinality(KeysOf(ids)) = Cardinality(ids)
    BY Zenon, <2>4, KeyFacts
  <2> QED
    BY Zenon, <2>3, <2>5, <2>6
<1>3. SelectOrdered(selected) = {CursorOf(id) : id \in {i \in selected : place(i) < PageSize + 1}}
  BY Zenon DEF SelectOrdered
<1> HIDE DEF place
<1>4. {CursorOf(id) : id \in {i \in selected : place(i) < PageSize + 1}}
          = {c \in S : Cardinality(Before(S, c)) < PageSize + 1}
  BY Zenon, <1>2 DEF KeysOf
<1>5. PageSize + 1 \in Nat
  BY PageSizeFacts
<1> HIDE DEF S
<1>6. AreFirst({c \in S : Cardinality(Before(S, c)) < PageSize + 1}, S, PageSize + 1)
  BY Zenon, <1>1, <1>5, RankedAreFirst
<1> QED
  BY Zenon, <1>3, <1>4, <1>6 DEF S

\* A cursor is that of a task, present or not, or the start.
Positions == {Start} \cup (Nat \X Ids)

\* The start precedes every task, so that leaving the predicate out of the query
\* is the same as having it.
LEMMA PositionFacts ==
    ASSUME RowsTyped, NEW after \in Positions, NEW id \in Ids
    PROVE  /\ after \in Cursors /\ CursorOf(id) \in Nat \X Ids
           /\ AfterPredicate(after, id) <=> Precedes(after, CursorOf(id))
<1>1. CursorOf(id) \in Nat \X Ids
  BY Zenon, CursorFacts DEF CursorOf
<1>2. CASE after = Start
  <2>1. PICK t \in Nat, n \in Nat : CursorOf(id) = <<t, n>> /\ n > 0
    BY Zenon, CursorFacts DEF CursorOf
  <2>2. Precedes(<<0, 0>>, <<t, n>>)
    BY <2>1 DEF Precedes
  <2>3. <<0, 0>> \in Nat \X Nat
    OBVIOUS
  <2> QED
    BY Zenon, <1>1, <1>2, <2>1, <2>2, <2>3 DEF Start, Cursors, AfterPredicate
<1>3. CASE after \in Nat \X Ids /\ after # Start
  <2>1. after \in Nat \X Nat
    BY <1>3, HistoryAssumption
  <2>2. SqlLess(after, CursorOf(id)) <=> Precedes(after, CursorOf(id))
    BY Zenon, <1>1, <1>3, SqlOrder
  <2> QED
    BY Zenon, <1>1, <1>3, <2>1, <2>2 DEF Cursors, AfterPredicate
<1> QED
  BY Zenon, <1>2, <1>3 DEF Positions

\* The tasks a page of the history is taken from, and those of a ready page.
Eligible(q, after) == {id \in Rows : Matches(id, q) /\ Precedes(after, CursorOf(id))}

ReadyAfter(after, now) ==
    {id \in Rows : row[id].state = "Queued" /\ row[id].retry <= now /\ Precedes(after, CursorOf(id))}

\* Both stores return the page of the eligible tasks.
LEMMA HistoryPages ==
    ASSUME RowsTyped, NEW q, NEW after \in Positions
    PROVE  /\ MemoryListEncoded(q, after) = PageFor(KeysOf(Eligible(q, after)))
           /\ SqliteListEncoded(q, after) = PageFor(KeysOf(Eligible(q, after)))
<1>1. Rows \in SUBSET Ids /\ Eligible(q, after) \in SUBSET Ids
  BY Zenon DEF Rows, Eligible
<1>2. KeysOf(Eligible(q, after)) \subseteq Cursors /\ IsFiniteSet(KeysOf(Eligible(q, after)))
  BY Zenon, <1>1, KeyFacts
<1>3. PageSize + 1 \in Nat /\ PageSize + 1 > PageSize /\ PageSize + 1 > 0
  BY PageSizeFacts
<1>4. MemoryListEncoded(q, after) = PageOf(HeapOf(Eligible(q, after), PageSize + 1))
  BY Zenon DEF MemoryListEncoded, Eligible
<1>5. SqliteListEncoded(q, after) = PageOf(SelectOrdered(Eligible(q, after)))
  <2>1. {id \in Rows : Matches(id, q) /\ AfterPredicate(after, id)} = Eligible(q, after)
    BY Zenon, <1>1, PositionFacts DEF Eligible
  <2> QED
    BY Zenon, <2>1 DEF SqliteListEncoded
<1>6. AreFirst(HeapOf(Eligible(q, after), PageSize + 1), KeysOf(Eligible(q, after)), PageSize + 1)
  BY Zenon, <1>1, <1>3, HeapHoldsFirst
<1>7. AreFirst(SelectOrdered(Eligible(q, after)), KeysOf(Eligible(q, after)), PageSize + 1)
  BY Zenon, <1>1, SelectedAreFirst
<1> QED
  BY Zenon, <1>2, <1>3, <1>4, <1>5, <1>6, <1>7, FetchedPage

\* Both stores return the page of the ready tasks.
LEMMA ReadyPages ==
    ASSUME RowsTyped, NEW after \in Positions, NEW now \in Nat
    PROVE  /\ MemoryListReady(after, now) = PageFor(KeysOf(ReadyAfter(after, now)))
           /\ SqliteListReady(after, now) = PageFor(KeysOf(ReadyAfter(after, now)))
<1>1. Rows \in SUBSET Ids /\ ReadyAfter(after, now) \in SUBSET Ids
  BY Zenon DEF Rows, ReadyAfter
<1>2. PICK S : S = KeysOf(ReadyAfter(after, now))
  BY Zenon
<1>3. S \subseteq Cursors /\ IsFiniteSet(S) /\ Cardinality(S) \in Nat
  BY Zenon, <1>1, <1>2, KeyFacts, FS_CardinalityType
<1>4. PageSize \in Nat /\ PageSize + 1 \in Nat /\ PageSize + 1 > PageSize
  BY PageSizeFacts
<1>5. MemoryListReady(after, now) = PageOf(S)
  BY Zenon, <1>2 DEF MemoryListReady, ReadyAfter, KeysOf
<1>6. SqliteListReady(after, now) = PageOf(SelectOrdered(ReadyAfter(after, now)))
  <2>1. ASSUME NEW id \in Ids
        PROVE  row[id].retry = 0 \/ row[id].retry <= now <=> row[id].retry <= now
    <3>1. PICK r \in Nat : r = row[id].retry
      BY Zenon, CursorFacts
    <3>2. r = 0 \/ r <= now <=> r <= now
      OBVIOUS
    <3> QED
      BY Zenon, <3>1, <3>2
  <2>2. {id \in Rows : /\ row[id].state = "Queued"
                       /\ row[id].retry = 0 \/ row[id].retry <= now
                       /\ AfterPredicate(after, id)} = ReadyAfter(after, now)
    BY Zenon, <1>1, <2>1, PositionFacts DEF ReadyAfter
  <2> QED
    BY Zenon, <2>2 DEF SqliteListReady
<1>7. AreFirst(SelectOrdered(ReadyAfter(after, now)), S, PageSize + 1)
  BY Zenon, <1>1, <1>2, SelectedAreFirst
<1>8. PICK m \in Nat : m > PageSize /\ Cardinality(S) <= m /\ ~ (Cardinality(S) > m)
  <2>1. PICK m \in Nat : m = Cardinality(S) + PageSize + 1
    BY <1>3, <1>4
  <2> QED
    BY <1>3, <1>4, <2>1
<1>9. AreFirst(S, S, m)
  BY Zenon, <1>8 DEF AreFirst
<1> QED
  BY Zenon, <1>2, <1>3, <1>4, <1>5, <1>6, <1>7, <1>8, <1>9, FetchedPage

\* Both stores find the same next deadline, and none that lies later than the
\* one of a queued task.
LEMMA Deadlines ==
    ASSUME RowsTyped, NEW now \in Nat
    PROVE  /\ MemoryNextRetryDeadline(now) = SqliteNextRetryDeadline(now)
           /\ \A id \in Rows : row[id].state = "Queued" /\ row[id].retry > now =>
                  SqliteNextRetryDeadline(now) \in 1 .. row[id].retry
<1> DEFINE waiting == {i \in Rows : row[i].state = "Queued" /\ row[i].retry > now}
           deadlines == {row[id].retry : id \in waiting}
           least(D) == IF D = {} THEN 0 ELSE CHOOSE d \in D : \A e \in D : d <= e
<1>1. \A id \in Rows : row[id].retry \in Nat
  BY Zenon, CursorFacts DEF Rows
<1>2. MemoryNextRetryDeadline(now) = least(deadlines)
  BY Zenon DEF MemoryNextRetryDeadline
<1>3. SqliteNextRetryDeadline(now) = least(deadlines)
  <2> DEFINE listed == {i \in Rows : /\ row[i].state = "Queued"
                                     /\ row[i].retry # 0
                                     /\ row[i].retry > now}
             others == {row[id].retry : id \in listed}
  <2>1. \A r \in Nat : r > now => r # 0
    OBVIOUS
  <2>2. others = deadlines
    <3>1. listed = waiting
      BY Zenon, <1>1, <2>1
    <3> HIDE DEF listed, waiting
    <3> QED
      BY Zenon, <3>1
  <2>3. SqliteNextRetryDeadline(now) = least(others)
    BY Zenon DEF SqliteNextRetryDeadline
  <2> HIDE DEF others, deadlines, least
  <2> QED
    BY Zenon, <2>2, <2>3
<1>4. ASSUME NEW id \in Rows, row[id].state = "Queued", row[id].retry > now
      PROVE  SqliteNextRetryDeadline(now) \in 1 .. row[id].retry
  <2>1. row[id].retry \in deadlines
    BY Zenon, <1>4
  <2>2. deadlines \subseteq Nat /\ \A d \in deadlines : d > now
    BY Zenon, <1>1
  <2> HIDE DEF deadlines
  <2>3. \E d \in deadlines : \A e \in deadlines : d <= e
    BY Zenon, <2>1, <2>2, LeastNumber
  <2>4. PICK d \in deadlines : SqliteNextRetryDeadline(now) = d /\ \A e \in deadlines : d <= e
    BY Zenon, <1>3, <2>1, <2>3
  <2> HIDE DEF least
  <2>5. PICK r \in Nat : r = row[id].retry
    BY Zenon, <1>1
  <2>6. d \in Nat /\ d > now /\ d <= r
    BY Zenon, <2>1, <2>2, <2>4, <2>5
  <2>7. d \in 1 .. r
    BY <2>6
  <2> QED
    BY Zenon, <2>4, <2>5, <2>7
<1> HIDE DEF least, deadlines
<1> QED
  BY Zenon, <1>2, <1>3, <1>4

\* A page holds tasks it is taken from, before all it leaves to the next page;
\* the last page holds them all, any other at least one.
LEMMA PageFacts ==
    ASSUME RowsTyped, NEW ids \in SUBSET Ids, NEW page, page = PageFor(KeysOf(ids))
    PROVE  /\ page.ids \subseteq ids
           /\ \A a \in page.ids, b \in ids \ page.ids : Precedes(CursorOf(a), CursorOf(b))
           /\ ~ page.more => page.ids = ids
           /\ ids # {} => page.ids # {}
           /\ page.more => ids # {}
<1>1. PICK S : S = KeysOf(ids)
  BY Zenon
<1>2. S \subseteq Cursors /\ IsFiniteSet(S) /\ Cardinality(S) \in Nat
  BY Zenon, <1>1, KeyFacts, FS_CardinalityType
<1>3. PICK F : F = FirstOf(S, PageSize)
  BY Zenon
<1>4. AreFirst(F, S, PageSize)
  BY Zenon, <1>2, <1>3, PageSizeFacts, RankedAreFirst DEF FirstOf
<1>5. page.ids = {k[2] : k \in F} /\ page.more = (Cardinality(S) > PageSize)
  BY Zenon, <1>1, <1>3 DEF PageFor
<1>6. /\ \A k \in S : k[2] \in ids /\ k = CursorOf(k[2])
      /\ \A id \in ids : CursorOf(id) \in S /\ CursorOf(id)[2] = id
  BY Zenon, <1>1, CursorFacts DEF KeysOf
<1>7. F \subseteq S
  BY Zenon, <1>4 DEF AreFirst
<1>8. \A id \in ids : id \in page.ids <=> CursorOf(id) \in F
  BY Zenon, <1>5, <1>6, <1>7
<1>9. page.ids \subseteq ids
  BY Zenon, <1>5, <1>6, <1>7
<1>10. ~ page.more => page.ids = ids
  <2>1. ~ (Cardinality(S) > PageSize) => Cardinality(S) <= PageSize
    BY <1>2, PageSizeFacts
  <2>2. ~ page.more => F = S
    BY Zenon, <1>4, <1>5, <2>1 DEF AreFirst
  <2> QED
    BY Zenon, <1>6, <1>8, <1>9, <2>2
<1>11. \A a \in page.ids, b \in ids \ page.ids : Precedes(CursorOf(a), CursorOf(b))
  BY Zenon, <1>4, <1>6, <1>8, <1>9 DEF AreFirst
<1>12. ASSUME ids # {} PROVE page.ids # {}
  <2>1. PICK id \in ids : TRUE
    BY Zenon, <1>12
  <2>2. CASE Cardinality(S) <= PageSize
    <3>1. F = S
      BY Zenon, <1>4, <2>2 DEF AreFirst
    <3> QED
      BY Zenon, <1>6, <1>8, <2>1, <3>1
  <2>3. CASE Cardinality(S) > PageSize
    <3>1. Cardinality(F) = PageSize
      BY Zenon, <1>4, <2>3 DEF AreFirst
    <3>2. PageSize # 0
      BY PageSizeFacts
    <3>3. F # {}
      BY Zenon, <3>1, <3>2, FS_EmptySet
    <3> QED
      BY Zenon, <1>5, <3>3
  <2> QED
    BY <1>2, <2>2, <2>3, PageSizeFacts
<1>13. ASSUME ids = {} PROVE ~ page.more
  <2>1. S = {} /\ Cardinality(S) = 0
    BY Zenon, <1>1, <1>13, FS_EmptySet DEF KeysOf
  <2>2. ~ (0 > PageSize)
    BY PageSizeFacts
  <2> QED
    BY Zenon, <1>5, <2>1, <2>2
<1> QED
  BY Zenon, <1>9, <1>10, <1>11, <1>12, <1>13

\* A queued task whose time has come is on the ready page behind the ready task
\* next to it, or on the first.
LEMMA ReadyIsListed ==
    ASSUME RowsTyped, NEW now \in Nat, NEW id \in Rows, row[id].state = "Queued", row[id].retry <= now
    PROVE  \E after \in {Start} \cup {CursorOf(i) : i \in Rows} : id \in SqliteListReady(after, now).ids
<1>1. Rows \in SUBSET Ids
  BY Zenon DEF Rows
<1>2. ASSUME NEW after \in {Start} \cup {CursorOf(i) : i \in Rows}, id \in ReadyAfter(after, now),
             \A i \in ReadyAfter(after, now) : ~ Precedes(CursorOf(i), CursorOf(id))
      PROVE  id \in SqliteListReady(after, now).ids
  <2>1. after \in Positions
    <3>1. \A i \in Rows : CursorOf(i) \in Nat \X Ids
      BY Zenon, <1>1, CursorFacts DEF CursorOf
    <3> QED
      BY Zenon, <3>1 DEF Positions
  <2>2. PICK page : page = SqliteListReady(after, now)
    BY Zenon
  <2>3. page = PageFor(KeysOf(ReadyAfter(after, now))) /\ ReadyAfter(after, now) \in SUBSET Ids
    BY Zenon, <1>1, <2>1, <2>2, ReadyPages DEF ReadyAfter
  <2>4. PICK i \in page.ids : i \in ReadyAfter(after, now)
    <3>1. page.ids \subseteq ReadyAfter(after, now) /\ page.ids # {}
      BY Zenon, <1>2, <2>3, PageFacts
    <3> QED
      BY Zenon, <3>1
  <2>5. ASSUME id \notin page.ids PROVE FALSE
    <3>1. Precedes(CursorOf(i), CursorOf(id))
      BY Zenon, <1>2, <2>3, <2>4, <2>5, PageFacts
    <3> QED
      BY Zenon, <1>2, <2>4, <3>1
  <2> QED
    BY Zenon, <2>2, <2>5
<1>3. PICK earlier : earlier = {i \in ReadyAfter(Start, now) : Precedes(CursorOf(i), CursorOf(id))}
  BY Zenon
<1>4. earlier \in SUBSET Ids /\ earlier \subseteq Rows
  BY Zenon, <1>1, <1>3 DEF ReadyAfter
<1>5. \A i \in Rows : Precedes(Start, CursorOf(i)) /\ CursorOf(i) \in Cursors
  BY Zenon, <1>1, PositionFacts, CursorFacts DEF Positions, AfterPredicate
<1>6. CASE earlier = {}
  <2>1. id \in ReadyAfter(Start, now)
    BY Zenon, <1>5 DEF ReadyAfter
  <2>2. id \in SqliteListReady(Start, now).ids
    BY Zenon, <1>2, <1>3, <1>6, <2>1
  <2> QED
    BY Zenon, <2>2
<1>7. CASE earlier # {}
  <2>1. KeysOf(earlier) \subseteq Cursors /\ IsFiniteSet(KeysOf(earlier)) /\ KeysOf(earlier) # {}
    BY Zenon, <1>4, <1>7, KeyFacts DEF KeysOf
  <2>2. PICK c \in KeysOf(earlier) : \A k \in KeysOf(earlier) : ~ Precedes(c, k)
    BY Zenon, <2>1, LastCursor
  <2>3. PICK e \in earlier : c = CursorOf(e)
    BY Zenon DEF KeysOf
  <2>4. id \in ReadyAfter(CursorOf(e), now)
    BY Zenon, <1>3 DEF ReadyAfter
  <2>5. ASSUME NEW i \in ReadyAfter(CursorOf(e), now), Precedes(CursorOf(i), CursorOf(id))
        PROVE  FALSE
    <3>1. i \in earlier /\ Precedes(CursorOf(e), CursorOf(i))
      BY Zenon, <1>3, <1>5, <2>5 DEF ReadyAfter
    <3> QED
      BY Zenon, <2>2, <2>3, <3>1 DEF KeysOf
  <2>6. CursorOf(e) \in {Start} \cup {CursorOf(i) : i \in Rows}
    BY Zenon, <1>4
  <2> QED
    BY Zenon, <1>2, <2>4, <2>5, <2>6
<1> QED
  BY Zenon, <1>6, <1>7

-----------------------------------------------------------------------------
(***************************************************************************)
(* The walk.  Of the tasks it owes the reader has seen exactly those that  *)
(* the cursor does not precede, wherever the cursor came from.             *)
(***************************************************************************)
ReaderType ==
    [pc : {"idle", "walking"}, query : Queries \cup {NoQuery}, after : Positions,
     owed : SUBSET Ids, seen : SUBSET Ids, missed : SUBSET Ids, repeated : SUBSET Ids]

HistoryInv ==
    /\ RowsTyped
    /\ reader \in ReaderType
    /\ \A id \in reader.owed : id \in Rows /\ Matches(id, reader.query)
    /\ reader.seen \subseteq reader.owed
    /\ \A id \in reader.owed : id \in reader.seen <=> ~ Precedes(reader.after, CursorOf(id))
    /\ WalkComplete

\* When no walk is in progress, nothing is owed.
LEMMA IdleReader ==
    /\ NoWalk \in ReaderType /\ NoWalk.owed = {} /\ NoWalk.seen = {} /\ NoWalk.after = Start
    /\ NoWalk.missed = {} /\ NoWalk.repeated = {}
  BY Zenon DEF NoWalk, ReaderType, Positions

\* Nothing is stored and nobody reads.
LEMMA InitHistory == ASSUME Init PROVE HistoryInv
<1>1. NoRow \in RowType
  <2>1. 0 \in Nat
    OBVIOUS
  <2> QED
    BY Zenon, <2>1 DEF NoRow, RowType
<1>2. RowsTyped
  BY Zenon, <1>1 DEF Init, RowsTyped
<1> QED
  BY Zenon, <1>2, IdleReader DEF Init, HistoryInv, WalkComplete

\* A change of one task: it keeps its place while it is owed.
LEMMA BecomesKeeps ==
    ASSUME HistoryInv, NEW id \in Ids, NEW r \in RowType, Becomes(id, r),
           id \in reader.owed /\ r.state \in TaskStates => r.accepted = row[id].accepted
    PROVE  HistoryInv'
<1>1. RowsTyped' /\ row'[id] = r /\ \A i \in Ids \ {id} : row'[i] = row[i]
  BY Zenon DEF HistoryInv, RowsTyped, Becomes
<1>2. PICK still : /\ still = {i \in reader.owed : i = id => /\ r.state \in TaskStates
                                                              /\ Selects(reader.query, id, r.state)}
                   /\ reader' = [reader EXCEPT !.owed = still, !.seen = @ \cap still]
  BY Zenon DEF Becomes
<1>3. reader \in ReaderType /\ still \subseteq reader.owed /\ still \subseteq Ids
  BY Zenon, <1>2 DEF HistoryInv, ReaderType
<1>4. /\ reader' \in ReaderType /\ reader'.owed = still /\ reader'.seen = reader.seen \cap still
      /\ reader'.after = reader.after /\ reader'.query = reader.query
      /\ reader'.missed = reader.missed /\ reader'.repeated = reader.repeated
  BY Zenon, <1>2, <1>3 DEF ReaderType
<1>5. ASSUME NEW i \in still
      PROVE  /\ row'[i].accepted = row[i].accepted /\ row'[i].state \in TaskStates
             /\ Selects(reader.query, i, row'[i].state)
  <2>1. i \in Rows /\ Matches(i, reader.query)
    BY Zenon, <1>3 DEF HistoryInv
  <2>2. CASE i = id
    BY Zenon, <1>1, <1>2, <2>2
  <2>3. CASE i # id
    <3>1. row'[i] = row[i]
      BY Zenon, <1>1, <1>3, <2>3
    <3> QED
      BY Zenon, <2>1, <3>1 DEF Rows, Matches
  <2> QED
    BY Zenon, <2>2, <2>3
<1>6. ASSUME NEW i \in still
      PROVE  (i \in Rows)' /\ Matches(i, reader.query)' /\ CursorOf(i)' = CursorOf(i)
  BY Zenon, <1>3, <1>4, <1>5, <1>6 DEF Rows, Matches, CursorOf
<1>7. \A i \in still : i \in reader.seen \cap still <=> ~ Precedes(reader.after, CursorOf(i)')
  BY Zenon, <1>3, <1>6 DEF HistoryInv
<1>8. \A i \in reader'.owed : (i \in Rows)' /\ Matches(i, reader.query)'
  BY Zenon, <1>4, <1>6
<1>9. \A i \in reader'.owed : i \in reader'.seen <=> ~ Precedes(reader'.after, CursorOf(i)')
  BY Zenon, <1>4, <1>7
<1>10. reader'.seen \subseteq reader'.owed /\ WalkComplete'
  BY Zenon, <1>4 DEF HistoryInv, WalkComplete
<1> QED
  BY Zenon, <1>1, <1>4, <1>8, <1>9, <1>10 DEF HistoryInv, Precedes

\* The records that accept_encoded and transition_encoded leave.
LEMMA RecordsKeep ==
    ASSUME HistoryInv, NEW id \in Ids, NEW time \in Clock,
           \/ Accept(id, time)
           \/ \E state \in {"Queued", "Running", "Succeeded"} : Move(id, state, time)
    PROVE  HistoryInv'
<1>1. time \in Nat /\ 0 \in Nat
  BY HistoryAssumption
<1>2. row[id] \in RowType
  BY Zenon DEF HistoryInv, RowsTyped
<1>3. CASE Accept(id, time)
  <2>1. PICK r : r = [state |-> "Queued", accepted |-> time, retry |-> 0]
    BY Zenon
  <2>2. r \in RowType
    BY Zenon, <1>1, <2>1 DEF RowType, TaskStates
  <2>3. id \notin reader.owed
    BY Zenon, <1>3 DEF Accept, HistoryInv, Rows, TaskStates, TerminalStates
  <2> QED
    BY Zenon, <1>3, <2>1, <2>2, <2>3, BecomesKeeps DEF Accept
<1>4. CASE \E state \in {"Queued", "Running", "Succeeded"} : Move(id, state, time)
  <2>1. PICK state \in {"Queued", "Running", "Succeeded"} : Move(id, state, time)
    BY Zenon, <1>4
  <2>2. PICK r : r = [row[id] EXCEPT !.state = state, !.retry = time]
    BY Zenon
  <2>3. r \in RowType /\ r.accepted = row[id].accepted
    BY Zenon, <1>1, <1>2, <2>2 DEF RowType, TaskStates, TerminalStates
  <2> QED
    BY Zenon, <2>1, <2>2, <2>3, BecomesKeeps DEF Move
<1> QED
  BY Zenon, <1>3, <1>4

\* The record is gone, by eviction or by pruning.
LEMMA RemoveKeeps == ASSUME HistoryInv, NEW id \in Ids, Remove(id) PROVE HistoryInv'
<1>1. PICK r : r = [NoRow EXCEPT !.state = "Removed"]
  BY Zenon
<1>2. 0 \in Nat
  OBVIOUS
<1>3. r \in RowType /\ r.state \notin TaskStates
  BY Zenon, <1>1, <1>2 DEF RowType, NoRow, TaskStates, TerminalStates
<1> QED
  BY Zenon, <1>1, <1>3, BecomesKeeps DEF Remove

\* A walk owes what matches when it begins, and has seen nothing of it.
LEMMA BeginKeeps ==
    ASSUME HistoryInv, NEW q \in Queries, BeginWalk(q) PROVE HistoryInv'
<1>1. PICK owed : owed = {id \in Rows : Matches(id, q)}
  BY Zenon
<1>2. owed \in SUBSET Ids /\ Rows \in SUBSET Ids
  BY Zenon, <1>1 DEF Rows
<1>3. reader' = [NoWalk EXCEPT !.pc = "walking", !.query = q, !.owed = owed] /\ row' = row
  BY Zenon, <1>1 DEF BeginWalk
<1>4. /\ reader' \in ReaderType /\ reader'.owed = owed /\ reader'.seen = {}
      /\ reader'.after = Start /\ reader'.query = q
      /\ reader'.missed = {} /\ reader'.repeated = {}
  BY Zenon, <1>2, <1>3, IdleReader DEF ReaderType
<1>5. \A id \in Ids : Precedes(Start, CursorOf(id))
  BY Zenon, PositionFacts DEF HistoryInv, Positions, AfterPredicate
<1>6. RowsTyped' /\ Rows' = Rows /\ \A id : CursorOf(id)' = CursorOf(id) /\ Matches(id, q)' = Matches(id, q)
  BY Zenon, <1>3 DEF HistoryInv, RowsTyped, Rows, CursorOf, Matches
<1>7. \A id \in reader'.owed : id \in Rows' /\ Matches(id, q)'
  BY Zenon, <1>1, <1>4, <1>6
<1>8. \A id \in reader'.owed : id \in reader'.seen <=> ~ Precedes(reader'.after, CursorOf(id)')
  BY Zenon, <1>2, <1>4, <1>5, <1>6
<1> QED
  BY Zenon, <1>4, <1>6, <1>7, <1>8 DEF HistoryInv, WalkComplete, Matches, Precedes

\* The cursor of a page that is not the last is that of its last task.
LEMMA NextCursorFacts ==
    ASSUME RowsTyped, NEW ids \in SUBSET Ids, ids # {}, NEW after
    PROVE  \E last \in ids : /\ NextCursor(ids, after) = CursorOf(last)
                             /\ \A id \in ids : ~ Precedes(CursorOf(last), CursorOf(id))
<1>1. KeysOf(ids) \subseteq Cursors /\ IsFiniteSet(KeysOf(ids)) /\ KeysOf(ids) # {}
  BY Zenon, KeyFacts DEF KeysOf
<1>2. \E c \in KeysOf(ids) : \A k \in KeysOf(ids) : ~ Precedes(c, k)
  BY Zenon, <1>1, LastCursor
<1>3. \E c \in {CursorOf(id) : id \in ids} : \A id \in ids : ~ Precedes(c, CursorOf(id))
  BY Zenon, <1>2 DEF KeysOf
<1>4. PICK c : c = NextCursor(ids, after)
  BY Zenon
<1>5. c \in {CursorOf(id) : id \in ids} /\ \A id \in ids : ~ Precedes(c, CursorOf(id))
  BY Zenon, <1>3, <1>4 DEF NextCursor
<1> QED
  BY Zenon, <1>4, <1>5

\* Of what a walk owes, a page takes the next tasks: those it has seen lie before
\* the cursor and are not on it, and those it still misses are on it or behind.
LEMMA PageKeeps ==
    ASSUME HistoryInv, NEW page, page = PageFor(KeysOf(Eligible(reader.query, reader.after))),
           ReadPage(page)
    PROVE  HistoryInv'
<1>1. PICK ids : ids = Eligible(reader.query, reader.after)
  BY Zenon
<1>2. ids \in SUBSET Ids /\ RowsTyped /\ reader \in ReaderType
  BY Zenon, <1>1 DEF Eligible, Rows, HistoryInv
<1>3. PICK p : p = page.ids
  BY Zenon
<1>4. /\ p \subseteq ids /\ \A a \in p, b \in ids \ p : Precedes(CursorOf(a), CursorOf(b))
      /\ ~ page.more => p = ids
      /\ ids # {} => p # {}
      /\ page.more => ids # {}
  <2>1. page = PageFor(KeysOf(ids))
    BY Zenon, <1>1
  <2>2. /\ page.ids \subseteq ids
        /\ \A a \in page.ids, b \in ids \ page.ids : Precedes(CursorOf(a), CursorOf(b))
        /\ ~ page.more => page.ids = ids
        /\ ids # {} => page.ids # {}
        /\ page.more => ids # {}
    BY Zenon, <1>2, <2>1, PageFacts
  <2> QED
    BY Zenon, <1>3, <2>2
<1>5. PICK owed, seen, after : owed = reader.owed /\ seen = reader.seen /\ after = reader.after
  BY Zenon
<1>6. /\ owed \in SUBSET Ids /\ seen \in SUBSET Ids /\ after \in Positions /\ seen \subseteq owed
      /\ \A id \in owed : id \in Rows /\ Matches(id, reader.query)
      /\ \A id \in owed : id \in seen <=> ~ Precedes(after, CursorOf(id))
  BY Zenon, <1>5 DEF HistoryInv, ReaderType
<1>7. \A id \in owed : id \in ids <=> id \notin seen
  <2>1. ids = {id \in Rows : Matches(id, reader.query) /\ Precedes(after, CursorOf(id))}
    BY Zenon, <1>1, <1>5 DEF Eligible
  <2> QED
    BY Zenon, <1>6, <2>1
<1>8. p \cap seen = {}
  BY Zenon, <1>4, <1>6, <1>7
<1>9. row' = row /\ RowsTyped' /\ Rows' = Rows /\ \A id : CursorOf(id)' = CursorOf(id)
  BY Zenon, <1>2 DEF ReadPage, RowsTyped, Rows, CursorOf
<1>10. CASE page.more
  <2>1. PICK c : c = NextCursor(p, after)
    BY Zenon
  <2>2. reader' = [reader EXCEPT !.after = c, !.seen = seen \cup (p \cap owed), !.repeated = p \cap seen]
    BY Zenon, <1>3, <1>5, <1>10, <2>1 DEF ReadPage
  <2>3. p # {}
    BY Zenon, <1>4, <1>10
  <2>4. PICK last \in p : c = CursorOf(last) /\ \A id \in p : ~ Precedes(c, CursorOf(id))
    <3>1. p \in SUBSET Ids
      BY Zenon, <1>2, <1>4
    <3>2. \E last \in p : /\ NextCursor(p, after) = CursorOf(last)
                          /\ \A id \in p : ~ Precedes(CursorOf(last), CursorOf(id))
      BY Zenon, <1>2, <2>3, <3>1, NextCursorFacts
    <3> QED
      BY Zenon, <2>1, <3>2
  <2>5. last \in Ids /\ c \in Positions /\ Precedes(after, c)
    <3>1. last \in ids /\ last \in Ids
      BY Zenon, <1>2, <1>4
    <3>2. Precedes(after, CursorOf(last))
      BY Zenon, <1>1, <1>5, <3>1 DEF Eligible
    <3>3. CursorOf(last) \in Positions
      BY Zenon, <1>2, <3>1, CursorFacts DEF Positions, CursorOf
    <3> QED
      BY Zenon, <2>4, <3>1, <3>2, <3>3
  <2>6. /\ reader' \in ReaderType /\ reader'.after = c /\ reader'.query = reader.query
        /\ reader'.owed = owed /\ reader'.seen = seen \cup (p \cap owed)
        /\ reader'.repeated = {} /\ reader'.missed = reader.missed
    BY Zenon, <1>2, <1>4, <1>5, <1>6, <1>8, <2>2, <2>5 DEF ReaderType
  <2>7. ASSUME NEW id \in owed
        PROVE  id \in seen \cup (p \cap owed) <=> ~ Precedes(c, CursorOf(id))
    <3>1. after \in Cursors /\ c \in Cursors /\ CursorOf(id) \in Cursors
      BY Zenon, <1>2, <1>6, <2>5, PositionFacts, CursorFacts
    <3>2. CASE id \in p
      BY Zenon, <2>4, <3>2
    <3>3. CASE id \in ids \ p
      BY Zenon, <1>4, <1>7, <2>4, <3>3
    <3>4. CASE id \in seen
      <4>1. ~ Precedes(after, CursorOf(id))
        BY Zenon, <1>6, <3>4
      <4> QED
        BY Zenon, <2>5, <3>1, <3>4, <4>1, CursorOrder
    <3> QED
      BY Zenon, <1>7, <3>2, <3>3, <3>4
  <2>8. \A id \in reader'.owed : id \in reader'.seen <=> ~ Precedes(reader'.after, CursorOf(id)')
    BY Zenon, <1>9, <2>6, <2>7
  <2>9. \A id \in reader'.owed : id \in Rows' /\ Matches(id, reader.query)'
    BY Zenon, <1>6, <1>9, <2>6 DEF Matches
  <2>10. reader'.seen \subseteq reader'.owed /\ WalkComplete'
    BY Zenon, <1>6, <2>6 DEF HistoryInv, WalkComplete
  <2> QED
    BY Zenon, <1>9, <2>6, <2>8, <2>9, <2>10 DEF HistoryInv, Precedes
<1>11. CASE ~ page.more
  <2>1. reader' = [NoWalk EXCEPT !.missed = owed \ (seen \cup p), !.repeated = p \cap seen]
    BY Zenon, <1>3, <1>5, <1>11 DEF ReadPage
  <2>2. owed \ (seen \cup p) = {}
    BY Zenon, <1>4, <1>7, <1>11
  <2>3. reader' = NoWalk
    BY Zenon, <1>8, <2>1, <2>2 DEF NoWalk
  <2> QED
    BY Zenon, <1>9, <2>3, IdleReader DEF HistoryInv, WalkComplete
<1> QED
  BY Zenon, <1>10, <1>11

\* HistoryInv is inductive.
LEMMA NextHistory == ASSUME HistoryInv, [Next]_vars PROVE HistoryInv'
<1>1. CASE UNCHANGED vars
  BY Zenon, <1>1 DEF vars, HistoryInv, RowsTyped, Rows, Matches, CursorOf, WalkComplete
<1>2. ASSUME NEW page, ReadPage(page),
             \/ page = MemoryListEncoded(reader.query, reader.after)
             \/ page = SqliteListEncoded(reader.query, reader.after)
      PROVE  HistoryInv'
  <2>1. RowsTyped /\ reader.after \in Positions
    BY Zenon DEF HistoryInv, ReaderType
  <2>2. page = PageFor(KeysOf(Eligible(reader.query, reader.after)))
    BY Zenon, <1>2, <2>1, HistoryPages
  <2> QED
    BY Zenon, <1>2, <2>2, PageKeeps
<1>3. ASSUME NEW id \in Ids, Remove(id) PROVE HistoryInv'
  BY Zenon, <1>3, RemoveKeeps
<1> QED
  BY Zenon, <1>1, <1>2, <1>3, RecordsKeep, BeginKeeps DEF Next

\* HistoryInv holds in every state.
LEMMA HistoryHolds == Spec => []HistoryInv
<1>1. Init => HistoryInv
  BY Zenon, InitHistory
<1>2. HistoryInv /\ [Next]_vars => HistoryInv'
  BY Zenon, NextHistory
<1> QED
  BY <1>1, <1>2, PTL DEF Spec

-----------------------------------------------------------------------------
(***************************************************************************)
(* Theorems.                                                               *)
(***************************************************************************)
\* A walk that follows the cursors of list_encoded returns every task that
\* matched all along, and none of them twice, for any number of tasks, any page
\* size up to the maximum and either store at every page.
THEOREM WalksAreComplete == Spec => []WalkComplete
<1>1. HistoryInv => WalkComplete
  BY Zenon DEF HistoryInv
<1> QED
  BY <1>1, HistoryHolds, PTL

\* The heap of the memory store and the text-ordered query of the SQLite store
\* select the same pages and the same next deadline.
THEOREM StoresAgree == Spec => []PagesAgree
<1>1. ASSUME HistoryInv PROVE PagesAgree
  <2>1. RowsTyped /\ reader.after \in Positions
    BY Zenon, <1>1 DEF HistoryInv, ReaderType
  <2>2. \A id \in Rows : CursorOf(id) \in Positions
    BY Zenon, <2>1, CursorFacts DEF Positions, CursorOf, Rows
  <2>3. Start \in Positions /\ Clock \subseteq Nat
    BY Zenon, HistoryAssumption DEF Positions
  <2>4. \A q \in Queries, after \in Positions : MemoryListEncoded(q, after) = SqliteListEncoded(q, after)
    BY Zenon, <2>1, HistoryPages
  <2>5. \A now \in Nat, after \in Positions : MemoryListReady(after, now) = SqliteListReady(after, now)
    BY Zenon, <2>1, ReadyPages
  <2>6. \A now \in Nat : MemoryNextRetryDeadline(now) = SqliteNextRetryDeadline(now)
    BY Zenon, <2>1, Deadlines
  <2> QED
    BY Zenon, <2>1, <2>2, <2>3, <2>4, <2>5, <2>6 DEF PagesAgree
<1> QED
  BY <1>1, HistoryHolds, PTL

\* Every queued task is on some ready page or not before the next retry deadline.
THEOREM NoTaskOutOfSight == Spec => []ReadyOrAwaited
<1>1. ASSUME HistoryInv PROVE ReadyOrAwaited
  <2> SUFFICES ASSUME NEW now \in Clock, NEW id \in Rows, row[id].state = "Queued"
               PROVE  \/ \E after \in {Start} \cup {CursorOf(i) : i \in Rows} :
                             id \in SqliteListReady(after, now).ids
                      \/ SqliteNextRetryDeadline(now) \in 1 .. row[id].retry
    BY Zenon DEF ReadyOrAwaited
  <2>1. RowsTyped /\ now \in Nat
    BY Zenon, <1>1, HistoryAssumption DEF HistoryInv
  <2>2. PICK r \in Nat : r = row[id].retry
    BY Zenon, <2>1, CursorFacts DEF Rows
  <2>3. r <= now \/ r > now
    BY <2>1
  <2> QED
    BY Zenon, <2>1, <2>2, <2>3, ReadyIsListed, Deadlines
<1> QED
  BY <1>1, HistoryHolds, PTL
=============================================================================
