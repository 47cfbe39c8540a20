------------------------ MODULE TaskExecution_proofs ------------------------
(***************************************************************************)
(* Dispatches and attempts on one machine, for any tasks, registrations,   *)
(* capacities and bounds: the resource ledger is exactly what the leases   *)
(* hold and fits the capacity, progress reports keep up with the store,    *)
(* failures spend no more attempts than allowed, a build that does not     *)
(* know a payload only blocks the task, and retries wait twice as long     *)
(* every time, up to the maximum.                                          *)
(*                                                                         *)
(* The invariant relates, for each task, the stored row, the dispatch or   *)
(* attempt in progress and the reporters of its attempts (TaskInv), and    *)
(* the allocations to the leases (LedgerInv).                              *)
(***************************************************************************)
EXTENDS TaskExecution, FiniteSetTheorems, WellFoundedInduction, TLAPS

Gpus == UNION {DOMAIN c.gpus : c \in Capacities}

Allocations == [token : Nat \ {0}, amount : [Resources -> Nat], gpus : SUBSET Gpus]

Ledgers ==
    [usage : [Resources -> Nat], gpus : SUBSET Gpus, next_token : Nat \ {0},
     allocations : SUBSET Allocations]

Runs ==
    [pc : {"none", "reserved", "started", "running", "ended", "payload_decode", "returning"},
     token : Nat, attempt : Nat]

Delays == {0} \cup {DelayForAttempt(n) : n \in Nat}

Rows ==
    [state : {"Queued", "Running", "Blocked", "Cancelled", "Failed", "Succeeded"},
     attempt : Nat, progress : Nat, delay : Delays]

Reporters ==
    [progress_version : Nat, pc : {"none", "idle", "sent", "stored", "refused"}]

TypeInv ==
    /\ capacity \in Capacities
    /\ service \in {"building", "serving", "stopping"}
    /\ ledger \in Ledgers
    /\ row \in [Tasks -> Rows]
    /\ run \in [Tasks -> Runs]
    /\ reporter \in [Tasks -> [Attempts -> Reporters]]
    /\ restarts \in 0 .. RestartBound

\* An attempt in progress is the one of the row, and it holds a lease until its
\* handler ends.  What waits may still spend an attempt.
RunInv(t) ==
    /\ run[t].pc \in {"started", "running", "ended", "payload_decode"} =>
           row[t].state = "Running" /\ row[t].attempt = run[t].attempt /\ run[t].attempt > 0
    /\ run[t].pc = "returning" => row[t].state \in {"Running", "Failed"}
    /\ run[t].pc \in {"none", "ended"} => run[t].token = NoToken
    /\ row[t].attempt <= max_attempts + restarts
    /\ row[t].state \in {"Queued", "Blocked"} => row[t].attempt < max_attempts + restarts

\* A reservation was made for a payload this process declares.
PayloadInv(t) ==
    /\ service = "building" => run[t].pc = "none"
    /\ run[t].pc \in {"reserved", "started"} => DispatchIsEligible(PayloadOf[t])
    /\ run[t].pc = "payload_decode" => ~PayloadOf[t].decodes

\* An attempt has no reporter before its handler runs, so that nothing moves
\* the progress of the row before; afterwards the reporter is one behind at
\* most, and not at all once its write is answered.
ReporterInv(t) ==
    /\ \A a \in Attempts :
           reporter[t][a].pc # "none" =>
               a <= row[t].attempt /\ (a = row[t].attempt => run[t].pc # "started")
    /\ run[t].pc = "started" => row[t].progress = 0
    /\ run[t].pc = "running" =>
           LET r == reporter[t][run[t].attempt]
           IN  /\ row[t].progress \in {r.progress_version, r.progress_version + 1}
               /\ r.pc = "stored" => row[t].progress = r.progress_version + 1

TaskInv == \A t \in Tasks : RunInv(t) /\ PayloadInv(t) /\ ReporterInv(t)

\* Tokens name allocations and leases, and are never issued twice.
LedgerInv ==
    /\ IsFiniteSet(ledger.allocations) /\ IsFiniteSet(Leased)
    /\ \A a, b \in ledger.allocations : a.token = b.token => a = b
    /\ \A t, u \in Leased : run[t].token = run[u].token => t = u
    /\ \A a \in ledger.allocations : a.token < ledger.next_token /\ IsFiniteSet(a.gpus)
    /\ LedgerExact

ExecutionInv == TypeInv /\ TaskInv /\ LedgerInv


-----------------------------------------------------------------------------
(***************************************************************************)
(* Sums over allocations.                                                  *)
(***************************************************************************)
\* The units of one allocation.
LEMMA UnitsOfOne ==
    ASSUME NEW x, NEW n \in Nat
    PROVE  IsFiniteSet({x} \X (1 .. n)) /\ Cardinality({x} \X (1 .. n)) = n
<1>1. IsFiniteSet(1 .. n) /\ Cardinality(1 .. n) = n
  BY FS_Interval
<1>2. IsFiniteSet({x}) /\ Cardinality({x}) = 1
  BY Zenon, FS_Singleton
<1>3. IsFiniteSet({x} \X (1 .. n))
  BY Zenon, <1>1, <1>2, FS_Product
<1>4. Cardinality({x} \X (1 .. n)) = Cardinality({x}) * Cardinality(1 .. n)
  BY Zenon, <1>1, <1>2, FS_Product
<1> QED
  BY <1>1, <1>2, <1>3, <1>4

\* One allocation.
LEMMA SumOfOne ==
    ASSUME NEW a \in Allocations, NEW k \in Resources
    PROVE  Sum(k, {a}) = a.amount[k] /\ IsFiniteSet(Units(k, {a}))
<1>1. a.amount[k] \in Nat
  BY Zenon DEF Allocations
<1>2. Units(k, {a}) = {a} \X (1 .. a.amount[k])
  BY Zenon DEF Units
<1>3. IsFiniteSet({a} \X (1 .. a.amount[k])) /\ Cardinality({a} \X (1 .. a.amount[k])) = a.amount[k]
  BY Zenon, <1>1, UnitsOfOne
<1> QED
  BY Zenon, <1>2, <1>3 DEF Sum

\* Any finite number of them.
LEMMA UnitsFinite ==
    ASSUME NEW s \in SUBSET Allocations, IsFiniteSet(s), NEW k \in Resources
    PROVE  IsFiniteSet(Units(k, s)) /\ Sum(k, s) \in Nat
<1> DEFINE part == [a \in s |-> {a} \X (1 .. a.amount[k])]
           parts == {{a} \X (1 .. a.amount[k]) : a \in s}
<1>1. part \in Surjection(s, parts)
  BY Zenon DEF Surjection
<1>2. IsFiniteSet(parts)
  BY Zenon, <1>1, FS_Surjection
<1>3. ASSUME NEW a \in s
      PROVE  IsFiniteSet({a} \X (1 .. a.amount[k]))
  <2>1. a.amount[k] \in Nat
    BY Zenon DEF Allocations
  <2> QED
    BY Zenon, <2>1, UnitsOfOne
<1>4. IsFiniteSet(UNION parts)
  BY Zenon, <1>2, <1>3, FS_UNION
<1> QED
  BY Zenon, <1>4, FS_CardinalityType DEF Units, Sum

\* Allocations that are not the same add up.
LEMMA SumAdds ==
    ASSUME NEW s \in SUBSET Allocations, IsFiniteSet(s), NEW a \in Allocations \ s, NEW k \in Resources
    PROVE  Sum(k, s \cup {a}) = Sum(k, s) + a.amount[k]
<1>1. Units(k, s \cup {a}) = Units(k, s) \cup Units(k, {a})
  BY Zenon DEF Units
<1>2. Units(k, s) \cap Units(k, {a}) = {}
  BY DEF Units
<1>3. IsFiniteSet(Units(k, s)) /\ IsFiniteSet(Units(k, {a})) /\ Sum(k, s) \in Nat /\ Sum(k, {a}) = a.amount[k]
  BY Zenon, SumOfOne, UnitsFinite
<1>4. Cardinality(Units(k, s) \cup Units(k, {a})) = Cardinality(Units(k, s)) + Cardinality(Units(k, {a})) - 0
  BY ZenonT(30), <1>2, <1>3, FS_Union, FS_EmptySet
<1>5. Sum(k, s \cup {a}) = Sum(k, s) + Sum(k, {a}) - 0
  BY <1>1, <1>4, Zenon DEF Sum
<1>6. a.amount[k] \in Nat
  BY Zenon DEF Allocations
<1> QED
  BY <1>3, <1>5, <1>6

-----------------------------------------------------------------------------
(***************************************************************************)
(* The ledger.                                                             *)
(***************************************************************************)
\* A step that leaves the ledger, the capacity and the tokens alone.
LEMMA LedgerUntouched ==
    ASSUME LedgerInv, UNCHANGED <<ledger, capacity>>, \A t \in Tasks : run'[t].token = run[t].token
    PROVE  LedgerInv'
<1>1. Leased' = Leased
  BY Zenon DEF Leased
<1>2. \A t \in Leased : run'[t].token = run[t].token
  BY Zenon DEF Leased
<1>3. {run'[t].token : t \in Leased} = {run[t].token : t \in Leased}
  BY Zenon, <1>2
<1>4. LedgerExact'
  BY <1>1, <1>2, <1>3 DEF LedgerInv, LedgerExact, CapacityOf, MatchingGpus
<1> QED
  BY <1>1, <1>2, <1>4 DEF LedgerInv


\* What is asked of a resource is a number.
LEMMA AsksNat ==
    ASSUME NEW t \in Tasks, NEW k
    PROVE  Asks(RequestOf[t], k) \in Nat /\ RequestOf[t].gpu_count \in Nat
BY Zenon, ExecutionAssumption DEF Asks

\* The GPUs a request may get are finitely many of the machine.
LEMMA ChosenGpus ==
    ASSUME capacity \in Capacities, NEW t \in Tasks,
           NEW chosen \in kSubset(RequestOf[t].gpu_count, AvailableGpus(RequestOf[t]))
    PROVE  /\ chosen \subseteq MatchingGpus(RequestOf[t]) /\ chosen \cap ledger.gpus = {}
           /\ Cardinality(chosen) = RequestOf[t].gpu_count
           /\ IsFiniteSet(chosen) /\ chosen \subseteq Gpus
<1>1. chosen \subseteq AvailableGpus(RequestOf[t]) /\ Cardinality(chosen) = RequestOf[t].gpu_count
  BY Zenon DEF kSubset
<1>2. IsFiniteSet(DOMAIN capacity.gpus) /\ DOMAIN capacity.gpus \subseteq Gpus
  BY Zenon, ExecutionAssumption DEF Gpus
<1>3. chosen \subseteq DOMAIN capacity.gpus
  BY Zenon, <1>1 DEF AvailableGpus, MatchingGpus
<1>4. IsFiniteSet(chosen)
  BY Zenon, <1>2, <1>3, FS_Subset
<1> QED
  BY Zenon, <1>1, <1>2, <1>3, <1>4 DEF AvailableGpus

\* A reservation adds an allocation of its own for what was asked.
LEMMA ReservationKept ==
    ASSUME TypeInv, LedgerInv, NEW t \in Tasks, run[t].token = NoToken, Available(RequestOf[t]),
           NEW chosen \in kSubset(RequestOf[t].gpu_count, AvailableGpus(RequestOf[t])),
           ledger' = Reserved(RequestOf[t], chosen), capacity' = capacity,
           run'[t].token = ledger.next_token, \A u \in Tasks \ {t} : run'[u].token = run[u].token
    PROVE  LedgerInv' /\ ledger' \in Ledgers
<1> DEFINE q == RequestOf[t]
           new == [token |-> ledger.next_token, amount |-> [k \in Resources |-> Asks(q, k)], gpus |-> chosen]
           old == ledger.allocations
<1>1. /\ ledger.usage \in [Resources -> Nat] /\ ledger.gpus \in SUBSET Gpus /\ ledger.next_token \in Nat \ {0}
      /\ old \in SUBSET Allocations /\ IsFiniteSet(old) /\ IsFiniteSet(Leased)
  BY Zenon DEF TypeInv, LedgerInv, Ledgers
<1>2. /\ chosen \subseteq MatchingGpus(q) /\ chosen \cap ledger.gpus = {} /\ IsFiniteSet(chosen)
      /\ Cardinality(chosen) = q.gpu_count /\ chosen \subseteq Gpus
  BY Zenon, ChosenGpus DEF TypeInv
<1>3. \A k \in Resources : Asks(q, k) \in Nat
  BY Zenon, AsksNat
<1>4. /\ new \in Allocations /\ new.token = ledger.next_token /\ new.gpus = chosen
      /\ \A k \in Resources : new.amount[k] = Asks(q, k)
  BY Zenon, <1>1, <1>2, <1>3 DEF Allocations
<1>5. /\ ledger'.usage = [k \in Resources |-> ledger.usage[k] + Asks(q, k)]
      /\ ledger'.gpus = ledger.gpus \cup chosen
      /\ ledger'.next_token = ledger.next_token + 1
      /\ ledger'.allocations = old \cup {new}
  BY Zenon DEF Reserved
<1>6. ledger' \in Ledgers
  <2>1. ledger' = [usage |-> ledger'.usage, gpus |-> ledger'.gpus, next_token |-> ledger'.next_token,
                   allocations |-> ledger'.allocations]
    BY Zenon DEF Reserved
  <2>2. /\ ledger'.usage \in [Resources -> Nat] /\ ledger'.gpus \in SUBSET Gpus
        /\ ledger'.next_token \in Nat \ {0} /\ ledger'.allocations \in SUBSET Allocations
    BY <1>1, <1>2, <1>3, <1>4, <1>5
  <2> QED
    BY Zenon, <2>1, <2>2 DEF Ledgers
<1> HIDE DEF new
<1>7. \A a \in old : a.token \in Nat /\ a.token < ledger.next_token /\ IsFiniteSet(a.gpus)
  BY Zenon, <1>1 DEF LedgerInv, Allocations
<1>8. new \notin old
  BY <1>1, <1>4, <1>7
<1>9. t \notin Leased /\ Leased' = Leased \cup {t}
  BY Zenon, <1>1 DEF Leased, NoToken
<1>10. IsFiniteSet(ledger'.allocations) /\ Cardinality(ledger'.allocations) = Cardinality(old) + 1
  <2>1. /\ IsFiniteSet(old \cup {new})
        /\ Cardinality(old \cup {new}) = IF new \in old THEN Cardinality(old) ELSE Cardinality(old) + 1
    BY Zenon, <1>1, FS_AddElement
  <2> QED
    BY Zenon, <1>5, <1>8, <2>1
<1>11. IsFiniteSet(Leased') /\ Cardinality(Leased') = Cardinality(Leased) + 1
  BY Zenon, <1>1, <1>9, FS_AddElement
<1>12. \A u \in Leased : run'[u].token = run[u].token /\ u \in Tasks /\ run[u].token # NoToken
  BY Zenon, <1>9 DEF Leased
<1>13. {a.token : a \in old} = {run[u].token : u \in Leased} /\ Cardinality(old) = Cardinality(Leased)
  BY Zenon DEF LedgerInv, LedgerExact
<1>14. \A u \in Leased : run[u].token \in Nat /\ run[u].token < ledger.next_token
  <2> SUFFICES ASSUME NEW u \in Leased PROVE run[u].token \in Nat /\ run[u].token < ledger.next_token
    BY Zenon
  <2>1. PICK a \in old : a.token = run[u].token
    BY <1>13
  <2> QED
    BY Zenon, <1>7, <2>1
<1>15. \A a, b \in ledger'.allocations : a.token = b.token => a = b
  BY <1>1, <1>4, <1>5, <1>7 DEF LedgerInv
<1>16. \A u, v \in Leased' : run'[u].token = run'[v].token => u = v
  BY <1>1, <1>9, <1>12, <1>14 DEF LedgerInv
<1>17. \A a \in ledger'.allocations : a.token < ledger'.next_token /\ IsFiniteSet(a.gpus)
  BY <1>1, <1>2, <1>4, <1>5, <1>7
<1>18. {a.token : a \in ledger'.allocations} = {run'[u].token : u \in Leased'}
  <2>1. {a.token : a \in old \cup {new}} = {a.token : a \in old} \cup {ledger.next_token}
    BY Zenon, <1>4
  <2>2. {run'[u].token : u \in Leased \cup {t}} = {run[u].token : u \in Leased} \cup {ledger.next_token}
    BY <1>12
  <2> QED
    BY Zenon, <1>5, <1>9, <1>13, <2>1, <2>2
<1>19. \A k \in Resources : ledger'.usage[k] = Sum(k, ledger'.allocations) /\ ledger'.usage[k] <= CapacityOf(k)'
  <2> SUFFICES ASSUME NEW k \in Resources
               PROVE  ledger'.usage[k] = Sum(k, ledger'.allocations) /\ ledger'.usage[k] <= CapacityOf(k)'
    BY Zenon
  <2>1. ledger'.usage[k] = ledger.usage[k] + Asks(q, k) /\ ledger'.usage[k] <= CapacityOf(k)
    BY Zenon, <1>5 DEF Available
  <2>2. Sum(k, old \cup {new}) = Sum(k, old) + new.amount[k]
    BY Zenon, <1>1, <1>4, <1>8, SumAdds
  <2>3. ledger.usage[k] = Sum(k, old) /\ CapacityOf(k)' = CapacityOf(k)
    BY Zenon DEF LedgerInv, LedgerExact, CapacityOf
  <2> QED
    BY Zenon, <1>4, <1>5, <2>1, <2>2, <2>3
<1>20. ledger'.gpus = UNION {a.gpus : a \in ledger'.allocations}
  <2>1. ledger.gpus = UNION {a.gpus : a \in old}
    BY Zenon DEF LedgerInv, LedgerExact
  <2> QED
    BY <1>4, <1>5, <2>1
<1>21. \A a, b \in ledger'.allocations : a # b => a.gpus \cap b.gpus = {}
  <2>1. \A a \in old : a.gpus \subseteq ledger.gpus
    BY DEF LedgerInv, LedgerExact
  <2>2. \A a, b \in old : a # b => a.gpus \cap b.gpus = {}
    BY Zenon DEF LedgerInv, LedgerExact
  <2> QED
    BY <1>2, <1>4, <1>5, <2>1, <2>2
<1>22. ASSUME NEW u \in Leased', NEW a \in ledger'.allocations, a.token = run'[u].token
       PROVE  a.gpus \subseteq MatchingGpus(RequestOf[u])' /\ Cardinality(a.gpus) = RequestOf[u].gpu_count
  <2>1. MatchingGpus(RequestOf[u])' = MatchingGpus(RequestOf[u])
    BY Zenon DEF MatchingGpus
  <2>2. CASE u = t
    <3>1. a = new
      BY <1>4, <1>5, <1>7, <1>22, <2>2
    <3> QED
      BY Zenon, <1>2, <1>4, <2>1, <2>2, <3>1
  <2>3. CASE u # t
    <3>1. u \in Leased /\ a \in old /\ a.token = run[u].token
      BY <1>1, <1>4, <1>5, <1>9, <1>12, <1>14, <1>22, <2>3
    <3> QED
      BY <2>1, <3>1 DEF LedgerInv, LedgerExact
  <2> QED
    BY Zenon, <2>2, <2>3
<1>23. LedgerExact'
  BY Zenon, <1>10, <1>11, <1>13, <1>18, <1>19, <1>20, <1>21, <1>22 DEF LedgerExact
<1> QED
  BY Zenon, <1>6, <1>10, <1>11, <1>15, <1>16, <1>17, <1>23 DEF LedgerInv

\* A release takes back the allocation of the lease, if it has one, and no
\* other.
LEMMA ReleaseKept ==
    ASSUME TypeInv, LedgerInv, NEW t \in Tasks, ledger' = Released(run[t].token), capacity' = capacity,
           run'[t].token = NoToken, \A u \in Tasks \ {t} : run'[u].token = run[u].token
    PROVE  LedgerInv' /\ ledger' \in Ledgers
<1> DEFINE old == ledger.allocations
           gone == {a \in old : a.token = run[t].token}
<1>1. /\ ledger.usage \in [Resources -> Nat] /\ ledger.gpus \in SUBSET Gpus /\ ledger.next_token \in Nat \ {0}
      /\ old \in SUBSET Allocations /\ IsFiniteSet(old) /\ IsFiniteSet(Leased) /\ ledger \in Ledgers
  BY Zenon DEF TypeInv, LedgerInv, Ledgers
<1>2. /\ ledger'.usage = [k \in Resources |-> SaturatingSub(ledger.usage[k], Sum(k, gone))]
      /\ ledger'.gpus = ledger.gpus \ UNION {a.gpus : a \in gone}
      /\ ledger'.next_token = ledger.next_token
      /\ ledger'.allocations = old \ gone
      /\ ledger' = [usage |-> ledger'.usage, gpus |-> ledger'.gpus, next_token |-> ledger'.next_token,
                    allocations |-> ledger'.allocations]
  BY Zenon, <1>1 DEF Released, Ledgers
<1>3. {a.token : a \in old} = {run[u].token : u \in Leased} /\ Cardinality(old) = Cardinality(Leased)
  BY Zenon DEF LedgerInv, LedgerExact
<1>4. \A u \in Leased \ {t} : run'[u].token = run[u].token /\ u \in Tasks
  BY Zenon DEF Leased
<1>5. Leased' = Leased \ {t}
  BY Zenon DEF Leased, NoToken
<1>6. CASE run[t].token = NoToken
  <2>1. gone = {} /\ t \notin Leased
    BY Zenon, <1>1, <1>6 DEF Allocations, NoToken, Leased
  <2>2. \A k \in Resources : Sum(k, gone) = 0
    <3>1. \A k \in Resources : Units(k, gone) = {}
      BY Zenon, <2>1 DEF Units
    <3> QED
      BY Zenon, <3>1, FS_EmptySet DEF Sum
  <2>3. ledger'.usage = ledger.usage
    <3>1. \A k \in Resources : SaturatingSub(ledger.usage[k], 0) = ledger.usage[k]
      BY <1>1 DEF SaturatingSub
    <3>2. \A k \in Resources : ledger'.usage[k] = ledger.usage[k]
      BY <1>2, <2>2, <3>1
    <3>3. PICK new : new = ledger'.usage
      BY Zenon
    <3>4. PICK was : was = ledger.usage
      BY Zenon
    <3>5. new \in [Resources -> Nat] /\ was \in [Resources -> Nat]
      <4>1. new = [k \in Resources |-> SaturatingSub(ledger.usage[k], Sum(k, gone))]
        BY Zenon, <1>2, <3>3
      <4>2. new = [k \in Resources |-> new[k]]
        BY Zenon, <4>1
      <4>3. \A k \in Resources : new[k] \in Nat
        BY Zenon, <1>1, <3>2, <3>3
      <4> QED
        BY Zenon, <1>1, <3>4, <4>2, <4>3
    <3>6. \A k \in Resources : new[k] = was[k]
      BY Zenon, <3>2, <3>3, <3>4
    <3>7. new = was
      BY <3>5, <3>6
    <3> QED
      BY Zenon, <3>3, <3>4, <3>7
  <2>4. ledger' = ledger
    BY ZenonT(30), <1>1, <1>2, <2>1, <2>3 DEF Ledgers
  <2>5. \A u \in Tasks : run'[u].token = run[u].token
    BY Zenon, <1>6
  <2> QED
    BY Zenon, <1>1, <2>4, <2>5, LedgerUntouched
<1>7. CASE run[t].token # NoToken
  <2>1. t \in Leased
    BY Zenon, <1>7 DEF Leased
  <2>2. PICK mine \in old : mine.token = run[t].token
    BY <1>3, <2>1
  <2>3. gone = {mine}
    BY Zenon, <2>2 DEF LedgerInv
  <2> HIDE DEF gone
  <2> DEFINE rest == old \ {mine}
  <2>4. ledger'.allocations = rest /\ rest \in SUBSET Allocations /\ mine \in Allocations \ rest /\ old = rest \cup {mine}
    BY <1>1, <1>2, <2>2, <2>3
  <2>5. IsFiniteSet(rest) /\ Cardinality(rest) = Cardinality(old) - 1
    <3>1. /\ IsFiniteSet(old \ {mine})
          /\ Cardinality(old \ {mine}) = IF mine \in old THEN Cardinality(old) - 1 ELSE Cardinality(old)
      BY Zenon, <1>1, FS_RemoveElement
    <3> QED
      BY Zenon, <2>2, <3>1
  <2>6. IsFiniteSet(Leased') /\ Cardinality(Leased') = Cardinality(Leased) - 1
    BY Zenon, <1>1, <1>5, <2>1, FS_RemoveElement
  <2>7. \A k \in Resources : ledger'.usage[k] = Sum(k, rest) /\ Sum(k, rest) \in Nat
                             /\ Sum(k, rest) <= ledger.usage[k]
    <3> SUFFICES ASSUME NEW k \in Resources
                 PROVE  /\ ledger'.usage[k] = Sum(k, rest) /\ Sum(k, rest) \in Nat
                        /\ Sum(k, rest) <= ledger.usage[k]
      BY Zenon
    <3>1. ledger'.usage[k] = SaturatingSub(ledger.usage[k], Sum(k, {mine}))
      BY Zenon, <1>2, <2>3
    <3>2. Sum(k, {mine}) = mine.amount[k] /\ mine.amount[k] \in Nat
      BY Zenon, <2>4, SumOfOne DEF Allocations
    <3>3. Sum(k, old) = Sum(k, rest) + mine.amount[k] /\ Sum(k, rest) \in Nat
      <4> HIDE DEF rest
      <4>1. Sum(k, rest \cup {mine}) = Sum(k, rest) + mine.amount[k]
        BY <2>4, <2>5, SumAdds
      <4>2. Sum(k, rest) \in Nat
        BY Zenon, <2>4, <2>5, UnitsFinite
      <4> QED
        BY Zenon, <2>4, <4>1, <4>2
    <3>4. ledger.usage[k] = Sum(k, old)
      BY Zenon DEF LedgerInv, LedgerExact
    <3> QED
      BY <3>1, <3>2, <3>3, <3>4 DEF SaturatingSub
  <2>8. ledger' \in Ledgers
    <3>1. ledger'.usage \in [Resources -> Nat]
      BY <1>2, <2>7
    <3> QED
      BY Zenon, <1>1, <1>2, <2>4, <3>1 DEF Ledgers
  <2>9. ledger'.gpus = UNION {a.gpus : a \in rest}
    <3>1. ledger.gpus = UNION {a.gpus : a \in old} /\ \A a, b \in old : a # b => a.gpus \cap b.gpus = {}
      BY Zenon DEF LedgerInv, LedgerExact
    <3>2. ledger'.gpus = ledger.gpus \ mine.gpus
      BY <1>2, <2>3
    <3> QED
      BY <2>4, <3>1, <3>2
  <2>10. {a.token : a \in rest} = {run'[u].token : u \in Leased'}
    <3>1. {a.token : a \in rest} = {a.token : a \in old} \ {run[t].token}
      BY <2>2, <2>4 DEF LedgerInv
    <3>2. {run'[u].token : u \in Leased'} = {run[u].token : u \in Leased} \ {run[t].token}
      BY <1>4, <1>5, <2>1 DEF LedgerInv
    <3> QED
      BY Zenon, <1>3, <3>1, <3>2
  <2>11. LedgerExact'
    <3>1. \A k \in Resources : ledger'.usage[k] <= CapacityOf(k)'
      <4> SUFFICES ASSUME NEW k \in Resources PROVE ledger'.usage[k] <= CapacityOf(k)'
        BY Zenon
      <4>1. ledger.usage[k] <= CapacityOf(k) /\ CapacityOf(k)' = CapacityOf(k) /\ ledger.usage[k] \in Nat
        BY Zenon, <1>1 DEF LedgerInv, LedgerExact, CapacityOf
      <4>2. CapacityOf(k) \in Nat
        BY Zenon, ExecutionAssumption DEF TypeInv, CapacityOf
      <4> QED
        BY <2>7, <4>1, <4>2
    <3>2. \A a, b \in rest : a # b => a.gpus \cap b.gpus = {}
      BY Zenon, <2>4 DEF LedgerInv, LedgerExact
    <3>3. ASSUME NEW u \in Leased', NEW a \in rest, a.token = run'[u].token
          PROVE  a.gpus \subseteq MatchingGpus(RequestOf[u])' /\ Cardinality(a.gpus) = RequestOf[u].gpu_count
      <4>1. MatchingGpus(RequestOf[u])' = MatchingGpus(RequestOf[u])
        BY Zenon DEF MatchingGpus
      <4>2. u \in Leased /\ a \in old /\ a.token = run[u].token
        BY Zenon, <1>4, <1>5, <2>4, <3>3
      <4> QED
        BY <4>1, <4>2 DEF LedgerInv, LedgerExact
    <3>4. Cardinality(rest) = Cardinality(Leased')
      BY Zenon, <1>3, <2>5, <2>6
    <3> QED
      BY Zenon, <2>4, <2>7, <2>9, <2>10, <3>1, <3>2, <3>3, <3>4 DEF LedgerExact
  <2>12. /\ \A a, b \in rest : a.token = b.token => a = b
         /\ \A u, v \in Leased' : run'[u].token = run'[v].token => u = v
         /\ \A a \in rest : a.token < ledger'.next_token /\ IsFiniteSet(a.gpus)
    BY <1>2, <1>4, <1>5, <2>4 DEF LedgerInv
  <2> QED
    BY Zenon, <2>4, <2>5, <2>6, <2>8, <2>11, <2>12 DEF LedgerInv
<1> QED
  BY Zenon, <1>6, <1>7


-----------------------------------------------------------------------------
(***************************************************************************)
(* One task.                                                               *)
(***************************************************************************)
OneTask(t) == RunInv(t) /\ PayloadInv(t) /\ ReporterInv(t)

\* A step on one task leaves the others and the registry alone.
OnlyTask(t) ==
    /\ row' \in [Tasks -> Rows] /\ run' \in [Tasks -> Runs]
    /\ reporter' \in [Tasks -> [Attempts -> Reporters]]
    /\ \A u \in Tasks \ {t} : row'[u] = row[u] /\ run'[u] = run[u] /\ reporter'[u] = reporter[u]
    /\ UNCHANGED <<registry, capacity, restarts>>
    /\ service' \in {service, "serving", "stopping"}

Types ==
    /\ capacity \in Capacities
    /\ service \in {"building", "serving", "stopping"}
    /\ row \in [Tasks -> Rows]
    /\ run \in [Tasks -> Runs]
    /\ reporter \in [Tasks -> [Attempts -> Reporters]]
    /\ restarts \in 0 .. RestartBound

\* The invariant of the task is enough.
LEMMA OnlyTaskKept ==
    ASSUME TypeInv, TaskInv, NEW t \in Tasks, OnlyTask(t), OneTask(t)'
    PROVE  Types' /\ TaskInv'
<1>1. ASSUME NEW u \in Tasks, u # t
      PROVE  RunInv(u)' /\ PayloadInv(u)' /\ ReporterInv(u)'
  <2>1. RunInv(u) /\ PayloadInv(u) /\ ReporterInv(u)
    BY Zenon DEF TaskInv
  <2>2. row'[u] = row[u] /\ run'[u] = run[u] /\ reporter'[u] = reporter[u] /\ restarts' = restarts
    BY Zenon, <1>1 DEF OnlyTask
  <2>3. RunInv(u)'
    BY Zenon, <2>1, <2>2 DEF RunInv
  <2>4. DispatchIsEligible(PayloadOf[u])' <=> DispatchIsEligible(PayloadOf[u])
    BY Zenon DEF OnlyTask, DispatchIsEligible, Declared, DescriptorsOf
  <2>5. PayloadInv(u)'
    BY Zenon, <2>1, <2>2, <2>4 DEF PayloadInv, OnlyTask
  <2>6. ReporterInv(u)'
    BY Zenon, <2>1, <2>2 DEF ReporterInv
  <2> QED
    BY Zenon, <2>3, <2>5, <2>6
<1>2. TaskInv'
  BY Zenon, <1>1 DEF OneTask, TaskInv
<1>3. Types'
  BY Zenon DEF OnlyTask, TypeInv, Types
<1> QED
  BY Zenon, <1>2, <1>3

\* What the invariant says of one task.
LEMMA TaskFields ==
    ASSUME TypeInv, TaskInv, NEW t \in Tasks
    PROVE  /\ row[t] \in Rows /\ run[t] \in Runs /\ reporter[t] \in [Attempts -> Reporters]
           /\ RunInv(t) /\ PayloadInv(t) /\ ReporterInv(t)
           /\ restarts \in Nat /\ restarts <= RestartBound
           /\ max_attempts \in Nat /\ max_attempts > 0 /\ RestartBound \in Nat
BY ExecutionAssumption DEF TypeInv, TaskInv

\* The attempt that start_encoded gave a running task is one of those that can
\* have a reporter.
LEMMA RunningAttempt ==
    ASSUME TypeInv, TaskInv, NEW t \in Tasks, run[t].pc \in {"started", "running", "ended", "payload_decode"}
    PROVE  run[t].attempt \in Attempts /\ run[t].attempt = row[t].attempt
<1>1. row[t].attempt = run[t].attempt /\ run[t].attempt > 0 /\ row[t].attempt <= max_attempts + restarts
  BY Zenon, TaskFields DEF RunInv
<1>2. row[t].attempt \in Nat
  BY Zenon, TaskFields DEF Rows
<1>3. PICK n : n = row[t].attempt
  BY Zenon
<1>4. n \in Nat /\ n > 0 /\ n <= max_attempts + restarts
  BY Zenon, <1>1, <1>2, <1>3
<1>5. /\ restarts \in Nat /\ restarts <= RestartBound
      /\ max_attempts \in Nat /\ RestartBound \in Nat
  BY Zenon, TaskFields
<1>6. n \in 1 .. max_attempts + RestartBound
  BY <1>4, <1>5
<1> QED
  BY Zenon, <1>1, <1>3, <1>6 DEF Attempts

\* An attempt does not exceed itself.
LEMMA SelfBound == \A n \in Nat : n <= n
  OBVIOUS

\* The registry decides whether a payload is eligible.
LEMMA SameRegistry ==
    ASSUME registry' = registry, NEW p
    PROVE  DispatchIsEligible(p)' <=> DispatchIsEligible(p)
BY Zenon DEF DispatchIsEligible, Declared, DescriptorsOf

\* A row that waits, or stops waiting, without an attempt.
LEMMA WaitingKept ==
    ASSUME TypeInv, TaskInv, NEW t \in Tasks, NEW new \in Rows, row' = [row EXCEPT ![t] = new],
           row[t].state \in {"Queued", "Blocked"}, new.state \in {"Queued", "Blocked", "Cancelled"},
           new.attempt = row[t].attempt, new.progress = row[t].progress,
           UNCHANGED <<registry, capacity, service, run, reporter, restarts>>
    PROVE  Types' /\ TaskInv'
<1>1. row'[t] = new
  BY Zenon DEF TypeInv
<1>2. OnlyTask(t)
  BY Zenon DEF OnlyTask, TypeInv
<1>3. run[t].pc \in {"none", "reserved"}
  BY Zenon, TaskFields DEF RunInv, Runs
<1>4. OneTask(t)'
  BY Zenon, <1>1, <1>3, TaskFields, SameRegistry DEF OneTask, RunInv, PayloadInv, ReporterInv
<1> QED
  BY Zenon, <1>2, <1>4, OnlyTaskKept

\* A run that ends, or loses its reservation, without writing the row.
LEMMA DroppedKept ==
    ASSUME TypeInv, TaskInv, NEW t \in Tasks, NEW new \in Runs, run' = [run EXCEPT ![t] = new],
           \/ new = NoRun
           \/ /\ new.pc = "ended" /\ new.token = NoToken
              /\ new.attempt = run[t].attempt /\ run[t].pc = "running"
           \/ new.pc = "returning" /\ run[t].pc \in {"started", "ended", "payload_decode"},
           service' \in {service, "stopping"}, UNCHANGED <<registry, capacity, row, reporter, restarts>>
    PROVE  Types' /\ TaskInv'
<1>1. run'[t] = new /\ new.pc \in {"none", "ended", "returning"}
  BY DEF TypeInv, NoRun
<1>2. OnlyTask(t)
  BY Zenon DEF OnlyTask, TypeInv
<1>3. RunInv(t)'
  BY <1>1, TaskFields DEF RunInv, NoRun
<1>4. service' = "building" => new.pc = "none"
  <2>1. service' = "building" => run[t].pc = "none"
    BY Zenon, TaskFields DEF PayloadInv
  <2>2. run[t].pc = "none" => new = NoRun
    BY Zenon
  <2> QED
    BY <2>1, <2>2 DEF NoRun
<1>5. PayloadInv(t)'
  BY Zenon, <1>1, <1>4 DEF PayloadInv
<1>6. ReporterInv(t)'
  BY Zenon, <1>1, TaskFields DEF ReporterInv
<1> QED
  BY Zenon, <1>2, <1>3, <1>5, <1>6, OnlyTaskKept DEF OneTask

\* The row after a dispatch, a cancellation or a resume.
LEMMA WaitingSteps ==
    ASSUME TypeInv, TaskInv, NEW t \in Tasks,
           \/ Dispatch(t) /\ UNCHANGED run
           \/ Cancel(t)
           \/ ResumeBlocked(t)
    PROVE  Types' /\ TaskInv'
<1>1. row \in [Tasks -> Rows] /\ row[t] \in Rows
  BY Zenon, TaskFields DEF TypeInv
<1>2. CASE Dispatch(t) /\ UNCHANGED run
  <2>1. PICK new : new = Blocked(row[t])
    BY Zenon
  <2>2. /\ new \in Rows /\ new.state = "Blocked" /\ new.attempt = row[t].attempt
        /\ new.progress = row[t].progress
    BY Zenon, <1>1, <2>1 DEF Blocked, Rows, Delays
  <2>3. /\ row[t].state = "Queued" /\ run[t].pc # "reserved"
        /\ UNCHANGED <<registry, capacity, service, reporter, restarts>>
    BY Zenon, <1>2 DEF Dispatch
  <2>4. CASE row' = [row EXCEPT ![t] = Blocked(@)]
    BY Zenon, <1>1, <1>2, <2>1, <2>2, <2>3, <2>4, WaitingKept
  <2>5. CASE run' = [run EXCEPT ![t] = [NoRun EXCEPT !.pc = "reserved", !.token = ledger.next_token]]
    <3>1. run'[t].pc = "reserved"
      BY Zenon, <2>5 DEF TypeInv, NoRun
    <3> QED
      BY Zenon, <1>2, <2>3, <3>1
  <2> QED
    BY Zenon, <1>2, <2>4, <2>5 DEF Dispatch
<1>3. CASE Cancel(t)
  <2>1. PICK new : new = [row[t] EXCEPT !.state = "Cancelled", !.delay = 0]
    BY Zenon
  <2>2. /\ new \in Rows /\ new.state = "Cancelled" /\ new.attempt = row[t].attempt
        /\ new.progress = row[t].progress
    BY Zenon, <1>1, <2>1 DEF Rows, Delays
  <2>3. row' = [row EXCEPT ![t] = new]
    BY Zenon, <1>1, <1>3, <2>1 DEF Cancel, Rows
  <2> QED
    BY Zenon, <1>3, <2>2, <2>3, WaitingKept DEF Cancel
<1>4. CASE ResumeBlocked(t)
  <2>1. PICK new : new = [row[t] EXCEPT !.state = "Queued"]
    BY Zenon
  <2>2. /\ new \in Rows /\ new.state = "Queued" /\ new.attempt = row[t].attempt
        /\ new.progress = row[t].progress
    BY Zenon, <1>1, <2>1 DEF Rows
  <2>3. row' = [row EXCEPT ![t] = new]
    BY Zenon, <1>1, <1>4, <2>1 DEF ResumeBlocked, Rows
  <2> QED
    BY Zenon, <1>4, <2>2, <2>3, WaitingKept DEF ResumeBlocked
<1> QED
  BY Zenon, <1>2, <1>3, <1>4

\* A reservation is made for an eligible payload.
LEMMA ReservedKept ==
    ASSUME TypeInv, TaskInv, NEW t \in Tasks, ledger.next_token \in Nat,
           Dispatch(t), run' = [run EXCEPT ![t] = [NoRun EXCEPT !.pc = "reserved", !.token = ledger.next_token]],
           UNCHANGED row, DispatchIsEligible(PayloadOf[t])
    PROVE  Types' /\ TaskInv'
<1>1. PICK new : new = [NoRun EXCEPT !.pc = "reserved", !.token = ledger.next_token]
  BY Zenon
<1>2. new \in Runs /\ new.pc = "reserved"
  BY Zenon, <1>1 DEF NoRun, Runs
<1>3. run' = [run EXCEPT ![t] = new] /\ run'[t] = new
  BY Zenon, <1>1 DEF TypeInv
<1>4. service = "serving" /\ row[t].state = "Queued" /\ UNCHANGED <<registry, capacity, service, reporter, restarts>>
  BY Zenon DEF Dispatch
<1>5. OnlyTask(t)
  BY Zenon, <1>2, <1>3, <1>4 DEF OnlyTask, TypeInv
<1>6. OneTask(t)'
  BY Zenon, <1>2, <1>3, <1>4, TaskFields, SameRegistry DEF OneTask, RunInv, PayloadInv, ReporterInv
<1> QED
  BY Zenon, <1>5, <1>6, OnlyTaskKept

\* start_encoded spends the attempt, whose reporter does not exist yet.
LEMMA StartKept ==
    ASSUME TypeInv, TaskInv, NEW t \in Tasks, StartEncoded(t)
    PROVE  Types' /\ TaskInv'
<1>1. PICK n : n = row[t].attempt + 1
  BY Zenon
<1>2. n \in Nat /\ n <= max_attempts + restarts
  BY <1>1, TaskFields DEF StartEncoded, Rows, RunInv
<1>3. row' = [row EXCEPT ![t] = [state |-> "Running", attempt |-> n, progress |-> 0, delay |-> 0]]
  BY Zenon, <1>1 DEF StartEncoded, TypeInv
<1>4. /\ row'[t] \in Rows /\ row'[t].state = "Running" /\ row'[t].attempt = n /\ row'[t].progress = 0
  BY Zenon, <1>2, <1>3 DEF TypeInv, Rows, Delays
<1>5. run'[t] \in Runs /\ run'[t].pc = "started" /\ run'[t].attempt = n
  BY Zenon, <1>1, <1>2 DEF StartEncoded, TypeInv, Runs
<1>6. UNCHANGED <<registry, capacity, service, reporter, restarts>> /\ service = "serving" /\ run[t].pc = "reserved"
  BY Zenon DEF StartEncoded
<1>7. OnlyTask(t)
  <2>1. row' \in [Tasks -> Rows] /\ \A u \in Tasks \ {t} : row'[u] = row[u]
    BY Zenon, <1>3, <1>4 DEF TypeInv
  <2>2. run' \in [Tasks -> Runs] /\ \A u \in Tasks \ {t} : run'[u] = run[u]
    BY Zenon, <1>5 DEF StartEncoded, TypeInv
  <2> QED
    BY Zenon, <1>6, <2>1, <2>2 DEF OnlyTask, TypeInv
<1>8. RunInv(t)'
  BY <1>1, <1>2, <1>4, <1>5, <1>6, TaskFields DEF RunInv, Rows
<1>9. PayloadInv(t)'
  BY Zenon, <1>5, <1>6, TaskFields, SameRegistry DEF PayloadInv
<1>10. ASSUME NEW a \in Attempts, reporter[t][a].pc # "none"
       PROVE  a \in Nat /\ a < n
  <2>1. PICK m : m = row[t].attempt
    BY Zenon
  <2>2. a <= m /\ m \in Nat /\ n = m + 1
    BY Zenon, <1>1, <1>10, <2>1, TaskFields DEF ReporterInv, Rows
  <2>3. a \in Nat
    BY DEF Attempts
  <2> QED
    BY <2>2, <2>3
<1>11. ReporterInv(t)'
  BY <1>2, <1>4, <1>5, <1>6, <1>10 DEF ReporterInv
<1> QED
  BY Zenon, <1>7, <1>8, <1>9, <1>11, OnlyTaskKept DEF OneTask

\* prepare fails for an eligible payload only if its bytes do not decode.
LEMMA OnlyDecodingFails ==
    ASSUME NEW p, DispatchIsEligible(p), ~Prepares(p)
    PROVE  ~p.decodes
BY Zenon DEF DispatchIsEligible, Declared, Prepares, AdapterPrepares

\* The attempt gets its reporter, or fails to decode.
LEMMA PrepareKept ==
    ASSUME TypeInv, TaskInv, NEW t \in Tasks, Prepare(t)
    PROVE  Types' /\ TaskInv'
<1>1. /\ run[t].pc = "started" /\ row[t].state = "Running" /\ row[t].attempt = run[t].attempt
      /\ DispatchIsEligible(PayloadOf[t]) /\ row[t].progress = 0 /\ service # "building" /\ run[t].attempt > 0
  BY Zenon, TaskFields DEF Prepare, RunInv, PayloadInv, ReporterInv
<1>2. UNCHANGED <<registry, capacity, service, row, restarts>>
  BY DEF Prepare
<1>3. CASE Prepares(PayloadOf[t])
  <2>1. PICK n : n = run[t].attempt
    BY Zenon
  <2>2. /\ run' = [run EXCEPT ![t].pc = "running"]
        /\ reporter' = [reporter EXCEPT ![t][n] = NewReporter]
    BY Zenon, <1>3, <2>1 DEF Prepare
  <2>3. n \in Attempts
    BY Zenon, <1>1, <2>1, RunningAttempt
  <2>4. /\ run' \in [Tasks -> Runs] /\ \A u \in Tasks \ {t} : run'[u] = run[u]
        /\ run'[t].pc = "running" /\ run'[t].attempt = n
    BY Zenon, <2>1, <2>2 DEF TypeInv, Runs
  <2>5. NewReporter \in Reporters /\ NewReporter.progress_version = 0 /\ NewReporter.pc = "idle"
    BY Zenon DEF NewReporter, Reporters
  <2>6. /\ reporter' \in [Tasks -> [Attempts -> Reporters]]
        /\ \A u \in Tasks \ {t} : reporter'[u] = reporter[u]
        /\ reporter'[t][n] = NewReporter /\ \A a \in Attempts \ {n} : reporter'[t][a] = reporter[t][a]
    BY Zenon, <2>2, <2>3, <2>5 DEF TypeInv
  <2>7. OnlyTask(t)
    BY Zenon, <1>2, <2>4, <2>6 DEF OnlyTask, TypeInv
  <2>8. RunInv(t)'
    BY Zenon, <1>1, <1>2, <2>1, <2>4, TaskFields DEF RunInv
  <2>9. PayloadInv(t)'
    BY Zenon, <1>1, <1>2, <2>4 DEF PayloadInv
  <2>10. ReporterInv(t)'
    <3>1. row'[t].attempt = n /\ row'[t].progress = 0
      BY Zenon, <1>1, <1>2, <2>1
    <3>2. n \in Nat
      BY <2>3 DEF Attempts
    <3>3. ASSUME NEW a \in Attempts, reporter'[t][a].pc # "none" PROVE a <= n
      <4>1. CASE a = n
        BY Zenon, <3>2, <4>1, SelfBound
      <4>2. CASE a # n
        BY Zenon, <1>1, <2>1, <2>6, <3>3, <4>2, TaskFields DEF ReporterInv
      <4> QED
        BY Zenon, <4>1, <4>2
    <3> QED
      BY Zenon, <2>4, <2>5, <2>6, <3>1, <3>3 DEF ReporterInv
  <2> QED
    BY Zenon, <2>7, <2>8, <2>9, <2>10, OnlyTaskKept DEF OneTask
<1>4. CASE ~Prepares(PayloadOf[t])
  <2>1. run' = [run EXCEPT ![t].pc = "payload_decode"] /\ reporter' = reporter
    BY Zenon, <1>4 DEF Prepare
  <2>2. /\ run' \in [Tasks -> Runs] /\ \A u \in Tasks \ {t} : run'[u] = run[u]
        /\ run'[t].pc = "payload_decode" /\ run'[t].attempt = run[t].attempt
    BY Zenon, <2>1 DEF TypeInv, Runs
  <2>3. ~PayloadOf[t].decodes
    BY Zenon, <1>1, <1>4, OnlyDecodingFails
  <2>4. OnlyTask(t)
    BY Zenon, <1>2, <2>1, <2>2 DEF OnlyTask, TypeInv
  <2>5. RunInv(t)'
    BY Zenon, <1>1, <1>2, <2>2, TaskFields DEF RunInv
  <2>6. PayloadInv(t)'
    BY Zenon, <1>1, <1>2, <2>2, <2>3 DEF PayloadInv
  <2>7. ReporterInv(t)'
    BY Zenon, <1>1, <1>2, <2>1, <2>2, TaskFields DEF ReporterInv
  <2> QED
    BY Zenon, <2>4, <2>5, <2>6, <2>7, OnlyTaskKept DEF OneTask
<1> QED
  BY Zenon, <1>3, <1>4

\* finish retries only what may be attempted again.
LEMMA FinishKept ==
    ASSUME TypeInv, TaskInv, NEW t \in Tasks, NEW retryable \in BOOLEAN, Finish(t, retryable)
    PROVE  Types' /\ TaskInv'
<1> DEFINE retry == retryable /\ run[t].attempt < max_attempts
           state == IF retry THEN "Queued" ELSE IF retryable THEN "Failed" ELSE "Succeeded"
           delay == IF retry THEN DelayForAttempt(run[t].attempt) ELSE 0
<1>1. /\ run[t].pc = "ended" /\ row[t].attempt = run[t].attempt /\ run[t].attempt \in Nat
      /\ service # "building"
  BY Zenon, TaskFields DEF Finish, RunInv, Runs, PayloadInv
<1>2. state \in {"Queued", "Failed", "Succeeded"} /\ (state = "Queued" => run[t].attempt < max_attempts)
  BY Zenon
<1>3. delay \in Delays
  BY Zenon, <1>1 DEF Delays
<1>4. /\ row' = [row EXCEPT ![t].state = state, ![t].delay = delay]
      /\ run' = [run EXCEPT ![t] = NoRun]
      /\ UNCHANGED <<registry, capacity, service, reporter, restarts>>
  BY Zenon DEF Finish
<1> HIDE DEF state, delay
<1>5. /\ row' \in [Tasks -> Rows] /\ \A u \in Tasks \ {t} : row'[u] = row[u]
      /\ row'[t].state = state /\ row'[t].attempt = row[t].attempt /\ row'[t].progress = row[t].progress
  BY ZenonT(30), <1>2, <1>3, <1>4 DEF TypeInv, Rows
<1>6. /\ run' \in [Tasks -> Runs] /\ \A u \in Tasks \ {t} : run'[u] = run[u]
      /\ run'[t].pc = "none" /\ run'[t].token = NoToken
  BY Zenon, <1>4 DEF TypeInv, Runs, NoRun, NoToken
<1>7. OnlyTask(t)
  BY Zenon, <1>4, <1>5, <1>6 DEF OnlyTask, TypeInv
<1>8. RunInv(t)'
  BY <1>1, <1>2, <1>4, <1>5, <1>6, TaskFields DEF RunInv
<1>9. PayloadInv(t)' /\ ReporterInv(t)'
  BY Zenon, <1>4, <1>5, <1>6, TaskFields DEF PayloadInv, ReporterInv
<1> QED
  BY Zenon, <1>7, <1>8, <1>9, OnlyTaskKept DEF OneTask

\* An attempt whose payload does not decode is final.
LEMMA FinishPayloadKept ==
    ASSUME TypeInv, TaskInv, NEW t \in Tasks, FinishPayloadDecode(t)
    PROVE  Types' /\ TaskInv'
<1>1. /\ row' \in [Tasks -> Rows] /\ \A u \in Tasks \ {t} : row'[u] = row[u]
      /\ row'[t].state = "Failed" /\ row'[t].attempt = row[t].attempt /\ row'[t].progress = row[t].progress
  BY Zenon DEF FinishPayloadDecode, TypeInv, Rows
<1>2. /\ run' \in [Tasks -> Runs] /\ \A u \in Tasks \ {t} : run'[u] = run[u]
      /\ run'[t].pc = "returning"
  BY Zenon DEF FinishPayloadDecode, TypeInv, Runs
<1>3. UNCHANGED <<registry, capacity, service, reporter, restarts>> /\ service # "building"
  BY Zenon, TaskFields DEF FinishPayloadDecode, PayloadInv
<1>4. OnlyTask(t)
  BY Zenon, <1>1, <1>2, <1>3 DEF OnlyTask, TypeInv
<1>5. RunInv(t)' /\ PayloadInv(t)' /\ ReporterInv(t)'
  BY Zenon, <1>1, <1>2, <1>3, TaskFields DEF RunInv, PayloadInv, ReporterInv
<1> QED
  BY Zenon, <1>4, <1>5, OnlyTaskKept DEF OneTask


\* A lease that is dropped, a handler that ends, a store that fails.
LEMMA DropSteps ==
    ASSUME TypeInv, TaskInv, NEW t \in Tasks,
           DropReservation(t) \/ HandlerEnds(t) \/ StoreFails(t) \/ Return(t)
    PROVE  Types' /\ TaskInv'
<1>1. run \in [Tasks -> Runs] /\ run[t] \in Runs /\ NoRun \in Runs
  BY Zenon DEF TypeInv, NoRun, NoToken, Runs
<1>2. CASE DropReservation(t) \/ Return(t)
  <2>1. PICK new : new = NoRun
    BY Zenon
  <2> QED
    BY Zenon, <1>1, <1>2, <2>1, DroppedKept DEF DropReservation, Return
<1>3. CASE HandlerEnds(t)
  <2>1. PICK new : new = [run[t] EXCEPT !.pc = "ended", !.token = NoToken]
    BY Zenon
  <2>2. new \in Runs /\ new.pc = "ended" /\ new.token = NoToken /\ new.attempt = run[t].attempt
    BY Zenon, <1>1, <2>1 DEF Runs, NoToken
  <2>3. run' = [run EXCEPT ![t] = new]
    BY Zenon, <1>1, <1>3, <2>1 DEF HandlerEnds, Runs
  <2> QED
    BY Zenon, <1>3, <2>2, <2>3, DroppedKept DEF HandlerEnds
<1>4. CASE StoreFails(t)
  <2>1. PICK new : new = [run[t] EXCEPT !.pc = "returning"]
    BY Zenon
  <2>2. new \in Runs /\ new.pc = "returning"
    BY Zenon, <1>1, <2>1 DEF Runs
  <2>3. run' = [run EXCEPT ![t] = new]
    BY Zenon, <1>1, <1>4, <2>1 DEF StoreFails, Runs
  <2> QED
    BY Zenon, <1>4, <2>2, <2>3, DroppedKept DEF StoreFails
<1> QED
  BY Zenon, <1>2, <1>3, <1>4

\* A reporter moves without a write: only the answer to a stored report
\* advances its version.
LEMMA ReporterKept ==
    ASSUME TypeInv, TaskInv, NEW t \in Tasks, NEW a \in Attempts, NEW new \in Reporters,
           reporter' = [reporter EXCEPT ![t][a] = new], reporter[t][a].pc # "none", new.pc # "stored",
           \/ new.progress_version = reporter[t][a].progress_version
           \/ reporter[t][a].pc = "stored" /\ new.progress_version = reporter[t][a].progress_version + 1,
           UNCHANGED <<registry, capacity, service, row, run, restarts>>
    PROVE  Types' /\ TaskInv'
<1>1. /\ reporter' \in [Tasks -> [Attempts -> Reporters]]
      /\ \A u \in Tasks \ {t} : reporter'[u] = reporter[u]
      /\ reporter'[t][a] = new /\ \A b \in Attempts \ {a} : reporter'[t][b] = reporter[t][b]
  BY Zenon DEF TypeInv
<1>2. OnlyTask(t)
  BY Zenon, <1>1 DEF OnlyTask, TypeInv
<1>3. RunInv(t)' /\ PayloadInv(t)'
  BY Zenon, TaskFields, SameRegistry DEF RunInv, PayloadInv
<1>4. \A b \in Attempts : reporter'[t][b].pc # "none" => reporter[t][b].pc # "none"
  BY Zenon, <1>1
<1>5. ASSUME run[t].pc = "running"
      PROVE  LET r == reporter'[t][run[t].attempt]
             IN  /\ row[t].progress \in {r.progress_version, r.progress_version + 1}
                 /\ r.pc = "stored" => row[t].progress = r.progress_version + 1
  <2>1. run[t].attempt \in Attempts
    BY ZenonT(30), <1>5, RunningAttempt
  <2>2. CASE run[t].attempt = a
    BY <1>1, <1>5, <2>2, TaskFields DEF ReporterInv, Reporters
  <2>3. CASE run[t].attempt # a
    BY Zenon, <1>1, <1>5, <2>1, <2>3, TaskFields DEF ReporterInv
  <2> QED
    BY Zenon, <2>2, <2>3
<1>6. ReporterInv(t)'
  BY Zenon, <1>4, <1>5, TaskFields DEF ReporterInv
<1> QED
  BY Zenon, <1>2, <1>3, <1>6, OnlyTaskKept DEF OneTask

\* update_progress writes for the attempt that runs, and its reporter knows.
LEMMA UpdateKept ==
    ASSUME TypeInv, TaskInv, NEW t \in Tasks, NEW a \in Attempts, UpdateProgress(t, a)
    PROVE  Types' /\ TaskInv'
<1> DEFINE version == reporter[t][a].progress_version + 1
           updates == UpdatesProgress(row[t], a, version)
<1>1. reporter[t][a] \in Reporters /\ reporter[t][a].pc = "sent" /\ version \in Nat
  BY TaskFields DEF UpdateProgress, Reporters
<1>2. UNCHANGED <<registry, capacity, service, run, restarts>>
  BY Zenon DEF UpdateProgress
<1>3. CASE ~updates
  <2>1. PICK new : new = [reporter[t][a] EXCEPT !.pc = "refused"]
    BY Zenon
  <2>2. /\ new \in Reporters /\ new.pc = "refused"
        /\ new.progress_version = reporter[t][a].progress_version
    BY Zenon, <1>1, <2>1 DEF Reporters
  <2>3. row' = row /\ reporter' = [reporter EXCEPT ![t][a].pc = "refused"]
    BY Zenon, <1>3 DEF UpdateProgress
  <2>4. reporter' = [reporter EXCEPT ![t][a] = new]
    BY Zenon, <1>1, <2>1, <2>3 DEF TypeInv
  <2> QED
    BY Zenon, <1>1, <1>2, <2>2, <2>3, <2>4, ReporterKept
<1>4. CASE updates
  <2>1. row' = [row EXCEPT ![t].progress = version] /\ reporter' = [reporter EXCEPT ![t][a].pc = "stored"]
    BY Zenon, <1>4 DEF UpdateProgress
  <2>2. row[t].state = "Running" /\ row[t].attempt = a
    BY Zenon, <1>4 DEF UpdatesProgress
  <2> HIDE DEF updates
  <2>3. /\ reporter' \in [Tasks -> [Attempts -> Reporters]]
        /\ \A u \in Tasks \ {t} : reporter'[u] = reporter[u]
        /\ reporter'[t][a].pc = "stored"
        /\ reporter'[t][a].progress_version = reporter[t][a].progress_version
        /\ \A b \in Attempts \ {a} : reporter'[t][b] = reporter[t][b]
    BY Zenon, <1>1, <2>1 DEF TypeInv, Reporters
  <2>4. /\ row' \in [Tasks -> Rows] /\ \A u \in Tasks \ {t} : row'[u] = row[u]
        /\ row'[t].state = row[t].state /\ row'[t].attempt = row[t].attempt /\ row'[t].progress = version
    BY Zenon, <1>1, <2>1 DEF TypeInv, Rows
  <2>5. OnlyTask(t)
    BY Zenon, <1>2, <2>3, <2>4 DEF OnlyTask, TypeInv
  <2>6. RunInv(t)' /\ PayloadInv(t)'
    BY Zenon, <1>2, <2>4, TaskFields, SameRegistry DEF RunInv, PayloadInv
  <2>7. run[t].pc # "started"
    BY Zenon, <1>1, <2>2, TaskFields DEF ReporterInv
  <2>8. run[t].pc = "running" => run[t].attempt = a
    BY Zenon, <2>2, TaskFields DEF RunInv
  <2>9. \A b \in Attempts : reporter'[t][b].pc # "none" => reporter[t][b].pc # "none"
    BY Zenon, <1>1, <2>3
  <2>10. ReporterInv(t)'
    BY Zenon, <1>2, <2>3, <2>4, <2>7, <2>8, <2>9, TaskFields DEF ReporterInv
  <2> QED
    BY Zenon, <2>5, <2>6, <2>10, OnlyTaskKept DEF OneTask
<1> QED
  BY Zenon, <1>3, <1>4

\* The other steps of a reporter.
LEMMA ReporterSteps ==
    ASSUME TypeInv, TaskInv, NEW t \in Tasks, NEW a \in Attempts,
           Report(t, a) \/ ReportReturns(t, a) \/ ReportDropped(t, a)
    PROVE  Types' /\ TaskInv'
<1>1. reporter \in [Tasks -> [Attempts -> Reporters]] /\ reporter[t][a] \in Reporters
  BY Zenon DEF TypeInv
<1>2. CASE Report(t, a) \/ ReportDropped(t, a)
  <2>1. PICK pc \in {"sent", "idle"} : reporter' = [reporter EXCEPT ![t][a].pc = pc]
    BY Zenon, <1>2 DEF Report, ReportDropped
  <2>2. PICK new : new = [reporter[t][a] EXCEPT !.pc = pc]
    BY Zenon
  <2>3. /\ new \in Reporters /\ new.pc # "stored"
        /\ new.progress_version = reporter[t][a].progress_version
    BY Zenon, <1>1, <2>2 DEF Reporters
  <2>4. reporter' = [reporter EXCEPT ![t][a] = new]
    BY Zenon, <1>1, <2>1, <2>2
  <2> QED
    BY Zenon, <1>2, <2>3, <2>4, ReporterKept DEF Report, ReportDropped
<1>3. CASE ReportReturns(t, a)
  <2>1. PICK new : new = Reported(reporter[t][a])
    BY Zenon
  <2>2. /\ new \in Reporters /\ new.pc = "idle"
        /\ \/ new.progress_version = reporter[t][a].progress_version
           \/ /\ reporter[t][a].pc = "stored"
              /\ new.progress_version = reporter[t][a].progress_version + 1
    BY <1>1, <2>1 DEF Reporters, Reported
  <2>3. reporter' = [reporter EXCEPT ![t][a] = new]
    BY Zenon, <1>1, <1>3, <2>1 DEF ReportReturns
  <2> QED
    BY Zenon, <1>3, <2>2, <2>3, ReporterKept DEF ReportReturns
<1> QED
  BY Zenon, <1>2, <1>3


-----------------------------------------------------------------------------
(***************************************************************************)
(* The process.                                                            *)
(***************************************************************************)
\* Nothing is leased and nothing allocated.
LEMMA EmptyLedgerOK ==
    /\ EmptyLedger \in Ledgers
    /\ EmptyLedger.allocations = {} /\ EmptyLedger.gpus = {}
    /\ \A k \in Resources : EmptyLedger.usage[k] = Sum(k, {}) /\ EmptyLedger.usage[k] = 0
<1>1. \A k \in Resources : Units(k, {}) = {}
  BY Zenon DEF Units
<1>2. \A k \in Resources : Sum(k, {}) = 0
  BY Zenon, <1>1, FS_EmptySet DEF Sum
<1>3. [k \in Resources |-> 0] \in [Resources -> Nat]
  BY Zenon
<1>4. PICK usage \in [Resources -> Nat] : usage = [k \in Resources |-> 0]
  BY Zenon, <1>3
<1>5. /\ EmptyLedger \in Ledgers
      /\ EmptyLedger.allocations = {} /\ EmptyLedger.gpus = {} /\ EmptyLedger.usage = usage
  <2>1. EmptyLedger = [usage |-> usage, gpus |-> {}, next_token |-> 1, allocations |-> {}]
    BY Zenon, <1>4 DEF EmptyLedger
  <2> QED
    BY <2>1 DEF Ledgers
<1>6. \A k \in Resources : usage[k] = 0
  BY Zenon, <1>4
<1> QED
  BY Zenon, <1>2, <1>5, <1>6

\* The tasks at first.
LEMMA InitialTasks ==
    ASSUME Init
    PROVE  TypeInv /\ TaskInv /\ LedgerInv
<1>1. TypeInv
  <2>1. NewRow \in Rows /\ NoRun \in Runs /\ NoReporter \in Reporters
    BY Zenon DEF NewRow, Rows, Delays, NoRun, NoToken, Runs, NoReporter, Reporters
  <2>2. restarts \in 0 .. RestartBound
    BY ExecutionAssumption DEF Init
  <2> QED
    BY Zenon, <2>1, <2>2, EmptyLedgerOK DEF Init, TypeInv, NoReporters
<1>2. TaskInv
  <2> SUFFICES ASSUME NEW t \in Tasks PROVE RunInv(t) /\ PayloadInv(t) /\ ReporterInv(t)
    BY Zenon DEF TaskInv
  <2>1. /\ row[t].state = "Queued" /\ row[t].attempt = 0 /\ run[t].pc = "none" /\ run[t].token = NoToken
        /\ \A a \in Attempts : reporter[t][a].pc = "none"
        /\ restarts = 0
    BY Zenon DEF Init, NewRow, NoRun, NoReporters, NoReporter
  <2> QED
    BY <2>1, ExecutionAssumption DEF RunInv, PayloadInv, ReporterInv
<1>3. LedgerInv
  <2>1. Leased = {}
    BY Zenon DEF Init, Leased, NoRun
  <2>2. ledger.allocations = {} /\ ledger.gpus = {} /\ \A k \in Resources : ledger.usage[k] = Sum(k, {}) /\ ledger.usage[k] = 0
    BY Zenon, EmptyLedgerOK DEF Init
  <2>3. \A k \in Resources : ledger.usage[k] <= CapacityOf(k)
    BY <2>2, ExecutionAssumption DEF Init, CapacityOf
  <2>4. LedgerExact
    BY Zenon, <2>1, <2>2, <2>3 DEF LedgerExact
  <2> QED
    BY Zenon, <2>1, <2>2, <2>4, FS_EmptySet DEF LedgerInv
<1> QED
  BY Zenon, <1>1, <1>2, <1>3

\* A restart forgets runs, reporters and leases, and may repeat one attempt.
LEMMA RestartKept ==
    ASSUME TypeInv, TaskInv, Restart
    PROVE  Types' /\ TaskInv' /\ LedgerInv' /\ ledger' \in Ledgers
<1>1. /\ restarts' = restarts + 1 /\ restarts' \in 0 .. RestartBound
  BY ExecutionAssumption DEF Restart, TypeInv
<1>2. ASSUME NEW t \in Tasks
      PROVE  /\ row'[t] \in Rows /\ row'[t].attempt = row[t].attempt
             /\ row'[t].state \in {"Queued", "Running", "Blocked", "Cancelled", "Failed", "Succeeded"}
             /\ row'[t].state # "Running"
             /\ run'[t] = NoRun /\ \A a \in Attempts : reporter'[t][a] = NoReporter
  <2>1. row'[t] = Recovered(row[t]) /\ row[t] \in Rows
    BY Zenon DEF Restart, TypeInv
  <2>2. Recovered(row[t]) \in Rows /\ Recovered(row[t]).attempt = row[t].attempt /\ Recovered(row[t]).state # "Running"
    BY Zenon, <2>1 DEF Recovered, Rows, Delays
  <2> QED
    BY Zenon, <2>1, <2>2 DEF Restart, NoReporters, Rows
<1>3. NoRun \in Runs /\ NoReporter \in Reporters /\ NoRun.pc = "none" /\ NoRun.token = NoToken /\ NoReporter.pc = "none"
  BY Zenon DEF NoRun, NoToken, Runs, NoReporter, Reporters
<1>4. Types'
  <2>1. row' \in [Tasks -> Rows] /\ run' \in [Tasks -> Runs]
    BY Zenon, <1>2, <1>3 DEF Restart
  <2>2. reporter' \in [Tasks -> [Attempts -> Reporters]]
    BY Zenon, <1>3 DEF Restart, NoReporters
  <2> QED
    BY Zenon, <1>1, <2>1, <2>2 DEF Types, Restart
<1>5. TaskInv'
  <2> SUFFICES ASSUME NEW t \in Tasks PROVE RunInv(t)' /\ PayloadInv(t)' /\ ReporterInv(t)'
    BY Zenon DEF TaskInv
  <2>1. row[t].attempt < max_attempts + restarts' /\ row[t].attempt <= max_attempts + restarts'
    BY <1>1, TaskFields DEF RunInv, Rows
  <2>2. RunInv(t)'
    BY Zenon, <1>2, <1>3, <2>1 DEF RunInv
  <2>3. PayloadInv(t)' /\ ReporterInv(t)'
    BY Zenon, <1>2, <1>3 DEF PayloadInv, ReporterInv
  <2> QED
    BY Zenon, <2>2, <2>3
<1>6. Leased' = {}
  BY Zenon, <1>2, <1>3 DEF Leased
<1>7. ledger' = EmptyLedger /\ capacity' \in Capacities
  BY Zenon DEF Restart
<1>8. \A k \in Resources : CapacityOf(k)' \in Nat
  BY Zenon, <1>7, ExecutionAssumption DEF CapacityOf
<1>9. LedgerExact'
  BY <1>6, <1>7, <1>8, EmptyLedgerOK DEF LedgerExact
<1> QED
  BY Zenon, <1>4, <1>5, <1>6, <1>7, <1>9, EmptyLedgerOK, FS_EmptySet DEF LedgerInv

\* Registering and serving leave the tasks alone.
LEMMA ProcessSteps ==
    ASSUME TypeInv, TaskInv, LedgerInv, Serve \/ \E offer \in Offers : Register(offer)
    PROVE  Types' /\ TaskInv' /\ LedgerInv' /\ ledger' \in Ledgers
<1>1. /\ UNCHANGED <<capacity, ledger, row, run, reporter, restarts>> /\ service' \in {"building", "serving"}
      /\ service = "building"
  BY Zenon DEF Serve, Register
<1>2. \A t \in Tasks : run[t].pc = "none"
  BY Zenon, <1>1, TaskFields DEF PayloadInv
<1>3. TaskInv'
  <2> SUFFICES ASSUME NEW t \in Tasks PROVE RunInv(t)' /\ PayloadInv(t)' /\ ReporterInv(t)'
    BY Zenon DEF TaskInv
  <2> QED
    BY Zenon, <1>1, <1>2, TaskFields DEF RunInv, PayloadInv, ReporterInv
<1>4. Types'
  BY Zenon, <1>1 DEF TypeInv, Types
<1>5. LedgerInv' /\ ledger' \in Ledgers
  BY Zenon, <1>1, LedgerUntouched DEF TypeInv
<1> QED
  BY Zenon, <1>3, <1>4, <1>5

\* A dispatch reserves, blocks the task or leaves it in the queue.
LEMMA DispatchKept ==
    ASSUME TypeInv, TaskInv, LedgerInv, NEW t \in Tasks, Dispatch(t)
    PROVE  Types' /\ TaskInv' /\ LedgerInv' /\ ledger' \in Ledgers
<1>1. row[t].state = "Queued" /\ run[t].pc # "reserved" /\ UNCHANGED capacity
  BY Zenon DEF Dispatch
<1>2. run[t].token = NoToken
  BY Zenon, <1>1, TaskFields DEF RunInv, Runs
<1>3. CASE UNCHANGED <<ledger, run>>
  BY Zenon, <1>1, <1>3, LedgerUntouched, WaitingSteps DEF TypeInv
<1>4. CASE /\ DispatchIsEligible(PayloadOf[t]) /\ Available(RequestOf[t])
           /\ \E chosen \in kSubset(RequestOf[t].gpu_count, AvailableGpus(RequestOf[t])) :
                  ledger' = Reserved(RequestOf[t], chosen)
           /\ run' = [run EXCEPT ![t] = [NoRun EXCEPT !.pc = "reserved", !.token = ledger.next_token]]
           /\ UNCHANGED row
  <2>1. ledger.next_token \in Nat
    BY Zenon DEF TypeInv, Ledgers
  <2>2. run'[t].token = ledger.next_token /\ \A u \in Tasks \ {t} : run'[u].token = run[u].token
    BY Zenon, <1>4 DEF TypeInv, NoRun
  <2>3. LedgerInv' /\ ledger' \in Ledgers
    BY Zenon, <1>1, <1>2, <1>4, <2>2, ReservationKept
  <2>4. Types' /\ TaskInv'
    BY Zenon, <1>4, <2>1, ReservedKept
  <2> QED
    BY Zenon, <2>3, <2>4
<1> QED
  BY <1>3, <1>4, Zenon DEF Dispatch

\* The ledger in the other steps of a task.
LEMMA TaskLedger ==
    ASSUME TypeInv, TaskInv, LedgerInv, NEW t \in Tasks,
           \/ Cancel(t) \/ ResumeBlocked(t) \/ StartEncoded(t) \/ DropReservation(t)
           \/ Prepare(t) \/ HandlerEnds(t) \/ FinishPayloadDecode(t) \/ StoreFails(t) \/ Return(t)
           \/ \E retryable \in BOOLEAN : Finish(t, retryable)
           \/ \E a \in Attempts :
                  Report(t, a) \/ UpdateProgress(t, a) \/ ReportReturns(t, a) \/ ReportDropped(t, a)
    PROVE  LedgerInv' /\ ledger' \in Ledgers
<1>1. run \in [Tasks -> Runs] /\ ledger \in Ledgers /\ NoRun.token = NoToken
  BY Zenon DEF TypeInv, NoRun
<1>2. ASSUME UNCHANGED <<ledger, capacity>>, \A u \in Tasks : run'[u].token = run[u].token
      PROVE  LedgerInv' /\ ledger' \in Ledgers
  BY Zenon, <1>1, <1>2, LedgerUntouched
<1>3. CASE Cancel(t) \/ ResumeBlocked(t)
  BY Zenon, <1>2, <1>3 DEF Cancel, ResumeBlocked
<1>4. CASE StartEncoded(t) \/ Prepare(t) \/ FinishPayloadDecode(t) \/ StoreFails(t)
  <2>1. UNCHANGED <<ledger, capacity>>
    BY Zenon, <1>4 DEF StartEncoded, Prepare, FinishPayloadDecode, StoreFails
  <2>2. ASSUME NEW u \in Tasks PROVE run'[u].token = run[u].token
    BY <1>1, <1>4 DEF StartEncoded, Prepare, FinishPayloadDecode, StoreFails, Runs
  <2> QED
    BY Zenon, <1>2, <2>1, <2>2
<1>5. CASE \E retryable \in BOOLEAN : Finish(t, retryable)
  <2>1. run[t].pc = "ended" /\ run' = [run EXCEPT ![t] = NoRun] /\ UNCHANGED <<ledger, capacity>>
    BY <1>5, Zenon DEF Finish
  <2>2. run[t].token = NoToken
    BY Zenon, <2>1, TaskFields DEF RunInv
  <2> QED
    BY Zenon, <1>1, <1>2, <2>1, <2>2
<1>6. CASE DropReservation(t) \/ HandlerEnds(t) \/ Return(t)
  <2>1. ledger' = Released(run[t].token) /\ capacity' = capacity
    BY Zenon, <1>6 DEF DropReservation, HandlerEnds, Return
  <2>2. run'[t].token = NoToken /\ \A u \in Tasks \ {t} : run'[u].token = run[u].token
    BY Zenon, <1>1, <1>6 DEF DropReservation, HandlerEnds, Return, Runs
  <2> QED
    BY Zenon, <2>1, <2>2, ReleaseKept
<1>7. CASE \E a \in Attempts :
               Report(t, a) \/ UpdateProgress(t, a) \/ ReportReturns(t, a) \/ ReportDropped(t, a)
  BY Zenon, <1>2, <1>7 DEF Report, UpdateProgress, ReportReturns, ReportDropped
<1> QED
  BY Zenon, <1>3, <1>4, <1>5, <1>6, <1>7

\* Every step keeps the invariant.
LEMMA ExecutionStep ==
    ASSUME ExecutionInv, [Next]_vars
    PROVE  ExecutionInv'
<1>0. TypeInv /\ TaskInv /\ LedgerInv
  BY Zenon DEF ExecutionInv
<1>1. ASSUME Types', ledger' \in Ledgers PROVE TypeInv'
  BY Zenon, <1>1 DEF Types, TypeInv
<1>2. CASE Restart
  BY Zenon, <1>0, <1>1, <1>2, RestartKept DEF ExecutionInv
<1>3. CASE Serve \/ \E offer \in Offers : Register(offer)
  BY Zenon, <1>0, <1>1, <1>3, ProcessSteps DEF ExecutionInv
<1>4. ASSUME NEW t \in Tasks, Dispatch(t) PROVE ExecutionInv'
  BY Zenon, <1>0, <1>1, <1>4, DispatchKept DEF ExecutionInv
<1>5. ASSUME NEW t \in Tasks,
             \/ Cancel(t) \/ ResumeBlocked(t) \/ StartEncoded(t) \/ DropReservation(t)
             \/ Prepare(t) \/ HandlerEnds(t) \/ FinishPayloadDecode(t) \/ StoreFails(t) \/ Return(t)
             \/ \E retryable \in BOOLEAN : Finish(t, retryable)
             \/ \E a \in Attempts :
                    Report(t, a) \/ UpdateProgress(t, a) \/ ReportReturns(t, a) \/ ReportDropped(t, a)
      PROVE  ExecutionInv'
  <2>1. LedgerInv' /\ ledger' \in Ledgers
    BY Zenon, <1>0, <1>5, TaskLedger
  <2>2. Types' /\ TaskInv'
    BY Zenon, <1>0, <1>5, WaitingSteps, StartKept, PrepareKept, DropSteps, FinishKept, FinishPayloadKept,
       UpdateKept, ReporterSteps
  <2> QED
    BY Zenon, <1>1, <2>1, <2>2 DEF ExecutionInv
<1>6. CASE UNCHANGED vars
  <2>1. UNCHANGED <<registry, capacity, service, ledger, row, run, reporter, restarts>>
    BY Zenon, <1>6 DEF vars
  <2>2. LedgerInv'
    BY Zenon, <1>0, <2>1, LedgerUntouched
  <2>3. TypeInv'
    BY Zenon, <1>0, <2>1 DEF TypeInv
  <2>4. TaskInv'
    <3> SUFFICES ASSUME NEW t \in Tasks PROVE RunInv(t)' /\ PayloadInv(t)' /\ ReporterInv(t)'
      BY Zenon DEF TaskInv
    <3> QED
      BY Zenon, <1>0, <2>1, TaskFields, SameRegistry DEF RunInv, PayloadInv, ReporterInv
  <2> QED
    BY Zenon, <2>2, <2>3, <2>4 DEF ExecutionInv
<1> QED
  BY Zenon, <1>2, <1>3, <1>4, <1>5, <1>6 DEF Next


\* The ledger, the attempts and the reporters of a process agree, whatever is
\* dispatched, dropped, finished, reported or restarted in between.
THEOREM ExecutionInvariant == Spec => []ExecutionInv
<1>1. Init => ExecutionInv
  BY Zenon, InitialTasks DEF ExecutionInv
<1>2. ExecutionInv /\ [Next]_vars => ExecutionInv'
  BY Zenon, ExecutionStep
<1> QED
  BY <1>1, <1>2, PTL DEF Spec

-----------------------------------------------------------------------------
(***************************************************************************)
(* The properties.                                                         *)
(***************************************************************************)
\* What try_prepare_typed adds and release_reservation subtracts is, after any
\* number of dispatches, what the leases that exist hold.
THEOREM LedgerIsExact == Spec => []LedgerExact
<1>1. ExecutionInv => LedgerExact
  BY Zenon DEF ExecutionInv, LedgerInv
<1> QED
  BY <1>1, ExecutionInvariant, PTL

\* The reporter of the running attempt is never more than one version behind
\* the row, even with reporters of older attempts and with lost answers.
THEOREM ReportersKeepUp == Spec => []ReporterKeepsUp
<1>1. ExecutionInv => ReporterKeepsUp
  BY Zenon DEF ExecutionInv, TaskInv, ReporterInv, ReporterKeepsUp
<1> QED
  BY <1>1, ExecutionInvariant, PTL

\* No task starts more often than max_attempts and one more per restart.
THEOREM AttemptsAreBounded == Spec => []AttemptsBounded
<1>1. ExecutionInv => AttemptsBounded
  BY Zenon DEF ExecutionInv, TaskInv, RunInv, AttemptsBounded
<1> QED
  BY <1>1, ExecutionInvariant, PTL

\* A step starts only tasks whose payload the process declares, and fails only
\* those whose handler ended or whose bytes do not decode.
LEMMA ChangesExplained ==
    ASSUME ExecutionInv, [Next]_vars, NEW t \in Tasks, row'[t].state # row[t].state
    PROVE  /\ row'[t].state = "Running" => Declared(PayloadOf[t])
           /\ row'[t].state = "Failed" => run[t].pc = "ended" \/ ~PayloadOf[t].decodes
<1>0. /\ row \in [Tasks -> Rows] /\ PayloadInv(t)
  BY Zenon DEF ExecutionInv, TypeInv, TaskInv
<1>1. ASSUME NEW u \in Tasks, NEW r, row' = [row EXCEPT ![u] = r]
      PROVE  u = t /\ row'[t] = r
  BY Zenon, <1>0, <1>1
<1>2. CASE Restart
  BY Zenon, <1>0, <1>2 DEF Restart, Recovered, Rows
<1>3. ASSUME NEW u \in Tasks, Dispatch(u) \/ Cancel(u) \/ ResumeBlocked(u)
      PROVE  row'[t].state \notin {"Running", "Failed"}
  <2>1. CASE Dispatch(u)
    BY Zenon, <1>0, <2>1 DEF Dispatch, Blocked, Rows
  <2>2. CASE Cancel(u) \/ ResumeBlocked(u)
    BY <1>0, <2>2 DEF Cancel, ResumeBlocked, Rows
  <2> QED
    BY Zenon, <1>3, <2>1, <2>2
<1>4. ASSUME NEW u \in Tasks, StartEncoded(u)
      PROVE  row'[t].state = "Running" /\ Declared(PayloadOf[t])
  BY Zenon, <1>0, <1>4 DEF StartEncoded, Rows, PayloadInv, DispatchIsEligible
<1>5. ASSUME NEW u \in Tasks, FinishPayloadDecode(u)
      PROVE  row'[t].state = "Failed" /\ ~PayloadOf[t].decodes
  BY Zenon, <1>0, <1>5 DEF FinishPayloadDecode, Rows, PayloadInv
<1>6. ASSUME NEW u \in Tasks, NEW retryable \in BOOLEAN, Finish(u, retryable)
      PROVE  row'[t].state # "Running" /\ run[t].pc = "ended"
  <2>1. PICK s, d : /\ row' = [row EXCEPT ![u].state = s, ![u].delay = d] /\ s \in {"Queued", "Failed", "Succeeded"}
                    /\ run[u].pc = "ended"
    BY Zenon, <1>6 DEF Finish
  <2> QED
    BY Zenon, <1>0, <2>1 DEF Rows
<1>7. ASSUME NEW u \in Tasks, NEW a \in Attempts, UpdateProgress(u, a)
      PROVE  row'[t].state = row[t].state
  BY Zenon, <1>0, <1>7 DEF UpdateProgress, Rows
<1>8. ASSUME UNCHANGED row PROVE FALSE
  BY Zenon, <1>8
<1>9. ASSUME NEW u \in Tasks, DropReservation(u) \/ Prepare(u) \/ HandlerEnds(u) \/ StoreFails(u) \/ Return(u)
      PROVE  FALSE
  BY Zenon, <1>8, <1>9 DEF DropReservation, Prepare, HandlerEnds, StoreFails, Return
<1>10. ASSUME NEW u \in Tasks, NEW a \in Attempts, Report(u, a) \/ ReportReturns(u, a) \/ ReportDropped(u, a)
       PROVE  FALSE
  BY Zenon, <1>8, <1>10 DEF Report, ReportReturns, ReportDropped
<1>11. ASSUME Serve \/ UNCHANGED vars \/ \E offer \in Offers : Register(offer) PROVE FALSE
  BY Zenon, <1>8, <1>11 DEF Serve, vars, Register
<1> QED
  BY <1>2, <1>3, <1>4, <1>5, <1>6, <1>7, <1>9, <1>10, <1>11 DEF Next

\* dispatch_is_eligible is as strict as prepare: a payload the process does not
\* know is blocked, never started and never failed for it.
THEOREM UnknownPayloadsAreBlocked == Spec => UnknownPayloadsOnlyBlock
<1>1. ExecutionInv /\ [Next]_vars =>
          [\A t \in Tasks :
               row'[t].state # row[t].state =>
                   /\ row'[t].state = "Running" => Declared(PayloadOf[t])
                   /\ row'[t].state = "Failed" => run[t].pc = "ended" \/ ~PayloadOf[t].decodes]_vars
  BY Zenon, ChangesExplained
<1> QED
  BY <1>1, ExecutionInvariant, PTL DEF Spec, UnknownPayloadsOnlyBlock

-----------------------------------------------------------------------------
(***************************************************************************)
(* The retry delay.  The loop of delay_for_attempt is a function defined   *)
(* by recursion over the doublings; that it is defined, and what it        *)
(* computes, follows from the fact that a nonempty set of numbers has a    *)
(* least element.                                                          *)
(***************************************************************************)
\* A set of numbers has a least one.
LEMMA LeastNumber ==
    ASSUME NEW T, T \subseteq Nat, T # {}
    PROVE  \E n \in T : \A m \in T : n <= m
<1> DEFINE less == {p \in Nat \X Nat : p[1] < p[2]}
<1>1. IsWellFoundedOn(less, Nat)
  BY Zenon, NatLessThanWellFounded DEF OpToRel
<1>2. PICK n \in T : \A m \in T : <<m, n>> \notin less
  <2> HIDE DEF less
  <2> QED
    BY Zenon, <1>1, WFMin
<1>3. ASSUME NEW m \in T
      PROVE  n <= m
  <2>1. n \in Nat /\ m \in Nat
    BY Zenon
  <2>2. m < n => <<m, n>> \in less
    BY Zenon, <2>1
  <2>3. ~ (m < n)
    BY Zenon, <1>2, <2>2
  <2> QED
    BY <2>1, <2>3
<1> QED
  BY Zenon, <1>3

\* What holds before a loop and is kept by each of its turns holds after each.
LEMMA EveryTurn ==
    ASSUME NEW k \in Nat, NEW T, 0 \in T, \A n \in 1 .. k : n - 1 \in T => n \in T
    PROVE  \A n \in 0 .. k : n \in T
<1> DEFINE bad == {n \in 0 .. k : n \notin T}
<1>1. SUFFICES ASSUME bad # {} PROVE FALSE
  BY Zenon
<1>2. bad \subseteq Nat
  OBVIOUS
<1> HIDE DEF bad
<1>3. PICK n \in bad : \A m \in bad : n <= m
  BY Zenon, <1>1, <1>2, LeastNumber
<1>4. n \in 0 .. k /\ n \notin T
  BY Zenon DEF bad
<1>5. n # 0
  BY Zenon, <1>4
<1>6. n \in 1 .. k /\ n - 1 \in 0 .. k /\ ~ (n <= n - 1)
  BY <1>4, <1>5
<1>7. n - 1 \notin bad
  BY Zenon, <1>3, <1>6
<1>8. n - 1 \in T
  BY Zenon, <1>6, <1>7 DEF bad
<1> QED
  BY Zenon, <1>4, <1>6, <1>8

\* g are the values of a loop before its first turn and after each of k turns.
Values(g, start, turn, k) == g = [n \in 0 .. k |-> IF n = 0 THEN start ELSE turn[<<g[n - 1], n>>]]

\* A loop of k turns computes something.
LEMMA LoopRuns ==
    ASSUME NEW S, NEW start \in S, NEW turn \in [S \X Nat -> S], NEW k \in Nat
    PROVE  \E g \in [0 .. k -> S] : Values(g, start, turn, k)
<1> DEFINE Run(n, g) == Values(g, start, turn, n)
           good == {n \in Nat : \E g \in [0 .. n -> S] : Run(n, g)}
<1>1. 0 \in good
  <2> DEFINE g == [m \in 0 .. 0 |-> start]
  <2>1. g \in [0 .. 0 -> S]
    BY Zenon
  <2>2. \A m \in 0 .. 0 : m = 0
    OBVIOUS
  <2>3. Run(0, g)
    BY Zenon, <2>2 DEF Values
  <2> QED
    BY <2>1, <2>3
<1>2. ASSUME NEW n \in 1 .. k, n - 1 \in good
      PROVE  n \in good
  <2>1. PICK g \in [0 .. n - 1 -> S] : Run(n - 1, g)
    BY Zenon, <1>2
  <2>2. n \in Nat /\ n \in 0 .. n /\ n - 1 \in 0 .. n - 1 /\ n # 0
    OBVIOUS
  <2> DEFINE next == turn[<<g[n - 1], n>>]
             h == [m \in 0 .. n |-> IF m = n THEN next ELSE g[m]]
  <2>3. next \in S
    BY Zenon, <2>2
  <2>4. \A m \in 0 .. n : m # n => m \in 0 .. n - 1
    OBVIOUS
  <2>5. \A m \in 0 .. n : m # 0 => m - 1 \in 0 .. n /\ m - 1 # n
    OBVIOUS
  <2> HIDE DEF next
  <2>6. h \in [0 .. n -> S]
    BY Zenon, <2>3, <2>4
  <2>7. \A m \in 0 .. n - 1 : g[m] = IF m = 0 THEN start ELSE turn[<<g[m - 1], m>>]
    BY Zenon, <2>1 DEF Values
  <2>8. \A m \in 0 .. n : m # n => h[m] = g[m]
    BY Zenon
  <2>9. h[n] = turn[<<h[n - 1], n>>]
    <3>1. h[n] = next
      BY <2>2
    <3>2. h[n - 1] = g[n - 1]
      BY Zenon, <2>2, <2>5, <2>8
    <3> QED
      BY Zenon, <3>1, <3>2 DEF next
  <2>10. ASSUME NEW m \in 0 .. n
         PROVE  h[m] = IF m = 0 THEN start ELSE turn[<<h[m - 1], m>>]
    <3>1. CASE m = n
      BY Zenon, <2>2, <2>9, <3>1
    <3>2. CASE m # n /\ m = 0
      BY Zenon, <2>4, <2>7, <2>8, <3>2
    <3>3. CASE m # n /\ m # 0
      <4>1. h[m] = g[m] /\ h[m - 1] = g[m - 1]
        BY Zenon, <2>5, <2>8, <3>3
      <4> QED
        BY Zenon, <2>4, <2>7, <3>3, <4>1
    <3> QED
      BY Zenon, <3>1, <3>2, <3>3
  <2>11. h = [m \in 0 .. n |-> h[m]]
    BY Zenon
  <2> HIDE DEF h
  <2>12. Run(n, h)
    BY Zenon, <2>10, <2>11 DEF Values
  <2> QED
    BY Zenon, <2>2, <2>6, <2>12
<1> HIDE DEF good
<1>3. k \in good
  <2>1. k \in 0 .. k
    OBVIOUS
  <2> QED
    BY Zenon, <1>1, <1>2, <2>1, EveryTurn
<1> QED
  BY Zenon, <1>3 DEF good

\* The delays that the loop of delay_for_attempt passes through.
LEMMA DelayLoop ==
    ASSUME NEW k \in Nat, NEW q,
           q = CHOOSE g : g = [n \in 0 .. k |-> IF n = 0 THEN initial_delay
                                                ELSE DelayTurn(g[n - 1])]
    PROVE  q[0] = initial_delay /\ \A n \in 1 .. k : q[n] = DelayTurn(q[n - 1])
<1> DEFINE Body(g) == [n \in 0 .. k |-> IF n = 0 THEN initial_delay
                                        ELSE DelayTurn(g[n - 1])]
           turn == [p \in Nat \X Nat |-> DelayTurn(p[1])]
<1>1. \A n, m \in Nat : turn[<<n, m>>] = DelayTurn(n)
  BY Zenon
<1>2. initial_delay \in Nat /\ max_delay \in Nat
  BY Zenon, ExecutionAssumption
<1>3. turn \in [Nat \X Nat -> Nat]
  <2>1. \A n \in Nat : DelayTurn(n) \in Nat
    BY <1>2 DEF DelayTurn
  <2> QED
    BY Zenon, <2>1
<1> HIDE DEF turn
<1>4. PICK g \in [0 .. k -> Nat] : Values(g, initial_delay, turn, k)
  BY Zenon, <1>2, <1>3, LoopRuns
<1>5. ASSUME NEW n \in 0 .. k, n # 0
      PROVE  turn[<<g[n - 1], n>>] = DelayTurn(g[n - 1])
  <2>1. n - 1 \in 0 .. k /\ n \in Nat
    BY <1>5
  <2> QED
    BY Zenon, <1>1, <2>1
<1>6. g = Body(g)
  BY Zenon, <1>4, <1>5 DEF Values
<1>7. q = Body(q)
  BY Zenon, <1>6
<1>8. 0 \in 0 .. k /\ \A n \in 1 .. k : n \in 0 .. k /\ n # 0
  OBVIOUS
<1> QED
  BY Zenon, <1>7, <1>8

\* The delays doubled without a maximum.
LEMMA DoublingLoop ==
    ASSUME NEW k \in Nat, NEW q,
           q = CHOOSE g : g = [n \in 0 .. k |-> IF n = 0 THEN initial_delay
                                                ELSE 2 * g[n - 1]]
    PROVE  q[0] = initial_delay /\ \A n \in 1 .. k : q[n] = 2 * q[n - 1]
<1> DEFINE Body(g) == [n \in 0 .. k |-> IF n = 0 THEN initial_delay
                                        ELSE 2 * g[n - 1]]
           turn == [p \in Nat \X Nat |-> 2 * p[1]]
<1>1. \A n, m \in Nat : turn[<<n, m>>] = 2 * n
  BY Zenon
<1>2. initial_delay \in Nat /\ max_delay \in Nat
  BY Zenon, ExecutionAssumption
<1>3. turn \in [Nat \X Nat -> Nat]
  <2>1. \A n \in Nat : 2 * n \in Nat
    BY <1>2
  <2> QED
    BY Zenon, <2>1
<1> HIDE DEF turn
<1>4. PICK g \in [0 .. k -> Nat] : Values(g, initial_delay, turn, k)
  BY Zenon, <1>2, <1>3, LoopRuns
<1>5. ASSUME NEW n \in 0 .. k, n # 0
      PROVE  turn[<<g[n - 1], n>>] = 2 * g[n - 1]
  <2>1. n - 1 \in 0 .. k /\ n \in Nat
    BY <1>5
  <2> QED
    BY Zenon, <1>1, <2>1
<1>6. g = Body(g)
  BY Zenon, <1>4, <1>5 DEF Values
<1>7. q = Body(q)
  BY Zenon, <1>6
<1>8. 0 \in 0 .. k /\ \A n \in 1 .. k : n \in 0 .. k /\ n # 0
  OBVIOUS
<1> QED
  BY Zenon, <1>7, <1>8

\* The smaller of two numbers.
LEMMA MinOfTwo ==
    ASSUME NEW a \in Nat, NEW b \in Nat
    PROVE  Min({a, b}) = IF a <= b THEN a ELSE b
<1>1. PICK m : m = IF a <= b THEN a ELSE b
  BY Zenon
<1>2. m \in {a, b} /\ \A y \in {a, b} : m <= y
  BY <1>1
<1>3. \A x \in {a, b} : (\A y \in {a, b} : x <= y) => x = m
  BY <1>1
<1> QED
  BY Zenon, <1>1, <1>2, <1>3 DEF Min

\* delay_for_attempt stops at the maximum, yet what it returns is the delay
\* doubled all the way and then capped.
LEMMA DelayIsDoubled ==
    ASSUME NEW attempt \in Nat \ {0}
    PROVE  DelayForAttempt(attempt) = Min({Doubled(attempt - 1), max_delay})
<1>1. PICK k \in Nat : k = attempt - 1 /\ attempt # 0
  OBVIOUS
<1>2. initial_delay \in Nat /\ max_delay \in Nat /\ initial_delay <= max_delay /\ initial_delay > 0
  BY ExecutionAssumption DEF ValidPolicy
<1>3. PICK delays :
          delays = CHOOSE g : g = [n \in 0 .. k |-> IF n = 0 THEN initial_delay ELSE DelayTurn(g[n - 1])]
  BY Zenon
<1>4. PICK wholes :
          wholes = CHOOSE g : g = [n \in 0 .. k |-> IF n = 0 THEN initial_delay ELSE 2 * g[n - 1]]
  BY Zenon
<1>5. DelayForAttempt(attempt) = delays[k] /\ Doubled(k) = wholes[k]
  BY Zenon, <1>1, <1>3, <1>4 DEF DelayForAttempt, Doubled
<1>6. delays[0] = initial_delay /\ \A n \in 1 .. k : delays[n] = DelayTurn(delays[n - 1])
  BY Zenon, <1>3, DelayLoop
<1>7. wholes[0] = initial_delay /\ \A n \in 1 .. k : wholes[n] = 2 * wholes[n - 1]
  BY Zenon, <1>4, DoublingLoop
<1> DEFINE capped(w) == IF w <= max_delay THEN w ELSE max_delay
           good == {n \in 0 .. k : wholes[n] \in Nat /\ delays[n] = capped(wholes[n])}
<1>8. 0 \in good
  BY <1>2, <1>6, <1>7
<1>9. ASSUME NEW n \in 1 .. k, n - 1 \in good
      PROVE  n \in good
  <2>1. PICK w \in Nat : w = wholes[n - 1] /\ delays[n - 1] = capped(w)
    BY Zenon, <1>9
  <2>2. wholes[n] = 2 * w /\ delays[n] = DelayTurn(capped(w))
    BY Zenon, <1>6, <1>7, <2>1
  <2>3. DelayTurn(capped(w)) = capped(2 * w)
    BY <1>2 DEF DelayTurn
  <2>4. 2 * w \in Nat /\ n \in 0 .. k
    OBVIOUS
  <2> HIDE DEF capped
  <2> QED
    BY Zenon, <2>2, <2>3, <2>4
<1>10. k \in good
  <2>1. k \in 0 .. k
    OBVIOUS
  <2> HIDE DEF good
  <2>2. \A n \in 0 .. k : n \in good
    BY Zenon, <1>8, <1>9, EveryTurn
  <2> QED
    BY Zenon, <2>1, <2>2
<1>11. PICK w \in Nat : w = wholes[k] /\ delays[k] = capped(w)
  BY Zenon, <1>10
<1>12. Min({w, max_delay}) = capped(w)
  BY Zenon, <1>2, MinOfTwo
<1> HIDE DEF capped
<1> QED
  BY Zenon, <1>1, <1>5, <1>11, <1>12

\* A delay is that of the last attempt of a queued task.
DelayOf(r) == r.delay # 0 => r.state = "Queued" /\ r.attempt > 0 /\ r.delay = DelayForAttempt(r.attempt)

DelayInv == \A t \in Tasks : DelayOf(row[t])

\* Each step that moves a task drops its delay or sets the one of the attempt
\* that failed.
LEMMA DelaysKept ==
    ASSUME ExecutionInv, DelayInv, [Next]_vars PROVE DelayInv'
<1>0. /\ row \in [Tasks -> Rows] /\ \A t \in Tasks : RunInv(t)
      /\ \A t \in Tasks : row[t].delay # 0 => row[t].state = "Queued"
  BY Zenon DEF ExecutionInv, TypeInv, TaskInv, DelayInv, DelayOf
<1>1. ASSUME NEW u \in Tasks, NEW r, row' = [row EXCEPT ![u] = r], DelayOf(r)
      PROVE  DelayInv'
  BY Zenon, <1>0, <1>1 DEF DelayInv, DelayOf
<1>2. CASE UNCHANGED row
  BY Zenon, <1>2 DEF DelayInv, DelayOf
<1>3. CASE Restart
  <2>1. ASSUME NEW t \in Tasks
        PROVE  DelayOf(Recovered(row[t]))
    BY Zenon, <1>0 DEF Recovered, DelayOf, DelayInv, Rows
  <2>2. \A t \in Tasks : row'[t] = Recovered(row[t])
    BY Zenon, <1>3 DEF Restart
  <2> QED
    BY Zenon, <2>1, <2>2 DEF DelayInv, DelayOf
<1>4. ASSUME NEW t \in Tasks, Dispatch(t)
      PROVE  DelayInv'
  <2>1. CASE row' = [row EXCEPT ![t] = Blocked(@)]
    <3>1. DelayOf(Blocked(row[t]))
      BY Zenon, <1>0 DEF Blocked, DelayOf, Rows
    <3>2. row' = [row EXCEPT ![t] = Blocked(row[t])]
      BY Zenon, <2>1
    <3> QED
      BY Zenon, <1>1, <3>1, <3>2
  <2> QED
    BY Zenon, <1>2, <1>4, <2>1 DEF Dispatch
<1>5. ASSUME NEW t \in Tasks, Cancel(t)
      PROVE  DelayInv'
  <2>1. PICK r : r = [row[t] EXCEPT !.state = "Cancelled", !.delay = 0]
    BY Zenon
  <2>2. DelayOf(r)
    BY Zenon, <1>0, <2>1 DEF DelayOf, Rows
  <2>3. row' = [row EXCEPT ![t] = r]
    BY Zenon, <1>0, <1>5, <2>1 DEF Cancel, Rows
  <2> QED
    BY Zenon, <1>1, <2>2, <2>3
<1>6. ASSUME NEW t \in Tasks, ResumeBlocked(t)
      PROVE  DelayInv'
  <2>1. PICK r : r = [row[t] EXCEPT !.state = "Queued"]
    BY Zenon
  <2>2. row[t].delay = 0
    BY Zenon, <1>0, <1>6 DEF ResumeBlocked
  <2>3. DelayOf(r)
    BY Zenon, <1>0, <2>1, <2>2 DEF DelayOf, Rows
  <2>4. row' = [row EXCEPT ![t] = r]
    BY Zenon, <1>0, <1>6, <2>1 DEF ResumeBlocked
  <2> QED
    BY Zenon, <1>1, <2>3, <2>4
<1>7. ASSUME NEW t \in Tasks, StartEncoded(t)
      PROVE  DelayInv'
  <2>1. PICK r : r = [state |-> "Running", attempt |-> row[t].attempt + 1, progress |-> 0, delay |-> 0]
    BY Zenon
  <2>2. DelayOf(r)
    BY Zenon, <2>1 DEF DelayOf
  <2>3. row' = [row EXCEPT ![t] = r]
    BY Zenon, <1>0, <1>7, <2>1 DEF StartEncoded
  <2> QED
    BY Zenon, <1>1, <2>2, <2>3
<1>8. ASSUME NEW t \in Tasks, NEW retryable \in BOOLEAN, Finish(t, retryable)
      PROVE  DelayInv'
  <2>1. PICK retry, s, d :
            /\ row' = [row EXCEPT ![t].state = s, ![t].delay = d]
            /\ s = IF retry THEN "Queued" ELSE IF retryable THEN "Failed" ELSE "Succeeded"
            /\ d = IF retry THEN DelayForAttempt(run[t].attempt) ELSE 0
    BY Zenon, <1>8 DEF Finish
  <2>2. PICK r : r = [row[t] EXCEPT !.state = s, !.delay = d]
    BY Zenon
  <2>3. row' = [row EXCEPT ![t] = r]
    BY Zenon, <1>0, <2>1, <2>2 DEF Rows
  <2>4. row[t].attempt = run[t].attempt /\ run[t].attempt > 0
    BY Zenon, <1>0, <1>8 DEF Finish, RunInv
  <2>5. r.state = s /\ r.delay = d /\ r.attempt = row[t].attempt
    BY Zenon, <1>0, <2>2 DEF Rows
  <2>6. DelayOf(r)
    BY Zenon, <2>1, <2>4, <2>5 DEF DelayOf
  <2> QED
    BY Zenon, <1>1, <2>3, <2>6
<1>9. ASSUME NEW t \in Tasks, FinishPayloadDecode(t)
      PROVE  DelayInv'
  <2>1. PICK r : r = [row[t] EXCEPT !.state = "Failed"]
    BY Zenon
  <2>2. row[t].delay = 0
    BY Zenon, <1>0, <1>9 DEF FinishPayloadDecode, RunInv
  <2>3. DelayOf(r)
    BY Zenon, <1>0, <2>1, <2>2 DEF DelayOf, Rows
  <2>4. row' = [row EXCEPT ![t] = r]
    BY Zenon, <1>0, <1>9, <2>1 DEF FinishPayloadDecode
  <2> QED
    BY Zenon, <1>1, <2>3, <2>4
<1>10. ASSUME NEW t \in Tasks, NEW a \in Attempts, UpdateProgress(t, a)
       PROVE  DelayInv'
  <2>1. PICK v : row' = [row EXCEPT ![t].progress = v] \/ row' = row
    BY Zenon, <1>10 DEF UpdateProgress
  <2>2. PICK r : r = [row[t] EXCEPT !.progress = v]
    BY Zenon
  <2>3. DelayOf(r)
    BY Zenon, <1>0, <2>2 DEF DelayOf, Rows, DelayInv
  <2>4. row' = [row EXCEPT ![t] = r] \/ row' = row
    BY Zenon, <1>0, <2>1, <2>2
  <2> QED
    BY Zenon, <1>1, <1>2, <2>3, <2>4
<1>11. ASSUME NEW t \in Tasks,
              \/ DropReservation(t) \/ Prepare(t) \/ HandlerEnds(t) \/ StoreFails(t) \/ Return(t)
              \/ \E a \in Attempts : Report(t, a) \/ ReportReturns(t, a) \/ ReportDropped(t, a)
       PROVE  UNCHANGED row
  BY Zenon, <1>11 DEF DropReservation, Prepare, HandlerEnds, StoreFails, Return, Report, ReportReturns,
                      ReportDropped
<1>12. ASSUME Serve \/ UNCHANGED vars \/ \E offer \in Offers : Register(offer)
       PROVE  UNCHANGED row
  BY Zenon, <1>12 DEF Serve, vars, Register
<1> QED
  BY <1>2, <1>3, <1>4, <1>5, <1>6, <1>7, <1>8, <1>9, <1>10, <1>11, <1>12 DEF Next

\* A queued task waits for its initial delay, doubled with every failed attempt,
\* up to the maximum; nothing else has a delay.
THEOREM DelaysDouble == Spec => []RetryDelaysDouble
<1>1. Init => DelayInv
  <2>1. NewRow.delay = 0
    BY Zenon DEF NewRow
  <2> QED
    BY Zenon, <2>1 DEF Init, DelayInv, DelayOf
<1>2. ExecutionInv /\ DelayInv /\ [Next]_vars => DelayInv'
  BY Zenon, DelaysKept
<1>3. ASSUME ExecutionInv, DelayInv PROVE RetryDelaysDouble
  <2>1. ASSUME NEW t \in Tasks, row[t].delay # 0
        PROVE  row[t].delay = Min({Doubled(row[t].attempt - 1), max_delay})
    <3>1. row[t].attempt \in Nat /\ row[t].attempt > 0
      BY Zenon, <1>3, <2>1 DEF ExecutionInv, TypeInv, Rows, DelayInv, DelayOf
    <3>2. row[t].attempt \in Nat \ {0}
      BY <3>1
    <3> QED
      BY Zenon, <1>3, <2>1, <3>2, DelayIsDoubled DEF DelayInv, DelayOf
  <2> QED
    BY Zenon, <1>3, <2>1 DEF RetryDelaysDouble, DelayInv, DelayOf
<1> QED
  BY <1>1, <1>2, <1>3, ExecutionInvariant, PTL DEF Spec
=============================================================================
