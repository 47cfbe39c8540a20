--------------------------- MODULE TaskExecution ---------------------------
(***************************************************************************)
(* What one attempt at a task passes through between the queue and its     *)
(* outcome: the handler registry of this process, the resource ledger of   *)
(* the local engine, the store's start, the handler with its progress      *)
(* reporter, and the retry delay.  Several attempts share the registry and *)
(* the ledger; a task outlives the process, so it may be prepared by a     *)
(* registry that the process which accepted it never had.                  *)
(***************************************************************************)
EXTENDS Naturals, FiniteSets, FiniteSetsExt, Functions, Sequences

CONSTANTS
    Tasks,
    RequestOf,       \* resource_limit: amount (by resource), gpu_count, gpu_labels
    PayloadOf,       \* kind, type, schema_version, codec, decodes
    Offers,          \* what an application may register: a descriptor and a hook
    Codecs,          \* registered payload codecs
    Capacities,      \* ResourceCapacity: amount (by resource), gpus (their labels)
    Quotas,          \* the resources that are fields, not named by the user
    initial_delay,
    max_delay,
    max_attempts,
    TokenMax,        \* the largest reservation token, u64::MAX in the code
    ReportBound,     \* bound: reports of an attempt
    RestartBound     \* bound: restarts of the process

\* RetryPolicy::new
ValidPolicy == initial_delay > 0 /\ initial_delay <= max_delay

ASSUME ExecutionAssumption ==
    /\ {initial_delay, max_delay, max_attempts, TokenMax} \subseteq Nat \ {0}
    /\ ValidPolicy
    /\ {ReportBound, RestartBound} \subseteq Nat
    /\ \A c \in Capacities :
           /\ \A k \in DOMAIN c.amount : c.amount[k] \in Nat
           /\ IsFiniteSet(DOMAIN c.gpus)
    /\ \A t \in Tasks :
           /\ RequestOf[t].gpu_count \in Nat
           /\ \A k \in DOMAIN RequestOf[t].amount : RequestOf[t].amount[k] \in Nat

VARIABLES
    registry,   \* TypedTaskHandlerRegistry: the offers registered, one for a kind
    capacity,   \* the resources this process is configured with
    service,    \* "building", "serving" or "stopping"
    ledger,     \* ResourceLedger
    row,        \* the stored task
    run,        \* the dispatch or attempt in progress, if any
    reporter,   \* TaskProgressReporter of each attempt
    restarts

vars == <<registry, capacity, service, ledger, row, run, reporter, restarts>>

-----------------------------------------------------------------------------
(***************************************************************************)
(* The handler registry.                                                   *)
(***************************************************************************)
NoDuplicates(versions) == Cardinality(Range(versions)) = Len(versions)

\* TaskHandlerDescriptor::validate
ValidDescriptor(d) == d.kind # "" /\ d.versions # <<>> /\ NoDuplicates(d.versions)

\* register_with_options: an error leaves the registry as it was.
Registered(reg, offer) ==
    LET d == offer.descriptor
    IN  IF /\ ValidDescriptor(d)
           /\ (d.mode = "ExternalHook") <=> offer.hook
           /\ \A o \in reg : o.descriptor.kind # d.kind
        THEN reg \cup {offer}
        ELSE reg

\* The descriptors of a kind, one or none.
DescriptorsOf(kind) == {o.descriptor : o \in {x \in registry : x.descriptor.kind = kind}}

Accepts(d, payload) == payload.type = d.type /\ payload.schema_version \in Range(d.versions)

\* Some handler of this process declares the payload.
Declared(payload) == \E d \in DescriptorsOf(payload.kind) : Accepts(d, payload)

\* Mutant: a descriptor is as good as any for its kind.
DispatchIsEligibleByKind(payload) ==
    DescriptorsOf(payload.kind) # {} /\ payload.codec \in Codecs

\* dispatch_is_eligible, from the summary alone.
DispatchIsEligible(payload) == Declared(payload) /\ payload.codec \in Codecs

\* TypedAdapter::prepare: the same checks on the stored payload, then its bytes
\* are decoded and cast to the type of the handler.
AdapterPrepares(d, payload) ==
    Accepts(d, payload) /\ payload.codec \in Codecs /\ payload.decodes

\* TypedTaskHandlerRegistry::prepare looks the handler up again.
Prepares(payload) == \E d \in DescriptorsOf(payload.kind) : AdapterPrepares(d, payload)

-----------------------------------------------------------------------------
(***************************************************************************)
(* LocalTaskExecutionEngine.                                               *)
(***************************************************************************)
CapacityOf(k) == IF k \in DOMAIN capacity.amount THEN capacity.amount[k] ELSE 0
Asks(q, k) == IF k \in DOMAIN q.amount THEN q.amount[k] ELSE 0
Resources == UNION {DOMAIN RequestOf[t].amount : t \in Tasks}
MatchingGpus(q) == {g \in DOMAIN capacity.gpus : q.gpu_labels \subseteq capacity.gpus[g]}

EmptyLedger == [usage |-> [k \in Resources |-> 0], gpus |-> {}, next_token |-> 1, allocations |-> {}]

\* A request the engine can never satisfy.  A named resource must be
\* configured, even if nothing of it is asked for.
Unsatisfiable(q) ==
    \/ \E k \in DOMAIN q.amount :
           \/ q.amount[k] > CapacityOf(k)
           \/ k \notin Quotas /\ k \notin DOMAIN capacity.amount
    \/ q.gpu_count > Cardinality(MatchingGpus(q))

AvailableGpus(q) == MatchingGpus(q) \ ledger.gpus

\* The sums cannot overflow where they are compared: capacities fit the type.
Available(q) ==
    /\ \A k \in Resources : ledger.usage[k] + Asks(q, k) <= CapacityOf(k)
    /\ Cardinality(AvailableGpus(q)) >= q.gpu_count

\* The ledger with one more allocation.
Reserved(q, chosen) ==
    [usage |-> [k \in Resources |-> ledger.usage[k] + Asks(q, k)],
     gpus |-> ledger.gpus \cup chosen,
     next_token |-> ledger.next_token + 1,
     allocations |-> ledger.allocations \cup
         {[token |-> ledger.next_token, amount |-> [k \in Resources |-> Asks(q, k)], gpus |-> chosen]}]

SaturatingSub(x, y) == IF x > y THEN x - y ELSE 0

\* The units of a resource that allocations hold, and how many they are.
Units(k, allocations) == UNION {{a} \X (1 .. a.amount[k]) : a \in allocations}
Sum(k, allocations) == Cardinality(Units(k, allocations))

\* Mutant: a released reservation keeps its GPUs.
ReleasedWithGpus(token) ==
    LET gone == {a \in ledger.allocations : a.token = token}
    IN  [ledger EXCEPT
            !.allocations = @ \ gone,
            !.usage = [k \in Resources |-> SaturatingSub(@[k], Sum(k, gone))]]

\* release_reservation; an unknown token changes nothing.
Released(token) ==
    LET gone == {a \in ledger.allocations : a.token = token}
    IN  [ledger EXCEPT
            !.allocations = @ \ gone,
            !.usage = [k \in Resources |-> SaturatingSub(@[k], Sum(k, gone))],
            !.gpus = @ \ UNION {a.gpus : a \in gone}]

-----------------------------------------------------------------------------
(***************************************************************************)
(* RetryPolicy::delay_for_attempt, the loop as a function.                 *)
(***************************************************************************)
\* One turn, which does nothing once the maximum is reached.
DelayTurn(delay) ==
    IF delay >= max_delay THEN delay ELSE IF 2 * delay < max_delay THEN 2 * delay ELSE max_delay

\* Mutant: the first retry is already doubled.
DelayForAttemptDoubled(attempt) ==
    LET delay[n \in 0 .. attempt] == IF n = 0 THEN initial_delay ELSE DelayTurn(delay[n - 1])
    IN  delay[attempt]

DelayForAttempt(attempt) ==
    LET doublings == IF attempt = 0 THEN 0 ELSE attempt - 1
        delay[n \in 0 .. doublings] == IF n = 0 THEN initial_delay ELSE DelayTurn(delay[n - 1])
    IN  delay[doublings]

-----------------------------------------------------------------------------
NoToken == 0
NoRun == [pc |-> "none", token |-> NoToken, attempt |-> 0]
NewRow == [state |-> "Queued", attempt |-> 0, progress |-> 0, delay |-> 0]

\* Every restart may repeat one attempt beyond max_attempts.
Attempts == 1 .. max_attempts + RestartBound

\* TaskProgressReporter: the version of the last report that was answered with
\* success, and the report that holds the lock.
NoReporter == [progress_version |-> 0, pc |-> "none"]
NewReporter == [progress_version |-> 0, pc |-> "idle"]
NoReporters == [t \in Tasks |-> [a \in Attempts |-> NoReporter]]

Init ==
    /\ registry = {}
    /\ capacity \in Capacities
    /\ service = "building"
    /\ ledger = EmptyLedger
    /\ row = [t \in Tasks |-> NewRow]
    /\ run = [t \in Tasks |-> NoRun]
    /\ reporter = NoReporters
    /\ restarts = 0

Register(offer) ==
    /\ service = "building"
    /\ registry' = Registered(registry, offer)
    /\ UNCHANGED <<capacity, service, ledger, row, run, reporter, restarts>>

\* build: the registry moves into the service, and nothing registers any more.
Serve ==
    /\ service = "building"
    /\ service' = "serving"
    /\ UNCHANGED <<registry, capacity, ledger, row, run, reporter, restarts>>

\* recover_unfinished requeues whatever was running, at once and whatever its
\* attempt.
Recovered(r) ==
    IF r.state = "Running" THEN [r EXCEPT !.state = "Queued", !.delay = 0] ELSE r

\* The process ends at any point; the next one recovers the tasks and may be
\* another build of the application with another capacity.
Restart ==
    /\ service # "building"
    /\ restarts < RestartBound
    /\ restarts' = restarts + 1
    /\ service' = "building"
    /\ registry' = {}
    /\ capacity' \in Capacities
    /\ ledger' = EmptyLedger
    /\ row' = [t \in Tasks |-> Recovered(row[t])]
    /\ run' = [t \in Tasks |-> NoRun]
    /\ reporter' = NoReporters

Blocked(r) == [r EXCEPT !.state = "Blocked", !.delay = 0]

\* dispatch_scan on one ready task, up to its start: dispatch_is_eligible and
\* reserve_task_resources with try_prepare_typed.  Which GPUs are taken
\* depends on the names of the available ones.
Dispatch(t) ==
    LET q == RequestOf[t]
        eligible == DispatchIsEligible(PayloadOf[t])
        exhausted == ledger.next_token = TokenMax
    IN  /\ service = "serving"
        /\ row[t].state = "Queued"
        /\ \A u \in Tasks : run[u].pc # "reserved"
        /\ \/ /\ ~eligible \/ Unsatisfiable(q) \/ (Available(q) /\ exhausted)
              /\ row' = [row EXCEPT ![t] = Blocked(@)]
              /\ UNCHANGED <<ledger, run>>
           \/ /\ eligible /\ ~Unsatisfiable(q) /\ Available(q) /\ ~exhausted
              /\ \E chosen \in kSubset(q.gpu_count, AvailableGpus(q)) : ledger' = Reserved(q, chosen)
              /\ run' = [run EXCEPT ![t] = [NoRun EXCEPT !.pc = "reserved", !.token = ledger.next_token]]
              /\ UNCHANGED row
        /\ UNCHANGED <<registry, capacity, service, reporter, restarts>>

\* The queued task is cancelled.
Cancel(t) ==
    /\ service = "serving"
    /\ row[t].state = "Queued"
    /\ row' = [row EXCEPT ![t].state = "Cancelled", ![t].delay = 0]
    /\ UNCHANGED <<registry, capacity, service, ledger, run, reporter, restarts>>

ResumeBlocked(t) ==
    /\ service = "serving"
    /\ row[t].state = "Blocked"
    /\ row' = [row EXCEPT ![t].state = "Queued"]
    /\ UNCHANGED <<registry, capacity, service, ledger, run, reporter, restarts>>

\* start_encoded.  Only a cancellation takes a listed task out of the queue, so
\* the revision is still the listed one while the task is queued.
StartEncoded(t) ==
    /\ service = "serving"
    /\ run[t].pc = "reserved"
    /\ row[t].state = "Queued"
    /\ row' = [row EXCEPT ![t] = [state |-> "Running", attempt |-> @.attempt + 1,
                                  progress |-> 0, delay |-> 0]]
    /\ run' = [run EXCEPT ![t].pc = "started", ![t].attempt = row[t].attempt + 1]
    /\ UNCHANGED <<registry, capacity, service, ledger, reporter, restarts>>

\* The lease is dropped: the start conflicts or fails, the service shuts down,
\* or the task may not bypass the anchor.
DropReservation(t) ==
    /\ run[t].pc = "reserved"
    /\ ledger' = Released(run[t].token)
    /\ run' = [run EXCEPT ![t] = NoRun]
    /\ service' \in {service, "stopping"}
    /\ UNCHANGED <<registry, capacity, row, reporter, restarts>>

\* run_one up to the handler: the payload is decoded and the context made.
Prepare(t) ==
    /\ run[t].pc = "started"
    /\ IF Prepares(PayloadOf[t])
       THEN /\ run' = [run EXCEPT ![t].pc = "running"]
            /\ reporter' = [reporter EXCEPT ![t][run[t].attempt] = NewReporter]
       ELSE /\ run' = [run EXCEPT ![t].pc = "payload_decode"]
            /\ UNCHANGED reporter
    /\ UNCHANGED <<registry, capacity, service, ledger, row, restarts>>

\* The handler returns or panics; its lease is dropped before the outcome is
\* written.
HandlerEnds(t) ==
    /\ run[t].pc = "running"
    /\ ledger' = Released(run[t].token)
    /\ run' = [run EXCEPT ![t].pc = "ended", ![t].token = NoToken]
    /\ UNCHANGED <<registry, capacity, service, row, reporter, restarts>>

\* Mutant: one retry too many.
FinishOnceMore(t, retryable) ==
    LET retry == retryable /\ run[t].attempt <= max_attempts
    IN  /\ run[t].pc = "ended"
        /\ row' = [row EXCEPT
                      ![t].state = IF retry THEN "Queued" ELSE IF retryable THEN "Failed" ELSE "Succeeded",
                      ![t].delay = IF retry THEN DelayForAttempt(run[t].attempt) ELSE 0]
        /\ run' = [run EXCEPT ![t] = NoRun]
        /\ UNCHANGED <<registry, capacity, service, ledger, reporter, restarts>>

\* finish for a task nobody cancels: a retry with its delay, or a final state.
Finish(t, retryable) ==
    LET retry == retryable /\ run[t].attempt < max_attempts
    IN  /\ run[t].pc = "ended"
        /\ row' = [row EXCEPT
                      ![t].state = IF retry THEN "Queued" ELSE IF retryable THEN "Failed" ELSE "Succeeded",
                      ![t].delay = IF retry THEN DelayForAttempt(run[t].attempt) ELSE 0]
        /\ run' = [run EXCEPT ![t] = NoRun]
        /\ UNCHANGED <<registry, capacity, service, ledger, reporter, restarts>>

\* The payload cannot be prepared: run_one holds the lease until it returns.
FinishPayloadDecode(t) ==
    /\ run[t].pc = "payload_decode"
    /\ row' = [row EXCEPT ![t].state = "Failed"]
    /\ run' = [run EXCEPT ![t].pc = "returning"]
    /\ UNCHANGED <<registry, capacity, service, ledger, reporter, restarts>>

\* A store error in run_one or finish: the fault stops the service and the
\* record stays as it is.
StoreFails(t) ==
    /\ run[t].pc \in {"started", "ended", "payload_decode"}
    /\ service' = "stopping"
    /\ run' = [run EXCEPT ![t].pc = "returning"]
    /\ UNCHANGED <<registry, capacity, ledger, row, reporter, restarts>>

\* run_one returns and drops what it still holds.
Return(t) ==
    /\ run[t].pc = "returning"
    /\ ledger' = Released(run[t].token)
    /\ run' = [run EXCEPT ![t] = NoRun]
    /\ UNCHANGED <<registry, capacity, service, row, reporter, restarts>>

-----------------------------------------------------------------------------
(***************************************************************************)
(* TaskProgressReporter::report.  A handler may hand its context on, so    *)
(* the reporter of an attempt can be used when the attempt is over.        *)
(***************************************************************************)
\* The lock of progress_version is taken and the next version sent.
Report(t, a) ==
    /\ reporter[t][a].pc = "idle"
    /\ reporter[t][a].progress_version < ReportBound
    /\ reporter' = [reporter EXCEPT ![t][a].pc = "sent"]
    /\ UNCHANGED <<registry, capacity, service, ledger, row, run, restarts>>

\* Mutant: the attempt is not compared.
UpdatesProgressOfAny(r, attempt, version) == r.state = "Running" /\ version > r.progress

\* The conditions of update_progress.
UpdatesProgress(r, attempt, version) ==
    r.state = "Running" /\ r.attempt = attempt /\ version > r.progress

UpdateProgress(t, a) ==
    LET version == reporter[t][a].progress_version + 1
        updates == UpdatesProgress(row[t], a, version)
    IN  /\ reporter[t][a].pc = "sent"
        /\ reporter' = [reporter EXCEPT ![t][a].pc = IF updates THEN "stored" ELSE "refused"]
        /\ row' = IF updates THEN [row EXCEPT ![t].progress = version] ELSE row
        /\ UNCHANGED <<registry, capacity, service, ledger, run, restarts>>

\* Only a write that succeeded advances the version.
Reported(r) ==
    [progress_version |-> r.progress_version + IF r.pc = "stored" THEN 1 ELSE 0, pc |-> "idle"]

\* The answer arrives.
ReportReturns(t, a) ==
    /\ reporter[t][a].pc \in {"stored", "refused"}
    /\ reporter' = [reporter EXCEPT ![t][a] = Reported(@)]
    /\ UNCHANGED <<registry, capacity, service, ledger, row, run, restarts>>

\* The caller drops the future of a report, whose write may be done by then.
ReportDropped(t, a) ==
    /\ reporter[t][a].pc \in {"sent", "stored", "refused"}
    /\ reporter' = [reporter EXCEPT ![t][a].pc = "idle"]
    /\ UNCHANGED <<registry, capacity, service, ledger, row, run, restarts>>

Next ==
    \/ \E offer \in Offers : Register(offer)
    \/ Serve
    \/ Restart
    \/ \E t \in Tasks :
           \/ Dispatch(t) \/ Cancel(t) \/ ResumeBlocked(t) \/ StartEncoded(t) \/ DropReservation(t)
           \/ Prepare(t) \/ HandlerEnds(t) \/ FinishPayloadDecode(t) \/ StoreFails(t) \/ Return(t)
           \/ \E retryable \in BOOLEAN : Finish(t, retryable)
           \/ \E a \in Attempts :
                  Report(t, a) \/ UpdateProgress(t, a) \/ ReportReturns(t, a) \/ ReportDropped(t, a)

Spec == Init /\ [][Next]_vars

-----------------------------------------------------------------------------
(***************************************************************************)
(* Properties.                                                             *)
(***************************************************************************)
Leased == {t \in Tasks : run[t].token # NoToken}

\* The ledger is what the leases that exist add up to: try_prepare_typed adds
\* in three places, release_reservation subtracts there, and no path of a
\* dispatch (a lost start, a payload that does not decode, a failing store, a
\* handler that panics) keeps an allocation or returns one twice.  What
\* concurrent attempts hold together never exceeds the capacity, no GPU is held
\* twice, and a task holds as many as it asked for, with the labels it asked for.
LedgerExact ==
    /\ {a.token : a \in ledger.allocations} = {run[t].token : t \in Leased}
    /\ Cardinality(ledger.allocations) = Cardinality(Leased)
    /\ \A k \in Resources : ledger.usage[k] = Sum(k, ledger.allocations)
    /\ ledger.gpus = UNION {a.gpus : a \in ledger.allocations}
    /\ \A k \in Resources : ledger.usage[k] <= CapacityOf(k)
    /\ \A a, b \in ledger.allocations : a # b => a.gpus \cap b.gpus = {}
    /\ \A t \in Leased, a \in ledger.allocations :
           a.token = run[t].token =>
               /\ a.gpus \subseteq MatchingGpus(RequestOf[t])
               /\ Cardinality(a.gpus) = RequestOf[t].gpu_count

\* A build of the application that does not know a payload blocks the task,
\* which can be resumed, and never spends an attempt on it or fails it: the
\* check of dispatch_is_eligible is as strict as the one of prepare, so that
\* only bytes that do not decode are an error of the attempt.
UnknownPayloadsOnlyBlock ==
    [][\A t \in Tasks :
           row'[t].state # row[t].state =>
               /\ row'[t].state = "Running" => Declared(PayloadOf[t])
               /\ row'[t].state = "Failed" => run[t].pc = "ended" \/ ~PayloadOf[t].decodes]_vars

\* While an attempt runs, the version its reporter holds is the stored one, or
\* one behind it while a report is stored and not answered: neither the
\* reporter of an older attempt nor a lost answer moves them further apart.
ReporterKeepsUp ==
    \A t \in Tasks :
        run[t].pc = "running" =>
            LET known == reporter[t][run[t].attempt].progress_version
            IN  row[t].progress \in {known, known + 1}

\* The initial delay doubled so many times, whatever the maximum.
Doubled(times) ==
    LET doubled[n \in 0 .. times] == IF n = 0 THEN initial_delay ELSE 2 * doubled[n - 1]
    IN  doubled[times]

\* A queued task that waits for its retry waits as long as its failed attempts
\* call for: the initial delay, doubled with every attempt, up to the maximum.
\* Neither blocking, cancelling nor recovery leaves an old delay behind.
RetryDelaysDouble ==
    \A t \in Tasks :
        row[t].delay # 0 =>
            /\ row[t].state = "Queued"
            /\ row[t].delay = Min({Doubled(row[t].attempt - 1), max_delay})

\* Failures spend at most max_attempts attempts, and every restart of the
\* process at most one more: blocking, resuming and lost starts spend none.
AttemptsBounded == \A t \in Tasks : row[t].attempt <= max_attempts + restarts
=============================================================================
