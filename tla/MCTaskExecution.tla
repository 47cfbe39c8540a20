-------------------------- MODULE MCTaskExecution --------------------------
(***************************************************************************)
(* Two tasks of one kind with different schema versions.  Either of two    *)
(* GPUs serves the first task, only one of them the second.  One build     *)
(* accepts both versions and another only the first; one machine lacks     *)
(* the named resource and the labelled GPU; the bytes of the second task   *)
(* do not decode; one of the offered registrations is invalid.             *)
(***************************************************************************)
EXTENDS TaskExecution

MCTasks == {1, 2}
MCRequestOf ==
    [t \in MCTasks |->
        IF t = 1 THEN [amount |-> [cpu |-> 1, license |-> 2], gpu_count |-> 1, gpu_labels |-> {}]
        ELSE [amount |-> [cpu |-> 1, license |-> 1], gpu_count |-> 1, gpu_labels |-> {"cuda"}]]
MCPayloadOf ==
    [t \in MCTasks |->
        [kind |-> "k", type |-> "p", codec |-> "json",
         schema_version |-> t, decodes |-> t = 1]]
Offer(kind, versions, mode, hook) ==
    [descriptor |-> [kind |-> kind, type |-> "p", versions |-> versions, mode |-> mode], hook |-> hook]
MCOffers ==
    {Offer("k", <<1, 2>>, "Cooperative", FALSE),
     Offer("k", <<1>>, "ExternalHook", TRUE),
     Offer("k", <<2, 2>>, "Cooperative", FALSE)}
MCCapacities ==
    {[amount |-> [cpu |-> 2, license |-> 3], gpus |-> [g0 |-> {"cuda"}, g1 |-> {}]],
     [amount |-> [cpu |-> 2], gpus |-> [g0 |-> {}]]}
=============================================================================
