-------------------------- MODULE MCSchedulerLoop --------------------------
(***************************************************************************)
(* Small instances of SchedulerLoop.                                       *)
(***************************************************************************)
EXTENDS SchedulerLoop

MCTwoTasks == {1, 2}
MCThreeTasks == {1, 2, 3}

\* One unit: leases exclude each other.
MCOneLease == {{}} \cup {{id} : id \in TaskIds}

\* Tasks 1 and 2 compete; task 3 needs something else.
MCTwoCompete == {held \in SUBSET TaskIds : ~({1, 2} \subseteq held)}
=============================================================================
