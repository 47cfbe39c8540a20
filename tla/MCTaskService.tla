--------------------------- MODULE MCTaskService ---------------------------
(***************************************************************************)
(* Small instances of TaskService.                                         *)
(***************************************************************************)
EXTENDS TaskService, TLC

CONSTANTS c1, c2, h1, h2

MCOneTask == {1}
MCTwoTasks == {1, 2}

MCOneClient == {c1}
MCTwoClients == {c1, c2}

MCOneFlight == {h1}
MCTwoFlights == {h1, h2}

MCCooperative == [id \in TaskIds |-> "Cooperative"]
MCExternalHook == [id \in TaskIds |-> "ExternalHook"]

\* Task 1 is cancelled through its flag, task 2 through its hook.
MCMixed == [id \in TaskIds |-> IF id = 1 THEN "Cooperative" ELSE "ExternalHook"]

\* Clients are interchangeable, and so are hook flights.
MCSymmetry == Permutations(MCTwoClients) \cup Permutations(MCTwoFlights)
=============================================================================
