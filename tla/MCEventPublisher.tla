------------------------- MODULE MCEventPublisher -------------------------
(* Two tasks, the clock of which shows two times in any order.             *)
EXTENDS EventPublisher
=============================================================================
