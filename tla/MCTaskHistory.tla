--------------------------- MODULE MCTaskHistory ---------------------------
(* An instance of TaskHistory for TLC: ids of one and of two digits.       *)
EXTENDS TaskHistory

MCCategoryOf == [id \in Ids |-> IF id = 9 THEN "audit" ELSE "none"]

MCQueries ==
    {[states |-> {}, category |-> "none"],
     [states |-> {"Queued", "Running"}, category |-> "none"],
     [states |-> {}, category |-> "audit"]}
=============================================================================
