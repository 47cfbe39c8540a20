------------------------- MODULE MCSqliteTaskStore -------------------------
(* Two instances of one database with two tasks and two owners.            *)
EXTENDS SqliteTaskStore, TLC

MCKeyOf == [r \in Requests |-> IF r = "keyed" THEN "key" ELSE NoKey]

Shape(tasks_table, outbox_table, quarantine_table, checkpoints_table) ==
    [t \in Tables |->
        CASE t = "tasks" -> tasks_table
          [] t = "outbox" -> outbox_table
          [] t = "quarantine" -> quarantine_table
          [] OTHER -> checkpoints_table]

\* What earlier releases leave behind, and files this release must refuse:
\* unversioned or legacy tables, an interrupted or foreign upgrade, a future
\* version.
MCFoundSchemas ==
    {[version |-> 0, shape |-> Shape("absent", "absent", "absent", "absent")],
     [version |-> 4, shape |-> Shape("no deadline", "absent", "absent", "absent")],
     [version |-> 5, shape |-> Shape("sound", "absent", "absent", "absent")],
     [version |-> 6, shape |-> Shape("sound", "sound", "absent", "absent")],
     [version |-> 7, shape |-> Shape("sound", "sound", "sound", "absent")],
     [version |-> 8, shape |-> Shape("sound", "sound", "sound", "sound")]}
    \cup
    {[version |-> 0, shape |-> Shape("foreign", "absent", "absent", "absent")],
     [version |-> 3, shape |-> Shape("foreign", "absent", "absent", "absent")],
     [version |-> 4, shape |-> Shape("sound", "absent", "absent", "absent")],
     [version |-> 5, shape |-> Shape("sound", "sound", "absent", "absent")],
     [version |-> 6, shape |-> Shape("sound", "foreign", "absent", "absent")],
     [version |-> 7, shape |-> Shape("sound", "sound", "absent", "absent")],
     [version |-> 8, shape |-> Shape("sound", "sound", "sound", "absent")],
     [version |-> 9, shape |-> Shape("sound", "sound", "sound", "sound")]}

Symmetry == Permutations(Stores)
=============================================================================
