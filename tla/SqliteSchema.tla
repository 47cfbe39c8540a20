---------------------------- MODULE SqliteSchema ----------------------------
(***************************************************************************)
(* What initialize_next_schema makes of the database file it finds.  A     *)
(* schema is the user_version and the shape of each table.  The function   *)
(* runs in one transaction: it commits a complete current schema or leaves *)
(* the file as it was.                                                     *)
(***************************************************************************)
EXTENDS Naturals

NEXT_SCHEMA_VERSION == 8

Tables == {"tasks", "outbox", "quarantine", "checkpoints"}

\* A table is missing, as this version wants it, without the retry deadline
\* column (tasks in version 4), or has other columns, keys or indexes.
Shapes == {"absent", "sound", "no deadline", "foreign"}

Schemas == [version : Nat, shape : [Tables -> Shapes]]

CurrentSchema ==
    [version |-> NEXT_SCHEMA_VERSION, shape |-> [t \in Tables |-> "sound"]]

\* The versions this code can open: none yet, or one with numeric task ids.
SupportedVersion(v) == v = 0 \/ v \in 4 .. NEXT_SCHEMA_VERSION

\* ALTER TABLE tasks ADD COLUMN, for version 4 only.
WithDeadlineColumn(sch) ==
    IF sch.version = 4 /\ sch.shape["tasks"] = "no deadline"
    THEN [sch.shape EXCEPT !["tasks"] = "sound"]
    ELSE sch.shape

\* The tables that each version lacks.  CREATE TABLE fails when one exists.
Creates(v) ==
    (IF v = 0 THEN {"tasks"} ELSE {})
        \cup (IF v \in {0, 4, 5} THEN {"outbox"} ELSE {})
        \cup (IF v < 7 THEN {"quarantine"} ELSE {})
        \cup (IF v < NEXT_SCHEMA_VERSION THEN {"checkpoints"} ELSE {})

WithCreatedTables(sch, shape) ==
    [t \in Tables |-> IF t \in Creates(sch.version) THEN "sound" ELSE shape[t]]

\* The validate functions, one for each table.
validate_next_schema(shape) == shape["tasks"] = "sound"
validate_outbox_schema(shape) == shape["outbox"] = "sound"
validate_quarantine_schema(shape) == shape["quarantine"] = "sound"
validate_checkpoint_schema(shape) == shape["checkpoints"] = "sound"

\* Whether initialize_next_schema succeeds, I/O errors aside.
Initializes(sch) ==
    LET altered == WithDeadlineColumn(sch)
        created == WithCreatedTables(sch, altered)
    IN  /\ SupportedVersion(sch.version)
        /\ \A t \in Creates(sch.version) : sch.shape[t] = "absent"
        /\ sch.version = 4 => sch.shape["tasks"] \in {"no deadline", "foreign"}
        /\ validate_next_schema(created)
        /\ validate_outbox_schema(created)
        /\ validate_quarantine_schema(created)
        /\ validate_checkpoint_schema(created)

Initialized(sch) ==
    [version |-> NEXT_SCHEMA_VERSION,
     shape |-> WithCreatedTables(sch, WithDeadlineColumn(sch))]
=============================================================================
