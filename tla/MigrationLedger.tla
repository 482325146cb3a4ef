---------------------------- MODULE MigrationLedger --------------------------
(***************************************************************************)
(* What migrating a database promises: a run takes place at once or not at *)
(* all, it only adds to what earlier runs have done, and the schema is     *)
(* what the migrations on record have made it.                             *)
(***************************************************************************)
EXTENDS Naturals, Sequences

CONSTANTS
  Lists,            \* the migrations a release may come with, in order
  Made(_)           \* what a migration adds to the schema

VARIABLES
  record,           \* the migrations that have been run, in order
  schema

vars == <<record, schema>>

IsInitialPart(s, t) == Len(s) <= Len(t) /\ SubSeq(t, 1, Len(s)) = s

Init == record = <<>> /\ schema = {}

\* A release's migrations go on from those on record.
Migrate(list) ==
  /\ IsInitialPart(record, list)
  /\ record' = list
  /\ schema' = schema \cup UNION {Made(list[v]) : v \in Len(record) + 1 .. Len(list)}

Next == \E list \in Lists : Migrate(list)

Spec == Init /\ [][Next]_vars
=============================================================================
