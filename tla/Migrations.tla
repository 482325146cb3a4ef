------------------------------ MODULE Migrations -----------------------------
(***************************************************************************)
(* runPostgresMigrations (src/database/migrationRunner.ts), run by every   *)
(* server that starts and by the release step: one transaction that makes  *)
(* the ledger table, takes an advisory lock, and runs the migrations the   *)
(* ledger does not have.  Runners of different releases overlap, fail at   *)
(* any statement, and die.                                                 *)
(*                                                                         *)
(* Of PostgreSQL the model has what the runner relies on: DDL is           *)
(* transactional, a query sees what is committed when it begins and what   *)
(* its own transaction wrote, the lock is held to the end of the           *)
(* transaction, and of two transactions that create one table the second   *)
(* waits for the first and fails if it commits, IF NOT EXISTS or not.      *)
(***************************************************************************)
EXTENDS Naturals, Sequences, FiniteSets

CONSTANTS
  Runners,          \* one element per run ever started: bounds the model
  Objects,          \* what statements make: tables, indexes
  Names,            \* the names of migrations
  Lists,            \* the migrations a release may come with, in order
  Nobody

\* A statement makes an object that must not be there and needs others that
\* must; a text is the statements splitPostgresStatements finds in it.  Two
\* checksums are equal when name and text are.
Statement == [makes : Objects, needs : SUBSET Objects]
Migration == [name : Names, text : Seq(Statement)]
Row == [version : Nat, name : Names, text : Seq(Statement)]

ASSUME ListsAssumption == Lists \subseteq Seq(Migration)
ASSUME NobodyAssumption == Nobody \notin Runners

Made(migration) == {migration.text[i].makes : i \in DOMAIN migration.text}

VARIABLES
  table,            \* whether tm_schema_migrations exists
  ledger,           \* its rows
  schema,           \* the objects that exist
  lock,             \* who holds the advisory lock
  run               \* each runner, with what its transaction has not committed

vars == <<table, ledger, schema, lock, run>>

Waiting == {"create", "blocked", "lock"}
Holding == {"look", "run", "commit"}
Ended == {"done", "failed"}
Causes == {"none", "refused", "table", "conflict", "statement", "died"}

Run ==
  [phase : {"idle"} \cup Waiting \cup Holding \cup Ended, cause : Causes,
   list : Lists \cup {<<>>}, at : Nat, next : Nat,
   table : BOOLEAN, ledger : SUBSET Row, schema : SUBSET Objects,
   applied : SUBSET Nat, skipped : SUBSET Nat]

NewRun ==
  [phase |-> "idle", cause |-> "none", list |-> <<>>, at |-> 1, next |-> 1,
   table |-> FALSE, ledger |-> {}, schema |-> {},
   applied |-> {}, skipped |-> {}]

TypeOK ==
  /\ table \in BOOLEAN
  /\ ledger \subseteq Row
  /\ schema \subseteq Objects
  /\ lock \in Runners \cup {Nobody}
  /\ run \in [Runners -> Run]
  /\ \A r \in Runners : run[r].phase \in Holding <=> lock = r
  /\ \A r, s \in Runners : run[r].table /\ run[s].table => r = s

Init ==
  /\ table = FALSE
  /\ ledger = {}
  /\ schema = {}
  /\ lock = Nobody
  /\ run = [r \in Runners |-> NewRun]

-----------------------------------------------------------------------------
(* The end of a transaction. *)

\* A mutant: the lock is the session's, and the connection goes back to the
\* pool.
RollbackOnly(r, cause) ==
  /\ run' = [run EXCEPT ![r] =
               [@ EXCEPT !.phase = "failed", !.cause = cause,
                         !.table = FALSE, !.ledger = {}, !.schema = {}]]
  /\ UNCHANGED <<table, ledger, schema, lock>>

\* ROLLBACK, or the end of the connection.
Rollback(r, cause) ==
  /\ run' = [run EXCEPT ![r] =
               [@ EXCEPT !.phase = "failed", !.cause = cause,
                         !.table = FALSE, !.ledger = {}, !.schema = {}]]
  /\ lock' = IF lock = r THEN Nobody ELSE lock
  /\ UNCHANGED <<table, ledger, schema>>

Commit(r) ==
  /\ run[r].phase = "commit"
  /\ table' = (table \/ run[r].table)
  /\ ledger' = ledger \cup run[r].ledger
  /\ schema' = schema \cup run[r].schema
  /\ run' = [run EXCEPT ![r] = [@ EXCEPT !.phase = "done", !.table = FALSE,
                                         !.ledger = {}, !.schema = {}]]
  /\ lock' = Nobody

-----------------------------------------------------------------------------
(* One run, statement by statement. *)

\* A step that stays within the runner's own transaction.
Go(r, new) ==
  /\ run' = [run EXCEPT ![r] = new]
  /\ UNCHANGED <<table, ledger, schema, lock>>

\* What validateMigrationSet asks; that the versions are 1, 2, 3 ... is in
\* the sequence.  A text is not blank, but it may be without a statement.
ValidMigrationSet(list) ==
  /\ list # <<>>
  /\ \A v, w \in DOMAIN list : list[v].name = list[w].name => v = w

Start(r, list) ==
  /\ run[r].phase = "idle"
  /\ IF ValidMigrationSet(list)
     THEN Go(r, [run[r] EXCEPT !.phase = "create", !.list = list])
     ELSE Go(r, [run[r] EXCEPT !.phase = "failed", !.cause = "refused"])

Creating == {r \in Runners : run[r].table}

\* CREATE TABLE IF NOT EXISTS, before any lock is taken.
CreateLedger(r) ==
  /\ run[r].phase = "create"
  /\ IF table THEN Go(r, [run[r] EXCEPT !.phase = "lock"])
     ELSE IF Creating = {}
     THEN Go(r, [run[r] EXCEPT !.phase = "lock", !.table = TRUE])
     ELSE Go(r, [run[r] EXCEPT !.phase = "blocked"])

\* The transaction that was creating the table has ended.
Unblock(r) ==
  /\ run[r].phase = "blocked"
  /\ Creating = {}
  /\ IF table THEN Rollback(r, "table")
     ELSE Go(r, [run[r] EXCEPT !.phase = "lock", !.table = TRUE])

\* A mutant: nobody waits for the lock.
TakeLockAtOnce(r) ==
  /\ run[r].phase = "lock"
  /\ lock' = r
  /\ run' = [run EXCEPT ![r].phase = "look"]
  /\ UNCHANGED <<table, ledger, schema>>

TakeLock(r) ==
  /\ run[r].phase = "lock"
  /\ lock = Nobody
  /\ lock' = r
  /\ run' = [run EXCEPT ![r].phase = "look"]
  /\ UNCHANGED <<table, ledger, schema>>

Migrating(r) == run[r].list[run[r].at]
Recorded(r) == {row \in ledger \cup run[r].ledger : row.version = run[r].at}

NewRow(r) ==
  [version |-> run[r].at, name |-> Migrating(r).name, text |-> Migrating(r).text]

\* A mutant: a version on record is skipped, whatever it was.
LookByVersion(r) ==
  /\ run[r].phase = "look"
  /\ IF run[r].at > Len(run[r].list)
     THEN Go(r, [run[r] EXCEPT !.phase = "commit"])
     ELSE IF Recorded(r) = {}
     THEN Go(r, [run[r] EXCEPT !.phase = "run", !.next = 1])
     ELSE Go(r, [run[r] EXCEPT !.at = @ + 1, !.skipped = @ \cup {run[r].at}])

\* A mutant: a version on record is a conflict, whatever it was.
LookOnce(r) ==
  /\ run[r].phase = "look"
  /\ IF run[r].at > Len(run[r].list)
     THEN Go(r, [run[r] EXCEPT !.phase = "commit"])
     ELSE IF Recorded(r) = {}
     THEN Go(r, [run[r] EXCEPT !.phase = "run", !.next = 1])
     ELSE Rollback(r, "conflict")

\* The next version: on record, on record as something else, or to be run.
Look(r) ==
  /\ run[r].phase = "look"
  /\ IF run[r].at > Len(run[r].list)
     THEN Go(r, [run[r] EXCEPT !.phase = "commit"])
     ELSE IF Recorded(r) = {}
     THEN Go(r, [run[r] EXCEPT !.phase = "run", !.next = 1])
     ELSE IF Recorded(r) = {NewRow(r)}
     THEN Go(r, [run[r] EXCEPT !.at = @ + 1, !.skipped = @ \cup {run[r].at}])
     ELSE Rollback(r, "conflict")

Executable(statement, objects) ==
  statement.makes \notin objects /\ statement.needs \subseteq objects

\* A mutant: there is no transaction around the statements.
ExecuteCommitting(r) ==
  LET statement == Migrating(r).text[run[r].next] IN
  /\ run[r].phase = "run"
  /\ run[r].next <= Len(Migrating(r).text)
  /\ IF Executable(statement, schema \cup run[r].schema)
     THEN /\ schema' = schema \cup {statement.makes}
          /\ run' = [run EXCEPT ![r].next = @ + 1]
          /\ UNCHANGED <<table, ledger, lock>>
     ELSE Rollback(r, "statement")

Execute(r) ==
  LET statement == Migrating(r).text[run[r].next] IN
  /\ run[r].phase = "run"
  /\ run[r].next <= Len(Migrating(r).text)
  /\ IF Executable(statement, schema \cup run[r].schema)
     THEN Go(r, [run[r] EXCEPT !.schema = @ \cup {statement.makes},
                               !.next = @ + 1])
     ELSE Rollback(r, "statement")

\* The name is UNIQUE in the ledger.
Insert(r) ==
  /\ run[r].phase = "run"
  /\ run[r].next > Len(Migrating(r).text)
  /\ IF \E row \in ledger \cup run[r].ledger : row.name = Migrating(r).name
     THEN Rollback(r, "statement")
     ELSE Go(r, [run[r] EXCEPT
                   !.phase = "look", !.at = @ + 1, !.ledger = @ \cup {NewRow(r)},
                   !.applied = @ \cup {run[r].at}])

\* The process or its connection ends, or a query fails for its own reasons.
Die(r) ==
  /\ run[r].phase \in Waiting \cup Holding
  /\ Rollback(r, "died")

Step(r) ==
  \/ CreateLedger(r) \/ Unblock(r) \/ TakeLock(r)
  \/ Look(r) \/ Execute(r) \/ Insert(r) \/ Commit(r)

Next ==
  \E r \in Runners : (\E list \in Lists : Start(r, list)) \/ Step(r) \/ Die(r)

Spec == Init /\ [][Next]_vars

\* The database answers every query it can.
Fairness == \A r \in Runners : WF_vars(Step(r))

FairSpec == Spec /\ Fairness

-----------------------------------------------------------------------------
(* Properties. *)

\* The migrations on record, in order.
Record ==
  [v \in 1 .. Cardinality(ledger) |->
     LET row == CHOOSE row \in ledger : row.version = v IN
     [name |-> row.name, text |-> row.text]]

\* However runs overlap, fail and die, the database goes from one whole
\* release to the next: no migration is run twice, in part, out of order, or
\* without being recorded.
Atomic ==
  INSTANCE MigrationLedger WITH
    record <- Record,
    Lists <- {list \in Lists : ValidMigrationSet(list)}
ImplementsLedger == Atomic!Spec

\* A run that has succeeded has left every migration of its release on
\* record, as the release has it, and it stays there.
DoneMeansMigrated ==
  \A r \in Runners :
    run[r].phase = "done" =>
      /\ \A v \in DOMAIN run[r].list :
           [version |-> v, name |-> run[r].list[v].name,
            text |-> run[r].list[v].text] \in ledger
      /\ run[r].applied \cup run[r].skipped = DOMAIN run[r].list
      /\ run[r].applied \cap run[r].skipped = {}

\* No two runs report that they applied the same version.
AppliedOnce ==
  \A r, s \in Runners :
    run[r].phase = "done" /\ run[s].phase = "done" /\ r # s =>
      run[r].applied \cap run[s].applied = {}

\* A run is refused as a conflict only by a record that differs from its
\* release, and as a second creator of the ledger table only if a first one
\* has succeeded: "is idempotent" (src/database/postgresPersistence.test.ts).
RefusedForAReason ==
  \A r \in Runners :
    /\ run[r].cause = "conflict" =>
         \E row \in ledger :
           /\ row.version \in DOMAIN run[r].list
           /\ run[r].list[row.version] # [name |-> row.name, text |-> row.text]
    /\ run[r].cause = "table" => table

\* What a run reports is so: what it says it has applied it has, alone; what
\* it is refused for is there.
OutcomesAreTrue == DoneMeansMigrated /\ AppliedOnce /\ RefusedForAReason

\* Runs wait for the ledger table and for the lock, never for each other: one
\* that has begun ends.
EveryRunEnds ==
  \A r \in Runners :
    run[r].phase \in Waiting \cup Holding ~> run[r].phase \in Ended
=============================================================================
