----------------------------- MODULE ServerProofs -----------------------------
(***************************************************************************)
(* Theorems about the migrations (Migrations), the requests of a server    *)
(* (HttpApi), the runs of the seed (Seed), and the three side by side      *)
(* (Server).  They share no state.                                         *)
(*                                                                         *)
(* Migrations: for any number of runs of any releases.  What a run reports *)
(* it has decided statement by statement, by a ledger others may write to  *)
(* before and after.  RunInv is what a run under way knows.  The versions  *)
(* before the one it is at are those it has applied and those it has       *)
(* skipped; of each there is a row, on record or its own; and of those it  *)
(* has applied none is on record.  It stays so because the ledger changes  *)
(* only when the holder of the lock commits.                               *)
(*                                                                         *)
(* Requests: for any requests, tokens, grants and times, only a living     *)
(* token of a user with a grant gets to the admin service, and the pool    *)
(* ends after the last request.  A request is checked in steps, and        *)
(* between two of them grants come and go and the clock goes on.           *)
(* RequestInv says what a request has shown so far, HeldInv that a grant   *)
(* in force now counts as held by every request that is open now: so what  *)
(* authorizes a request was held while it was open, however soon it is     *)
(* revoked.                                                                *)
(*                                                                         *)
(* Seed: that nobody's batch replaces what is there cannot be seen from    *)
(* the step that saves it, for the run decided by a workspace it read long *)
(* before.  ReadInv is what such a run knows meanwhile.  Revisions only    *)
(* grow, so either its revision is still the one that is stored, and then  *)
(* the water heaters are still not there, or the save will be refused.     *)
(***************************************************************************)
EXTENDS Server, FiniteSetTheorems, SequenceTheorems, TLAPS

-----------------------------------------------------------------------------
(* Migrations. *)

\* The ledger's row of version v of a release.
RowOf(list, v) ==
  [version |-> v, name |-> list[v].name, text |-> list[v].text]

\* What a run knows that holds the lock.
HolderInv(r) ==
  /\ run[r].at \in 1 .. Len(run[r].list) + 1
  /\ run[r].applied \cup run[r].skipped = 1 .. run[r].at - 1
  /\ run[r].applied \cap run[r].skipped = {}
  /\ \A row \in run[r].ledger : row.version < run[r].at
  /\ \A v \in 1 .. run[r].at - 1 : RowOf(run[r].list, v) \in ledger \cup run[r].ledger
  /\ \A row \in ledger : row.version \notin run[r].applied

RunInv(r) ==
  /\ run[r].next >= 1
  /\ run[r].phase \notin Ended => run[r].cause = "none"
  /\ run[r].phase \in {"idle"} \cup Waiting =>
       run[r].at = 1 /\ run[r].applied = {} /\ run[r].skipped = {}
  /\ run[r].phase \notin Holding => run[r].ledger = {}
  /\ run[r].phase \in Holding => HolderInv(r)
  /\ run[r].phase = "run" =>
       /\ run[r].at <= Len(run[r].list)
       /\ \A row \in ledger : row.version # run[r].at
  /\ run[r].phase = "commit" => run[r].at = Len(run[r].list) + 1

RunsInv == \A r \in Runners : RunInv(r)

MigrationsInv == TypeOK /\ RunsInv /\ OutcomesAreTrue

-----------------------------------------------------------------------------
(* Types. *)

LEMMA ListFacts ==
  ASSUME TypeOK, NEW r \in Runners
  PROVE  /\ run[r] \in Run
         /\ run[r].list \in Seq(Migration)
         /\ Len(run[r].list) \in Nat
         /\ DOMAIN run[r].list = 1 .. Len(run[r].list)
<1>1. run[r] \in Run
  BY DEF TypeOK
<1>2. run[r].list \in Lists \cup {<<>>}
  BY <1>1 DEF Run
<1>3. <<>> \in Seq(Migration)
  OBVIOUS
<1>4. run[r].list \in Seq(Migration)
  BY <1>2, <1>3, ListsAssumption
<1> QED
  BY <1>1, <1>4

\* A migration that is under way is one of its release.
LEMMA MigratingFacts ==
  ASSUME TypeOK, NEW r \in Runners, RunInv(r), run[r].phase = "run"
  PROVE  /\ run[r].at \in DOMAIN run[r].list
         /\ Migrating(r) \in Migration
         /\ NewRow(r) \in Row
<1>1. run[r].at \in DOMAIN run[r].list
  BY ListFacts DEF RunInv, HolderInv, Holding
<1>2. Migrating(r) \in Migration
  BY <1>1, ListFacts DEF Migrating
<1> QED
  BY <1>1, <1>2, ListFacts DEF NewRow, Migration, Row

LEMMA RunFields ==
  ASSUME NEW x \in Run
  PROVE  /\ x.at \in Nat /\ x.at + 1 \in Nat
         /\ x.next \in Nat /\ x.next + 1 \in Nat
         /\ x.ledger \subseteq Row /\ x.schema \subseteq Objects
         /\ x.applied \subseteq Nat /\ x.skipped \subseteq Nat
BY DEF Run

LEMMA GoKeepsTypes ==
  ASSUME TypeOK, NEW r \in Runners, NEW new \in Run, Go(r, new),
         new.phase \in Holding <=> run[r].phase \in Holding,
         new.table => run[r].table \/ Creating = {}
  PROVE  TypeOK'
<1>1. /\ run' \in [Runners -> Run] /\ run'[r] = new
      /\ \A s \in Runners \ {r} : run'[s] = run[s]
      /\ UNCHANGED <<table, ledger, schema, lock>>
  BY DEF Go, TypeOK
<1>2. \A s \in Runners : run'[s].phase \in Holding <=> lock' = s
  BY <1>1 DEF TypeOK
<1>3. \A s, t \in Runners : run'[s].table /\ run'[t].table => s = t
  BY <1>1 DEF TypeOK, Creating
<1> QED
  BY <1>1, <1>2, <1>3 DEF TypeOK

LEMMA RollbackKeepsTypes ==
  ASSUME TypeOK, NEW r \in Runners, NEW cause \in Causes, Rollback(r, cause)
  PROVE  TypeOK'
<1> DEFINE new == [run[r] EXCEPT !.phase = "failed", !.cause = cause,
                                 !.table = FALSE, !.ledger = {}, !.schema = {}]
<1>1. new \in Run
  BY ListFacts DEF Run, Ended
<1>2. /\ run' \in [Runners -> Run] /\ run'[r] = new
      /\ \A s \in Runners \ {r} : run'[s] = run[s]
      /\ UNCHANGED <<table, ledger, schema>>
      /\ lock' = IF lock = r THEN Nobody ELSE lock
  BY <1>1 DEF Rollback, TypeOK
<1>3. new.phase \notin Holding /\ ~ new.table
  BY ListFacts DEF Run, Holding
<1>4. \A s \in Runners : run'[s].phase \in Holding <=> lock' = s
  BY <1>2, <1>3, NobodyAssumption DEF TypeOK
<1>5. \A s, t \in Runners : run'[s].table /\ run'[t].table => s = t
  BY <1>2, <1>3 DEF TypeOK
<1> QED
  BY <1>2, <1>4, <1>5 DEF TypeOK

LEMMA CommitKeepsTypes ==
  ASSUME TypeOK, NEW r \in Runners, Commit(r)
  PROVE  TypeOK'
<1> DEFINE new == [run[r] EXCEPT !.phase = "done", !.table = FALSE,
                                 !.ledger = {}, !.schema = {}]
<1>1. new \in Run
  BY ListFacts DEF Run, Ended
<1>2. /\ run' \in [Runners -> Run] /\ run'[r] = new
      /\ \A s \in Runners \ {r} : run'[s] = run[s]
      /\ lock' = Nobody
  BY <1>1 DEF Commit, TypeOK
<1>3. /\ table' \in BOOLEAN /\ ledger' \subseteq Row /\ schema' \subseteq Objects
  BY ListFacts DEF Commit, TypeOK, Run
<1>4. new.phase \notin Holding /\ ~ new.table
  BY ListFacts DEF Run, Holding
<1>5. lock = r
  BY DEF Commit, TypeOK, Holding
<1>6. \A s \in Runners : run'[s].phase \in Holding <=> lock' = s
  BY <1>2, <1>4, <1>5, NobodyAssumption DEF TypeOK
<1>7. \A s, t \in Runners : run'[s].table /\ run'[t].table => s = t
  BY <1>2, <1>4 DEF TypeOK
<1> QED
  BY <1>2, <1>3, <1>6, <1>7 DEF TypeOK

LEMMA TypeStep == MigrationsInv /\ Next => TypeOK'
<1> SUFFICES ASSUME TypeOK, RunsInv, Next PROVE TypeOK'
  BY DEF MigrationsInv
<1> USE DEF Waiting, Holding, Ended, Causes
<1>1. ASSUME NEW r \in Runners, NEW list \in Lists, Start(r, list) PROVE TypeOK'
  <2> DEFINE begun == [run[r] EXCEPT !.phase = "create", !.list = list]
             refused == [run[r] EXCEPT !.phase = "failed", !.cause = "refused"]
  <2>1. begun \in Run /\ refused \in Run
    BY ListFacts DEF Run
  <2>2. /\ begun.phase \notin Holding /\ begun.table = run[r].table
        /\ refused.phase \notin Holding /\ refused.table = run[r].table
        /\ run[r].phase = "idle"
    BY <1>1, ListFacts DEF Start, Run
  <2>3. Go(r, begun) \/ Go(r, refused)
    BY <1>1 DEF Start
  <2> HIDE DEF begun, refused
  <2> QED
    BY <2>1, <2>2, <2>3, GoKeepsTypes
<1>2. ASSUME NEW r \in Runners, CreateLedger(r) PROVE TypeOK'
  <2> DEFINE waits == [run[r] EXCEPT !.phase = "lock"]
             creates == [run[r] EXCEPT !.phase = "lock", !.table = TRUE]
             blocks == [run[r] EXCEPT !.phase = "blocked"]
  <2>1. waits \in Run /\ creates \in Run /\ blocks \in Run
    BY ListFacts DEF Run
  <2>2. /\ waits.phase \notin Holding /\ waits.table = run[r].table
        /\ creates.phase \notin Holding
        /\ blocks.phase \notin Holding /\ blocks.table = run[r].table
        /\ run[r].phase = "create"
    BY <1>2, ListFacts DEF CreateLedger, Run
  <2>3. Go(r, waits) \/ (Creating = {} /\ Go(r, creates)) \/ Go(r, blocks)
    BY <1>2 DEF CreateLedger
  <2> HIDE DEF waits, creates, blocks
  <2> QED
    BY <2>1, <2>2, <2>3, GoKeepsTypes
<1>3. ASSUME NEW r \in Runners, Unblock(r) PROVE TypeOK'
  <2> DEFINE creates == [run[r] EXCEPT !.phase = "lock", !.table = TRUE]
  <2>1. creates \in Run
    BY ListFacts DEF Run
  <2>2. creates.phase \notin Holding /\ run[r].phase = "blocked"
    BY <1>3, ListFacts DEF Unblock, Run
  <2>3. Rollback(r, "table") \/ (Creating = {} /\ Go(r, creates))
    BY <1>3 DEF Unblock
  <2> HIDE DEF creates
  <2> QED
    BY <2>1, <2>2, <2>3, GoKeepsTypes, RollbackKeepsTypes
<1>4. ASSUME NEW r \in Runners, TakeLock(r) PROVE TypeOK'
  <2> DEFINE holds == [run[r] EXCEPT !.phase = "look"]
  <2>1. holds \in Run /\ holds.phase = "look" /\ holds.table = run[r].table
    BY ListFacts DEF Run
  <2>2. /\ run' \in [Runners -> Run] /\ run'[r] = holds
        /\ \A s \in Runners \ {r} : run'[s] = run[s]
        /\ lock = Nobody /\ lock' = r /\ UNCHANGED <<table, ledger, schema>>
    BY <1>4, <2>1 DEF TakeLock, TypeOK
  <2> HIDE DEF holds
  <2>3. \A s \in Runners : run'[s].phase \in Holding <=> lock' = s
    BY <2>1, <2>2, NobodyAssumption DEF TypeOK
  <2>4. \A s, t \in Runners : run'[s].table /\ run'[t].table => s = t
    BY <2>1, <2>2 DEF TypeOK
  <2> QED
    BY <2>2, <2>3, <2>4 DEF TypeOK
<1>5. ASSUME NEW r \in Runners, Look(r) PROVE TypeOK'
  <2> DEFINE commits == [run[r] EXCEPT !.phase = "commit"]
             runs == [run[r] EXCEPT !.phase = "run", !.next = 1]
             skips == [run[r] EXCEPT !.at = @ + 1, !.skipped = @ \cup {run[r].at}]
  <2>1. commits \in Run /\ runs \in Run /\ skips \in Run
    <3>1. commits \in Run /\ runs \in Run
      BY ListFacts DEF Run
    <3>2. /\ run[r].at + 1 \in Nat
          /\ run[r].skipped \cup {run[r].at} \in SUBSET Nat
      BY ListFacts, RunFields
    <3>3. skips \in Run
      BY <3>2, ListFacts DEF Run
    <3> QED
      BY <3>1, <3>3
  <2>2. /\ run[r].phase = "look"
        /\ commits.phase = "commit" /\ commits.table = run[r].table
        /\ runs.phase = "run" /\ runs.table = run[r].table
        /\ skips.phase = "look" /\ skips.table = run[r].table
    BY <1>5, ListFacts DEF Look, Run
  <2>3. Go(r, commits) \/ Go(r, runs) \/ Go(r, skips) \/ Rollback(r, "conflict")
    BY <1>5 DEF Look
  <2> HIDE DEF commits, runs, skips
  <2> QED
    BY <2>1, <2>2, <2>3, GoKeepsTypes, RollbackKeepsTypes
<1>6. ASSUME NEW r \in Runners, Execute(r) PROVE TypeOK'
  <2> DEFINE statement == Migrating(r).text[run[r].next]
             makes == [run[r] EXCEPT !.schema = @ \cup {statement.makes},
                                     !.next = @ + 1]
  <2>1. run[r].phase = "run" /\ RunInv(r)
    BY <1>6 DEF Execute, RunsInv
  <2>2. statement \in Statement
    BY <1>6, <2>1, MigratingFacts, ListFacts DEF Execute, Migration, RunInv, Run
  <2>3. /\ makes \in Run /\ makes.phase = run[r].phase /\ makes.table = run[r].table
    <3>1. /\ run[r].next + 1 \in Nat
          /\ run[r].schema \cup {statement.makes} \in SUBSET Objects
      BY <2>2, ListFacts, RunFields DEF Statement
    <3> QED
      BY <3>1, ListFacts DEF Run
  <2>4. Go(r, makes) \/ Rollback(r, "statement")
    BY <1>6 DEF Execute
  <2> HIDE DEF makes
  <2> QED
    BY <2>3, <2>4, GoKeepsTypes, RollbackKeepsTypes
<1>7. ASSUME NEW r \in Runners, Insert(r) PROVE TypeOK'
  <2> DEFINE records == [run[r] EXCEPT
                           !.phase = "look", !.at = @ + 1,
                           !.ledger = @ \cup {NewRow(r)},
                           !.applied = @ \cup {run[r].at}]
  <2>1. run[r].phase = "run" /\ NewRow(r) \in Row
    BY <1>7, MigratingFacts DEF Insert, RunsInv
  <2>2. records \in Run /\ records.phase = "look" /\ records.table = run[r].table
    <3>1. /\ run[r].at + 1 \in Nat
          /\ run[r].ledger \cup {NewRow(r)} \in SUBSET Row
          /\ run[r].applied \cup {run[r].at} \in SUBSET Nat
      BY <2>1, ListFacts, RunFields
    <3> QED
      BY <3>1, ListFacts DEF Run
  <2>3. Go(r, records) \/ Rollback(r, "statement")
    BY <1>7 DEF Insert
  <2> HIDE DEF records
  <2> QED
    BY <2>1, <2>2, <2>3, GoKeepsTypes, RollbackKeepsTypes
<1>8. ASSUME NEW r \in Runners, Commit(r) PROVE TypeOK'
  BY <1>8, CommitKeepsTypes
<1>9. ASSUME NEW r \in Runners, Die(r) PROVE TypeOK'
  BY <1>9, RollbackKeepsTypes DEF Die
<1> QED
  BY <1>1, <1>2, <1>3, <1>4, <1>5, <1>6, <1>7, <1>8, <1>9 DEF Next, Step

-----------------------------------------------------------------------------
(* What runs know. *)

LEMMA GoKeepsRuns ==
  ASSUME TypeOK, RunsInv, NEW r \in Runners, NEW new, Go(r, new), RunInv(r)'
  PROVE  RunsInv'
<1>1. \A s \in Runners \ {r} : run'[s] = run[s]
  BY DEF Go, TypeOK
<1>2. ASSUME NEW s \in Runners, s # r PROVE RunInv(s)'
  BY <1>1, <1>2 DEF RunsInv, RunInv, HolderInv, Go
<1> QED
  BY <1>2 DEF RunsInv

LEMMA RollbackKeepsRuns ==
  ASSUME TypeOK, RunsInv, NEW r \in Runners, NEW cause, Rollback(r, cause)
  PROVE  RunsInv'
<1>1. /\ \A s \in Runners \ {r} : run'[s] = run[s]
      /\ run'[r] = [run[r] EXCEPT !.phase = "failed", !.cause = cause,
                                  !.table = FALSE, !.ledger = {}, !.schema = {}]
      /\ ledger' = ledger
  BY DEF Rollback, TypeOK
<1>2. ASSUME NEW s \in Runners, s # r PROVE RunInv(s)'
  BY <1>1, <1>2 DEF RunsInv, RunInv, HolderInv
<1>3. /\ run'[r].phase = "failed" /\ run'[r].ledger = {}
      /\ run'[r].next = run[r].next
  BY <1>1, ListFacts DEF Run
<1>4. RunInv(r)'
  BY <1>3 DEF RunsInv, RunInv, Waiting, Holding, Ended
<1> QED
  BY <1>2, <1>4 DEF RunsInv

\* The ledger changes, but nobody else holds the lock.
LEMMA CommitKeepsRuns ==
  ASSUME TypeOK, RunsInv, NEW r \in Runners, Commit(r)
  PROVE  RunsInv'
<1>1. /\ \A s \in Runners \ {r} : run'[s] = run[s]
      /\ run'[r] = [run[r] EXCEPT !.phase = "done", !.table = FALSE,
                                  !.ledger = {}, !.schema = {}]
  BY DEF Commit, TypeOK
<1>2. ASSUME NEW s \in Runners, s # r PROVE RunInv(s)'
  <2>1. run[s].phase \notin Holding
    BY <1>2 DEF Commit, TypeOK, Holding
  <2> QED
    BY <1>1, <1>2, <2>1 DEF RunsInv, RunInv, Holding
<1>3. /\ run'[r].phase = "done" /\ run'[r].ledger = {}
      /\ run'[r].next = run[r].next
  BY <1>1, ListFacts DEF Run
<1>4. RunInv(r)'
  BY <1>3 DEF RunsInv, RunInv, Waiting, Holding, Ended
<1> QED
  BY <1>2, <1>4 DEF RunsInv

LEMMA RunsStep == MigrationsInv /\ Next => RunsInv'
<1> SUFFICES ASSUME TypeOK, RunsInv, Next PROVE RunsInv'
  BY DEF MigrationsInv
<1> USE DEF Waiting, Holding, Ended
<1>1. ASSUME NEW r \in Runners, NEW list \in Lists, Start(r, list) PROVE RunsInv'
  <2>1. PICK new : Go(r, new) /\ run'[r] = new /\ run[r].phase = "idle"
                   /\ \/ new = [run[r] EXCEPT !.phase = "create", !.list = list]
                      \/ new = [run[r] EXCEPT !.phase = "failed", !.cause = "refused"]
    BY <1>1 DEF Start, Go, TypeOK
  <2>2. /\ run'[r].phase \in {"create", "failed"}
        /\ run'[r].phase = "create" => run'[r].cause = run[r].cause
        /\ run'[r].next = run[r].next /\ run'[r].at = run[r].at
        /\ run'[r].applied = run[r].applied /\ run'[r].skipped = run[r].skipped
        /\ run'[r].ledger = run[r].ledger
    BY <2>1, ListFacts DEF Run
  <2>3. RunInv(r)'
    BY <2>1, <2>2 DEF RunsInv, RunInv
  <2> QED
    BY <2>1, <2>3, GoKeepsRuns
<1>2. ASSUME NEW r \in Runners, NEW new, Go(r, new), run[r].phase \in {"create", "blocked"},
             \/ new = [run[r] EXCEPT !.phase = "lock"]
             \/ new = [run[r] EXCEPT !.phase = "lock", !.table = TRUE]
             \/ new = [run[r] EXCEPT !.phase = "blocked"]
      PROVE  RunsInv'
  <2>1. run'[r] = new
    BY <1>2 DEF Go, TypeOK
  <2>2. /\ run'[r].phase \in {"lock", "blocked"} /\ run'[r].cause = run[r].cause
        /\ run'[r].next = run[r].next /\ run'[r].at = run[r].at
        /\ run'[r].applied = run[r].applied /\ run'[r].skipped = run[r].skipped
        /\ run'[r].ledger = run[r].ledger
    BY <1>2, <2>1, ListFacts DEF Run
  <2>3. RunInv(r)'
    BY <1>2, <2>2 DEF RunsInv, RunInv
  <2> QED
    BY <1>2, <2>3, GoKeepsRuns
<1>3. ASSUME NEW r \in Runners, CreateLedger(r) PROVE RunsInv'
  BY <1>2, <1>3 DEF CreateLedger
<1>4. ASSUME NEW r \in Runners, Unblock(r) PROVE RunsInv'
  BY <1>2, <1>4, RollbackKeepsRuns DEF Unblock
<1>5. ASSUME NEW r \in Runners, TakeLock(r) PROVE RunsInv'
  <2>1. /\ \A s \in Runners \ {r} : run'[s] = run[s]
        /\ run'[r] = [run[r] EXCEPT !.phase = "look"]
        /\ run[r].phase = "lock" /\ ledger' = ledger
    BY <1>5 DEF TakeLock, TypeOK
  <2>2. ASSUME NEW s \in Runners, s # r PROVE RunInv(s)'
    BY <2>1, <2>2 DEF RunsInv, RunInv, HolderInv
  <2>3. /\ run'[r].phase = "look" /\ run'[r].cause = run[r].cause
        /\ run'[r].next = run[r].next /\ run'[r].at = run[r].at
        /\ run'[r].list = run[r].list
        /\ run'[r].applied = run[r].applied /\ run'[r].skipped = run[r].skipped
        /\ run'[r].ledger = run[r].ledger
    BY <2>1, ListFacts DEF Run
  <2>4. /\ run[r].at = 1 /\ run[r].applied = {} /\ run[r].skipped = {}
        /\ run[r].ledger = {} /\ run[r].next >= 1 /\ run[r].cause = "none"
    BY <2>1 DEF RunsInv, RunInv
  <2>5. HolderInv(r)'
    BY <2>1, <2>3, <2>4, ListFacts DEF HolderInv
  <2> QED
    BY <2>2, <2>3, <2>4, <2>5 DEF RunsInv, RunInv
<1>6. ASSUME NEW r \in Runners, Look(r) PROVE RunsInv'
  <2>1. HolderInv(r) /\ run[r].phase = "look" /\ run[r].cause = "none" /\ run[r].next >= 1
    BY <1>6 DEF Look, RunsInv, RunInv
  <2>2. CASE Go(r, [run[r] EXCEPT !.phase = "commit"]) /\ run[r].at > Len(run[r].list)
    <3>1. run'[r] = [run[r] EXCEPT !.phase = "commit"] /\ ledger' = ledger
      BY <2>2 DEF Go, TypeOK
    <3>2. /\ run'[r].phase = "commit" /\ run'[r].cause = run[r].cause
          /\ run'[r].next = run[r].next /\ run'[r].at = run[r].at
          /\ run'[r].list = run[r].list
          /\ run'[r].applied = run[r].applied /\ run'[r].skipped = run[r].skipped
          /\ run'[r].ledger = run[r].ledger
      BY <3>1, ListFacts DEF Run
    <3>3. run[r].at = Len(run[r].list) + 1
      BY <2>1, <2>2, ListFacts, RunFields DEF HolderInv
    <3>4. HolderInv(r)'
      BY <2>1, <3>1, <3>2 DEF HolderInv
    <3>5. RunInv(r)'
      BY <2>1, <3>2, <3>3, <3>4 DEF RunInv
    <3> QED
      BY <2>2, <3>5, GoKeepsRuns
  <2>3. CASE /\ Go(r, [run[r] EXCEPT !.phase = "run", !.next = 1])
             /\ ~ (run[r].at > Len(run[r].list)) /\ Recorded(r) = {}
    <3>1. run'[r] = [run[r] EXCEPT !.phase = "run", !.next = 1] /\ ledger' = ledger
      BY <2>3 DEF Go, TypeOK
    <3>2. /\ run'[r].phase = "run" /\ run'[r].cause = run[r].cause
          /\ run'[r].next = 1 /\ run'[r].at = run[r].at
          /\ run'[r].list = run[r].list
          /\ run'[r].applied = run[r].applied /\ run'[r].skipped = run[r].skipped
          /\ run'[r].ledger = run[r].ledger
      BY <3>1, ListFacts DEF Run
    <3>3. \A row \in ledger : row.version # run[r].at
      BY <2>3 DEF Recorded
    <3>4. run[r].at <= Len(run[r].list)
      BY <2>3, ListFacts, RunFields
    <3>5. HolderInv(r)'
      BY <2>1, <3>1, <3>2 DEF HolderInv
    <3>6. RunInv(r)'
      BY <2>1, <3>1, <3>2, <3>3, <3>4, <3>5 DEF RunInv
    <3> QED
      BY <2>3, <3>6, GoKeepsRuns
  <2>4. CASE /\ Go(r, [run[r] EXCEPT !.at = @ + 1, !.skipped = @ \cup {run[r].at}])
             /\ ~ (run[r].at > Len(run[r].list)) /\ Recorded(r) = {NewRow(r)}
    <3>1. /\ run'[r] = [run[r] EXCEPT !.at = @ + 1, !.skipped = @ \cup {run[r].at}]
          /\ ledger' = ledger
      BY <2>4 DEF Go, TypeOK
    <3>2. /\ run'[r].phase = "look" /\ run'[r].cause = run[r].cause
          /\ run'[r].next = run[r].next /\ run'[r].at = run[r].at + 1
          /\ run'[r].list = run[r].list
          /\ run'[r].applied = run[r].applied
          /\ run'[r].skipped = run[r].skipped \cup {run[r].at}
          /\ run'[r].ledger = run[r].ledger
      BY <2>1, <3>1, ListFacts DEF Run
    <3>3. NewRow(r) \in ledger /\ NewRow(r).version = run[r].at
      BY <2>1, <2>4 DEF Recorded, HolderInv, NewRow
    <3>4. NewRow(r) = RowOf(run[r].list, run[r].at)
      BY DEF NewRow, RowOf, Migrating
    <3>5. run[r].at \notin run[r].applied
      BY <2>1, <3>3 DEF HolderInv
    <3>6. /\ run[r].at \in Nat /\ run[r].at >= 1 /\ run[r].at <= Len(run[r].list)
          /\ Len(run[r].list) \in Nat
      BY <2>1, <2>4, ListFacts, RunFields DEF HolderInv
    <3>7. 1 .. run[r].at = (1 .. run[r].at - 1) \cup {run[r].at}
      BY <3>6
    <3>8. HolderInv(r)'
      <4>1. /\ run'[r].at \in 1 .. Len(run'[r].list) + 1
            /\ run'[r].at - 1 = run[r].at
        BY <3>2, <3>6
      <4>2. /\ run'[r].applied \cup run'[r].skipped = 1 .. run'[r].at - 1
            /\ run'[r].applied \cap run'[r].skipped = {}
        BY <2>1, <3>2, <3>5, <3>7, <4>1 DEF HolderInv
      <4>3. \A row \in run'[r].ledger : row.version < run'[r].at
        <5>1. run[r].ledger \subseteq Row
          BY ListFacts, RunFields
        <5> QED
          BY <2>1, <3>2, <3>6, <5>1 DEF HolderInv, Row
      <4>4. \A v \in 1 .. run'[r].at - 1 :
              RowOf(run'[r].list, v) \in ledger' \cup run'[r].ledger
        BY <2>1, <3>1, <3>2, <3>3, <3>4, <3>7, <4>1 DEF HolderInv
      <4>5. \A row \in ledger' : row.version \notin run'[r].applied
        BY <2>1, <3>1, <3>2 DEF HolderInv
      <4> QED
        BY <4>1, <4>2, <4>3, <4>4, <4>5 DEF HolderInv
    <3>9. RunInv(r)'
      BY <2>1, <3>2, <3>8 DEF RunInv
    <3> QED
      BY <2>4, <3>9, GoKeepsRuns
  <2> QED
    BY <1>6, <2>2, <2>3, <2>4, RollbackKeepsRuns DEF Look
<1>7. ASSUME NEW r \in Runners, Execute(r) PROVE RunsInv'
  <2> DEFINE statement == Migrating(r).text[run[r].next]
  <2>1. CASE Go(r, [run[r] EXCEPT !.schema = @ \cup {statement.makes}, !.next = @ + 1])
    <3>1. /\ run'[r] = [run[r] EXCEPT !.schema = @ \cup {statement.makes},
                                      !.next = @ + 1]
          /\ ledger' = ledger
      BY <2>1 DEF Go, TypeOK
    <3>2. /\ run'[r].phase = run[r].phase /\ run'[r].cause = run[r].cause
          /\ run'[r].next = run[r].next + 1 /\ run'[r].at = run[r].at
          /\ run'[r].list = run[r].list
          /\ run'[r].applied = run[r].applied /\ run'[r].skipped = run[r].skipped
          /\ run'[r].ledger = run[r].ledger
      BY <3>1, ListFacts DEF Run
    <3>3. run'[r].next >= 1
      BY <3>2, ListFacts, RunFields DEF RunsInv, RunInv
    <3>4. RunInv(r)'
      BY <3>1, <3>2, <3>3 DEF RunsInv, RunInv, HolderInv
    <3> QED
      BY <2>1, <3>4, GoKeepsRuns
  <2> QED
    BY <1>7, <2>1, RollbackKeepsRuns DEF Execute
<1>8. ASSUME NEW r \in Runners, Insert(r) PROVE RunsInv'
  <2>1. /\ HolderInv(r) /\ run[r].phase = "run" /\ run[r].cause = "none"
        /\ run[r].next >= 1 /\ run[r].at <= Len(run[r].list)
        /\ \A row \in ledger : row.version # run[r].at
    BY <1>8 DEF Insert, RunsInv, RunInv
  <2>2. CASE Go(r, [run[r] EXCEPT
                      !.phase = "look", !.at = @ + 1, !.ledger = @ \cup {NewRow(r)},
                      !.applied = @ \cup {run[r].at}])
    <3>1. /\ run'[r] = [run[r] EXCEPT
                          !.phase = "look", !.at = @ + 1,
                          !.ledger = @ \cup {NewRow(r)},
                          !.applied = @ \cup {run[r].at}]
          /\ ledger' = ledger
      BY <2>2 DEF Go, TypeOK
    <3>2. /\ run'[r].phase = "look" /\ run'[r].cause = run[r].cause
          /\ run'[r].next = run[r].next /\ run'[r].at = run[r].at + 1
          /\ run'[r].list = run[r].list
          /\ run'[r].applied = run[r].applied \cup {run[r].at}
          /\ run'[r].skipped = run[r].skipped
          /\ run'[r].ledger = run[r].ledger \cup {NewRow(r)}
      BY <3>1, ListFacts DEF Run
    <3>3. /\ NewRow(r).version = run[r].at
          /\ NewRow(r) = RowOf(run[r].list, run[r].at)
      BY DEF NewRow, RowOf, Migrating
    <3>4. /\ run[r].at \in Nat /\ run[r].at >= 1 /\ Len(run[r].list) \in Nat
      BY <2>1, ListFacts, RunFields DEF HolderInv
    <3>5. 1 .. run[r].at = (1 .. run[r].at - 1) \cup {run[r].at}
      BY <3>4
    <3>6. run[r].at \notin run[r].skipped
      <4>1. run[r].at \notin 1 .. run[r].at - 1
        BY <3>4
      <4> QED
        BY <2>1, <4>1 DEF HolderInv
    <3>7. HolderInv(r)'
      <4>1. /\ run'[r].at \in 1 .. Len(run'[r].list) + 1
            /\ run'[r].at - 1 = run[r].at
        BY <2>1, <3>2, <3>4
      <4>2. /\ run'[r].applied \cup run'[r].skipped = 1 .. run'[r].at - 1
            /\ run'[r].applied \cap run'[r].skipped = {}
        BY <2>1, <3>2, <3>5, <3>6, <4>1 DEF HolderInv
      <4>3. \A row \in run'[r].ledger : row.version < run'[r].at
        <5>1. run[r].ledger \subseteq Row
          BY ListFacts, RunFields
        <5> QED
          BY <2>1, <3>2, <3>3, <3>4, <5>1 DEF HolderInv, Row
      <4>4. \A v \in 1 .. run'[r].at - 1 :
              RowOf(run'[r].list, v) \in ledger' \cup run'[r].ledger
        BY <2>1, <3>1, <3>2, <3>3, <3>5, <4>1 DEF HolderInv
      <4>5. \A row \in ledger' : row.version \notin run'[r].applied
        BY <2>1, <3>1, <3>2 DEF HolderInv
      <4> QED
        BY <4>1, <4>2, <4>3, <4>4, <4>5 DEF HolderInv
    <3>8. RunInv(r)'
      BY <2>1, <3>2, <3>7 DEF RunInv
    <3> QED
      BY <2>2, <3>8, GoKeepsRuns
  <2> QED
    BY <1>8, <2>2, RollbackKeepsRuns DEF Insert
<1>9. ASSUME NEW r \in Runners, Commit(r) PROVE RunsInv'
  BY <1>9, CommitKeepsRuns
<1>10. ASSUME NEW r \in Runners, Die(r) PROVE RunsInv'
  BY <1>10, RollbackKeepsRuns DEF Die
<1> QED
  BY <1>1, <1>3, <1>4, <1>5, <1>6, <1>7, <1>8, <1>9, <1>10 DEF Next, Step

-----------------------------------------------------------------------------
(* What runs report. *)

HasReason(r) ==
  /\ run[r].cause = "conflict" =>
       \E row \in ledger :
         /\ row.version \in DOMAIN run[r].list
         /\ run[r].list[row.version] # [name |-> row.name, text |-> row.text]
  /\ run[r].cause = "table" => table

LEMMA Reasons == RefusedForAReason <=> \A r \in Runners : HasReason(r)
BY DEF RefusedForAReason, HasReason

\* What there is stays there.
LEMMA ReasonsStay ==
  ASSUME NEW s \in Runners, HasReason(s),
         run'[s].cause = run[s].cause, run'[s].list = run[s].list,
         ledger \subseteq ledger', table => table'
  PROVE  HasReason(s)'
<1>1. CASE run[s].cause = "conflict"
  <2>1. PICK row \in ledger :
          /\ row.version \in DOMAIN run[s].list
          /\ run[s].list[row.version] # [name |-> row.name, text |-> row.text]
    BY <1>1 DEF HasReason
  <2>2. row \in ledger'
    BY <2>1
  <2> QED
    BY <1>1, <2>1, <2>2 DEF HasReason
<1>2. CASE run[s].cause # "conflict"
  BY <1>2 DEF HasReason
<1> QED
  BY <1>1, <1>2

LEMMA GoKeepsOutcomes ==
  ASSUME TypeOK, OutcomesAreTrue, NEW r \in Runners, NEW new, Go(r, new),
         new.phase # "done", new.cause \notin {"conflict", "table"}
  PROVE  OutcomesAreTrue'
<1>1. /\ \A s \in Runners \ {r} : run'[s] = run[s]
      /\ run'[r] = new /\ ledger' = ledger /\ table' = table
  BY DEF Go, TypeOK
<1>2. DoneMeansMigrated'
  BY <1>1 DEF OutcomesAreTrue, DoneMeansMigrated
<1>3. AppliedOnce'
  BY <1>1 DEF OutcomesAreTrue, AppliedOnce
<1>4. RefusedForAReason'
  BY <1>1 DEF OutcomesAreTrue, RefusedForAReason
<1> QED
  BY <1>2, <1>3, <1>4 DEF OutcomesAreTrue

\* A conflict and a second creation of the table come with their reasons.
LEMMA RollbackKeepsOutcomes ==
  ASSUME TypeOK, OutcomesAreTrue, NEW r \in Runners, NEW cause, Rollback(r, cause),
         cause = "table" => table,
         cause = "conflict" =>
           \E row \in ledger :
             /\ row.version \in DOMAIN run[r].list
             /\ run[r].list[row.version] # [name |-> row.name, text |-> row.text]
  PROVE  OutcomesAreTrue'
<1>1. /\ \A s \in Runners \ {r} : run'[s] = run[s]
      /\ run'[r] = [run[r] EXCEPT !.phase = "failed", !.cause = cause,
                                  !.table = FALSE, !.ledger = {}, !.schema = {}]
      /\ ledger' = ledger /\ table' = table
  BY DEF Rollback, TypeOK
<1>2. /\ run'[r].phase = "failed" /\ run'[r].cause = cause
      /\ run'[r].list = run[r].list
  BY <1>1, ListFacts DEF Run
<1>3. DoneMeansMigrated'
  BY <1>1, <1>2 DEF OutcomesAreTrue, DoneMeansMigrated
<1>4. AppliedOnce'
  BY <1>1, <1>2 DEF OutcomesAreTrue, AppliedOnce
<1>5. RefusedForAReason'
  <2>1. ASSUME NEW s \in Runners, s # r PROVE HasReason(s)'
    BY <1>1, <2>1, Reasons, ReasonsStay DEF OutcomesAreTrue
  <2>2. HasReason(r)'
    BY <1>1, <1>2 DEF HasReason
  <2> QED
    BY <2>1, <2>2 DEF RefusedForAReason, HasReason
<1> QED
  BY <1>3, <1>4, <1>5 DEF OutcomesAreTrue

\* What the run has applied, nobody has had on record until now, and whoever
\* was done before has all of its own on record.
LEMMA CommitKeepsOutcomes ==
  ASSUME TypeOK, RunsInv, OutcomesAreTrue, NEW r \in Runners, Commit(r)
  PROVE  OutcomesAreTrue'
<1>1. /\ \A s \in Runners \ {r} : run'[s] = run[s]
      /\ run'[r] = [run[r] EXCEPT !.phase = "done", !.table = FALSE,
                                  !.ledger = {}, !.schema = {}]
      /\ ledger' = ledger \cup run[r].ledger
      /\ table => table'
      /\ run[r].phase = "commit"
  BY DEF Commit, TypeOK
<1>2. /\ run'[r].phase = "done" /\ run'[r].cause = run[r].cause
      /\ run'[r].list = run[r].list
      /\ run'[r].applied = run[r].applied /\ run'[r].skipped = run[r].skipped
  BY <1>1, ListFacts DEF Run
<1>3. /\ HolderInv(r) /\ run[r].at = Len(run[r].list) + 1
      /\ run[r].cause = "none"
  BY <1>1 DEF RunsInv, RunInv, Holding, Ended
<1>4. run[r].at - 1 = Len(run[r].list) /\ DOMAIN run[r].list = 1 .. Len(run[r].list)
  BY <1>3, ListFacts
<1>5. DoneMeansMigrated'
  <2>1. ASSUME NEW s \in Runners, run'[s].phase = "done", s # r
        PROVE  /\ \A v \in DOMAIN run'[s].list :
                    [version |-> v, name |-> run'[s].list[v].name,
                     text |-> run'[s].list[v].text] \in ledger'
               /\ run'[s].applied \cup run'[s].skipped = DOMAIN run'[s].list
               /\ run'[s].applied \cap run'[s].skipped = {}
    BY <1>1, <2>1 DEF OutcomesAreTrue, DoneMeansMigrated
  <2>2. /\ \A v \in DOMAIN run'[r].list :
             [version |-> v, name |-> run'[r].list[v].name,
              text |-> run'[r].list[v].text] \in ledger'
        /\ run'[r].applied \cup run'[r].skipped = DOMAIN run'[r].list
        /\ run'[r].applied \cap run'[r].skipped = {}
    BY <1>1, <1>2, <1>3, <1>4 DEF HolderInv, RowOf
  <2> QED
    BY <2>1, <2>2 DEF DoneMeansMigrated
<1>6. ASSUME NEW s \in Runners, s # r, run[s].phase = "done"
      PROVE  run[r].applied \cap run[s].applied = {}
  <2>1. \A v \in run[s].applied : RowOf(run[s].list, v) \in ledger
    BY <1>6 DEF OutcomesAreTrue, DoneMeansMigrated, RowOf
  <2>2. \A v : RowOf(run[s].list, v).version = v
    BY DEF RowOf
  <2> QED
    BY <1>3, <2>1, <2>2 DEF HolderInv
<1>7. AppliedOnce'
  <2>1. ASSUME NEW s \in Runners, NEW t \in Runners, s # t, s # r, t # r,
               run'[s].phase = "done", run'[t].phase = "done"
        PROVE  run'[s].applied \cap run'[t].applied = {}
    BY <1>1, <2>1 DEF OutcomesAreTrue, AppliedOnce
  <2>2. ASSUME NEW s \in Runners, s # r, run'[s].phase = "done"
        PROVE  run'[r].applied \cap run'[s].applied = {}
    BY <1>1, <1>2, <1>6, <2>2
  <2> QED
    BY <2>1, <2>2 DEF AppliedOnce
<1>8. RefusedForAReason'
  <2>1. ASSUME NEW s \in Runners PROVE HasReason(s)'
    <3>1. run'[s].cause = run[s].cause /\ run'[s].list = run[s].list
      BY <1>1, <1>2
    <3> QED
      BY <1>1, <3>1, Reasons, ReasonsStay DEF OutcomesAreTrue
  <2> QED
    BY <2>1 DEF RefusedForAReason, HasReason
<1> QED
  BY <1>5, <1>7, <1>8 DEF OutcomesAreTrue

LEMMA OutcomesStep == MigrationsInv /\ Next => OutcomesAreTrue'
<1> SUFFICES ASSUME TypeOK, RunsInv, OutcomesAreTrue, Next PROVE OutcomesAreTrue'
  BY DEF MigrationsInv
<1> USE DEF Waiting, Holding, Ended
<1>1. ASSUME NEW r \in Runners, NEW new, Go(r, new), run[r].phase \notin Ended,
             new.phase # "done", new.cause \in {run[r].cause, "refused"}
      PROVE  OutcomesAreTrue'
  <2>1. run[r].cause = "none"
    BY <1>1 DEF RunsInv, RunInv
  <2> QED
    BY <1>1, <2>1, GoKeepsOutcomes
<1>2. ASSUME NEW r \in Runners, NEW list \in Lists, Start(r, list) PROVE OutcomesAreTrue'
  <2> DEFINE begun == [run[r] EXCEPT !.phase = "create", !.list = list]
             refused == [run[r] EXCEPT !.phase = "failed", !.cause = "refused"]
  <2>1. /\ begun.phase = "create" /\ begun.cause = run[r].cause
        /\ refused.phase = "failed" /\ refused.cause = "refused"
    BY ListFacts DEF Run
  <2>2. run[r].phase = "idle" /\ (Go(r, begun) \/ Go(r, refused))
    BY <1>2 DEF Start
  <2> HIDE DEF begun, refused
  <2> QED
    BY <1>1, <2>1, <2>2
<1>3. ASSUME NEW r \in Runners, CreateLedger(r) \/ Unblock(r) PROVE OutcomesAreTrue'
  <2> DEFINE waits == [run[r] EXCEPT !.phase = "lock"]
             creates == [run[r] EXCEPT !.phase = "lock", !.table = TRUE]
             blocks == [run[r] EXCEPT !.phase = "blocked"]
  <2>1. /\ waits.phase = "lock" /\ waits.cause = run[r].cause
        /\ creates.phase = "lock" /\ creates.cause = run[r].cause
        /\ blocks.phase = "blocked" /\ blocks.cause = run[r].cause
    BY ListFacts DEF Run
  <2>2. /\ run[r].phase \in {"create", "blocked"}
        /\ \/ Go(r, waits) \/ Go(r, creates) \/ Go(r, blocks)
           \/ table /\ Rollback(r, "table")
    BY <1>3 DEF CreateLedger, Unblock
  <2> HIDE DEF waits, creates, blocks
  <2> QED
    BY <1>1, <2>1, <2>2, RollbackKeepsOutcomes
<1>4. ASSUME NEW r \in Runners, TakeLock(r) PROVE OutcomesAreTrue'
  <2>1. /\ \A s \in Runners \ {r} : run'[s] = run[s]
        /\ run'[r] = [run[r] EXCEPT !.phase = "look"]
        /\ ledger' = ledger /\ table' = table
    BY <1>4 DEF TakeLock, TypeOK
  <2>2. /\ run'[r].phase = "look" /\ run'[r].cause = run[r].cause
        /\ run'[r].list = run[r].list
    BY <2>1, ListFacts DEF Run
  <2>3. DoneMeansMigrated'
    BY <2>1, <2>2 DEF OutcomesAreTrue, DoneMeansMigrated
  <2>4. AppliedOnce'
    BY <2>1, <2>2 DEF OutcomesAreTrue, AppliedOnce
  <2>5. RefusedForAReason'
    <3>1. ASSUME NEW s \in Runners PROVE HasReason(s)'
      <4>1. run'[s].cause = run[s].cause /\ run'[s].list = run[s].list
        BY <2>1, <2>2
      <4> QED
        BY <2>1, <4>1, Reasons, ReasonsStay DEF OutcomesAreTrue
    <3> QED
      BY <3>1 DEF RefusedForAReason, HasReason
  <2> QED
    BY <2>3, <2>4, <2>5 DEF OutcomesAreTrue
<1>5. ASSUME NEW r \in Runners, Look(r) PROVE OutcomesAreTrue'
  <2> DEFINE commits == [run[r] EXCEPT !.phase = "commit"]
             runs == [run[r] EXCEPT !.phase = "run", !.next = 1]
             skips == [run[r] EXCEPT !.at = @ + 1, !.skipped = @ \cup {run[r].at}]
  <2>1. run[r].phase = "look" /\ HolderInv(r)
    BY <1>5 DEF Look, RunsInv, RunInv
  <2>2. /\ commits.phase = "commit" /\ commits.cause = run[r].cause
        /\ runs.phase = "run" /\ runs.cause = run[r].cause
        /\ skips.phase = "look" /\ skips.cause = run[r].cause
    BY <2>1, ListFacts DEF Run
  <2>3. CASE /\ ~ (run[r].at > Len(run[r].list))
             /\ Recorded(r) # {} /\ Recorded(r) # {NewRow(r)}
             /\ Rollback(r, "conflict")
    <3>1. PICK row \in Recorded(r) : row # NewRow(r)
      BY <2>3
    <3>2. row \in ledger /\ row.version = run[r].at
      <4>1. /\ row \in ledger \cup run[r].ledger /\ row.version = run[r].at
            /\ run[r].at \in Nat
        BY <3>1, ListFacts, RunFields DEF Recorded
      <4> QED
        BY <2>1, <4>1 DEF HolderInv
    <3>3. row \in Row
      BY <3>2 DEF TypeOK
    <3>4. run[r].at \in DOMAIN run[r].list
      BY <2>1, <2>3, ListFacts, RunFields DEF HolderInv
    <3>5. Migrating(r) \in Migration
      BY <3>4, ListFacts DEF Migrating
    <3>6. Migrating(r) # [name |-> row.name, text |-> row.text]
      <4>1. SUFFICES ASSUME Migrating(r) = [name |-> row.name, text |-> row.text]
                     PROVE  row = NewRow(r)
        BY <3>1
      <4> QED
        BY <3>2, <3>3, <4>1 DEF NewRow, Row
    <3>7. \E x \in ledger :
            /\ x.version \in DOMAIN run[r].list
            /\ run[r].list[x.version] # [name |-> x.name, text |-> x.text]
      BY <3>2, <3>4, <3>6 DEF Migrating
    <3> QED
      BY <2>3, <3>7, RollbackKeepsOutcomes
  <2>4. Go(r, commits) \/ Go(r, runs) \/ Go(r, skips) \/ <2>3!1
    BY <1>5 DEF Look
  <2> HIDE DEF commits, runs, skips
  <2> QED
    BY <1>1, <2>1, <2>2, <2>3, <2>4
<1>6. ASSUME NEW r \in Runners, Execute(r) PROVE OutcomesAreTrue'
  <2> DEFINE makes == [run[r] EXCEPT
                         !.schema = @ \cup {Migrating(r).text[run[r].next].makes},
                         !.next = @ + 1]
  <2>1. /\ run[r].phase = "run" /\ makes.phase = "run" /\ makes.cause = run[r].cause
        /\ Go(r, makes) \/ Rollback(r, "statement")
    BY <1>6, ListFacts DEF Execute, Run
  <2> HIDE DEF makes
  <2> QED
    BY <1>1, <2>1, RollbackKeepsOutcomes
<1>7. ASSUME NEW r \in Runners, Insert(r) PROVE OutcomesAreTrue'
  <2> DEFINE records == [run[r] EXCEPT
                           !.phase = "look", !.at = @ + 1,
                           !.ledger = @ \cup {NewRow(r)},
                           !.applied = @ \cup {run[r].at}]
  <2>1. /\ run[r].phase = "run" /\ records.phase = "look" /\ records.cause = run[r].cause
        /\ Go(r, records) \/ Rollback(r, "statement")
    BY <1>7, ListFacts DEF Insert, Run
  <2> HIDE DEF records
  <2> QED
    BY <1>1, <2>1, RollbackKeepsOutcomes
<1>8. ASSUME NEW r \in Runners, Commit(r) PROVE OutcomesAreTrue'
  BY <1>8, CommitKeepsOutcomes
<1>9. ASSUME NEW r \in Runners, Die(r) PROVE OutcomesAreTrue'
  BY <1>9, RollbackKeepsOutcomes DEF Die
<1> QED
  BY <1>2, <1>3, <1>4, <1>5, <1>6, <1>7, <1>8, <1>9 DEF Next, Step

-----------------------------------------------------------------------------

\* The inductive invariant: types, what runs know, and what they have reported.
THEOREM MigrationsInvariance == Spec => []MigrationsInv
<1>1. Init => MigrationsInv
  <2> SUFFICES ASSUME Init PROVE MigrationsInv
    OBVIOUS
  <2>1. NewRun \in Run
    BY DEF NewRun, Run, Causes
  <2>2. \A r \in Runners : run[r] = NewRun
    BY DEF Init
  <2>3. /\ NewRun.phase = "idle" /\ NewRun.cause = "none" /\ NewRun.at = 1
        /\ NewRun.next = 1 /\ ~ NewRun.table /\ NewRun.ledger = {}
        /\ NewRun.applied = {} /\ NewRun.skipped = {}
    BY DEF NewRun
  <2>4. TypeOK
    BY <2>1, <2>2, <2>3, NobodyAssumption DEF Init, TypeOK, Holding
  <2>5. RunsInv
    BY <2>2, <2>3 DEF RunsInv, RunInv, Holding
  <2>6. OutcomesAreTrue
    BY <2>2, <2>3
       DEF OutcomesAreTrue, DoneMeansMigrated, AppliedOnce, RefusedForAReason
  <2> QED
    BY <2>4, <2>5, <2>6 DEF MigrationsInv
<1>2. MigrationsInv /\ [Next]_vars => MigrationsInv'
  <2>1. CASE Next
    BY <2>1, TypeStep, RunsStep, OutcomesStep DEF MigrationsInv
  <2>2. CASE UNCHANGED vars
    BY <2>2 DEF vars, MigrationsInv, TypeOK, RunsInv, RunInv, HolderInv,
                OutcomesAreTrue, DoneMeansMigrated, AppliedOnce, RefusedForAReason
  <2> QED
    BY <2>1, <2>2
<1> QED
  BY <1>1, <1>2, PTL DEF Spec

\* However many servers of whatever releases start together, fail and die: who
\* reports success has every migration of its release on record, no version was
\* applied by two, and who is refused is refused for something that is there.
THEOREM TrueOutcomes == Spec => []OutcomesAreTrue
<1>1. MigrationsInv => OutcomesAreTrue
  BY DEF MigrationsInv
<1> QED
  BY <1>1, MigrationsInvariance, PTL

-----------------------------------------------------------------------------
(* The refinement.  Above the ledger and the schema, the abstract runner   *)
(* needs to know that the versions on record are 1 to n, each once, that a *)
(* run applies those after n in a row, and that what its transaction has   *)
(* made is what their texts make.                                          *)

\* The versions of some rows are 1 to n, each once.
Dense(rows, n) ==
  /\ {row.version : row \in rows} = 1 .. n
  /\ \A x, y \in rows : x.version = y.version => x = y

LedgerInv == \E n \in Nat : Dense(ledger, n)

MadeBy(list, versions) == UNION {Made(list[v]) : v \in versions}
MadeSoFar(r) == {Migrating(r).text[i].makes : i \in 1 .. run[r].next - 1}

PlanInv(r) ==
  /\ run[r].phase \notin Holding => run[r].schema = {}
  /\ run[r].phase \in Waiting \cup Holding =>
       run[r].list \in Lists /\ ValidMigrationSet(run[r].list)
  /\ run[r].phase \in Holding =>
       /\ run[r].applied = Cardinality(ledger) + 1 .. run[r].at - 1
       /\ run[r].ledger = {RowOf(run[r].list, v) : v \in run[r].applied}
  /\ run[r].phase \in {"look", "commit"} =>
       run[r].schema = MadeBy(run[r].list, run[r].applied)
  /\ run[r].phase = "run" =>
       /\ run[r].next <= Len(Migrating(r).text) + 1
       /\ run[r].schema = MadeBy(run[r].list, run[r].applied) \cup MadeSoFar(r)

PlansInv == \A r \in Runners : PlanInv(r)

AtomicInv == MigrationsInv /\ LedgerInv /\ PlansInv

LEMMA DenseRows ==
  ASSUME NEW rows, NEW n \in Nat, Dense(rows, n)
  PROVE  Cardinality(rows) = n
<1> DEFINE f == [v \in 1 .. n |-> CHOOSE row \in rows : row.version = v]
<1>1. \A v \in 1 .. n : \E row \in rows : row.version = v
  BY DEF Dense
<1>2. \A v \in 1 .. n : f[v] \in rows /\ f[v].version = v
  BY <1>1
<1>3. \A row \in rows : row.version \in 1 .. n
  BY DEF Dense
<1>4. \A row \in rows : f[row.version] = row
  BY <1>2, <1>3 DEF Dense
<1> HIDE DEF f
<1>5. f \in [1 .. n -> rows]
  BY <1>2 DEF f
<1>6. f \in Bijection(1 .. n, rows)
  <2>1. \A v, w \in 1 .. n : f[v] = f[w] => v = w
    BY <1>2
  <2>2. \A row \in rows : \E v \in 1 .. n : f[v] = row
    BY <1>3, <1>4
  <2> QED
    BY <1>5, <2>1, <2>2 DEF Bijection, Injection, Surjection, IsInjective
<1> QED
  BY <1>6, FS_CountingElements DEF ExistsBijection

LEMMA LedgerFacts ==
  ASSUME LedgerInv
  PROVE  Cardinality(ledger) \in Nat /\ Dense(ledger, Cardinality(ledger))
BY DenseRows DEF LedgerInv

\* The release's rows are what the run has found or made, so what is on record
\* of the versions it has passed is its release's.
LEMMA PassedRows ==
  ASSUME AtomicInv, NEW r \in Runners, run[r].phase \in Holding,
         NEW v \in 1 .. run[r].at - 1, v <= Cardinality(ledger)
  PROVE  RowOf(run[r].list, v) \in ledger
<1>1. HolderInv(r)
  BY DEF AtomicInv, MigrationsInv, RunsInv, RunInv
<1>2. RowOf(run[r].list, v) \in ledger \cup run[r].ledger
  BY <1>1 DEF HolderInv
<1>3. \A w \in run[r].applied : w > Cardinality(ledger)
  BY LedgerFacts, ListFacts, RunFields
     DEF AtomicInv, MigrationsInv, PlansInv, PlanInv
<1>4. \A row \in run[r].ledger : row.version \in run[r].applied
  BY DEF AtomicInv, PlansInv, PlanInv, RowOf
<1>5. RowOf(run[r].list, v).version = v
  BY DEF RowOf
<1>6. v \in Nat /\ Cardinality(ledger) \in Nat
  BY LedgerFacts, ListFacts, RunFields DEF AtomicInv, MigrationsInv
<1> QED
  BY <1>2, <1>3, <1>4, <1>5, <1>6

LEMMA FunctionsAreSequences ==
  ASSUME NEW S, NEW n \in Nat, NEW f \in [1 .. n -> S] PROVE f \in Seq(S)
BY SeqDef, Zenon

\* What some rows have on record, in order.
RecordOf(rows) ==
  [v \in 1 .. Cardinality(rows) |->
     LET row == CHOOSE row \in rows : row.version = v IN
     [name |-> row.name, text |-> row.text]]

LEMMA RecordFacts ==
  ASSUME NEW rows, rows \subseteq Row, NEW n \in Nat, Dense(rows, n)
  PROVE  /\ RecordOf(rows) \in Seq(Migration)
         /\ Len(RecordOf(rows)) = n
         /\ \A row \in rows :
              RecordOf(rows)[row.version] = [name |-> row.name, text |-> row.text]
<1> DEFINE row(v) == CHOOSE x \in rows : x.version = v
<1>1. Cardinality(rows) = n
  BY DenseRows
<1>2. \A v \in 1 .. n : row(v) \in rows /\ row(v).version = v
  <2>1. \A v \in 1 .. n : \E x \in rows : x.version = v
    BY DEF Dense
  <2> QED
    BY <2>1
<1>3. \A x \in rows : x.version \in 1 .. n /\ row(x.version) = x
  BY <1>2 DEF Dense
<1>4. RecordOf(rows) = [v \in 1 .. n |-> [name |-> row(v).name, text |-> row(v).text]]
  BY <1>1 DEF RecordOf
<1>5. \A v \in 1 .. n : [name |-> row(v).name, text |-> row(v).text] \in Migration
  BY <1>2 DEF Row, Migration
<1> HIDE DEF row
<1>6. RecordOf(rows) \in [1 .. n -> Migration]
  BY <1>4, <1>5
<1>7. RecordOf(rows) \in Seq(Migration)
  BY <1>6, FunctionsAreSequences
<1>8. Len(RecordOf(rows)) = n
  BY <1>6, <1>7
<1> QED
  BY <1>3, <1>4, <1>7, <1>8

\* A run that makes no step keeps its plan as long as the ledger stands.
LEMMA SamePlan ==
  ASSUME NEW s \in Runners, PlanInv(s), run'[s] = run[s], ledger' = ledger
  PROVE  PlanInv(s)'
<1>1. Migrating(s)' = Migrating(s)
  BY DEF Migrating
<1>2. MadeSoFar(s)' = MadeSoFar(s)
  BY <1>1 DEF MadeSoFar
<1>3. MadeBy(run[s].list, run[s].applied)' = MadeBy(run[s].list, run[s].applied)
  BY DEF MadeBy
<1>4. ValidMigrationSet(run[s].list)' = ValidMigrationSet(run[s].list)
  BY DEF ValidMigrationSet
<1> QED
  BY <1>1, <1>2, <1>3, <1>4 DEF PlanInv, Holding, Waiting

LEMMA GoKeepsPlans ==
  ASSUME TypeOK, PlansInv, NEW r \in Runners, NEW new, Go(r, new), PlanInv(r)'
  PROVE  PlansInv'
<1>1. \A s \in Runners \ {r} : run'[s] = run[s]
  BY DEF Go, TypeOK
<1>2. ASSUME NEW s \in Runners, s # r PROVE PlanInv(s)'
  BY <1>1, <1>2, SamePlan DEF PlansInv, Go
<1> QED
  BY <1>2 DEF PlansInv

LEMMA RollbackKeepsPlans ==
  ASSUME TypeOK, PlansInv, NEW r \in Runners, NEW cause, Rollback(r, cause)
  PROVE  PlansInv'
<1>1. /\ \A s \in Runners \ {r} : run'[s] = run[s]
      /\ run'[r] = [run[r] EXCEPT !.phase = "failed", !.cause = cause,
                                  !.table = FALSE, !.ledger = {}, !.schema = {}]
      /\ ledger' = ledger
  BY DEF Rollback, TypeOK
<1>2. ASSUME NEW s \in Runners, s # r PROVE PlanInv(s)'
  BY <1>1, <1>2, SamePlan DEF PlansInv
<1>3. run'[r].phase = "failed" /\ run'[r].schema = {}
  BY <1>1, ListFacts DEF Run
<1>4. PlanInv(r)'
  BY <1>3 DEF PlanInv, Waiting, Holding
<1> QED
  BY <1>2, <1>4 DEF PlansInv

LEMMA CommitKeepsPlans ==
  ASSUME TypeOK, PlansInv, NEW r \in Runners, Commit(r)
  PROVE  PlansInv'
<1>1. /\ \A s \in Runners \ {r} : run'[s] = run[s]
      /\ run'[r] = [run[r] EXCEPT !.phase = "done", !.table = FALSE,
                                  !.ledger = {}, !.schema = {}]
  BY DEF Commit, TypeOK
<1>2. ASSUME NEW s \in Runners, s # r PROVE PlanInv(s)'
  <2>1. run[s].phase \notin Holding
    BY <1>2 DEF Commit, TypeOK, Holding
  <2> QED
    BY <1>1, <1>2, <2>1 DEF PlansInv, PlanInv, Holding
<1>3. run'[r].phase = "done" /\ run'[r].schema = {}
  BY <1>1, ListFacts DEF Run
<1>4. PlanInv(r)'
  BY <1>3 DEF PlanInv, Waiting, Holding
<1> QED
  BY <1>2, <1>4 DEF PlansInv

LEMMA PlansStep == AtomicInv /\ Next => PlansInv'
<1> SUFFICES ASSUME AtomicInv, TypeOK, RunsInv, LedgerInv, PlansInv, Next PROVE PlansInv'
  BY DEF AtomicInv, MigrationsInv
<1> USE DEF Waiting, Holding
<1>1. ASSUME NEW r \in Runners, NEW list \in Lists, Start(r, list) PROVE PlansInv'
  <2>1. PICK new : Go(r, new) /\ run'[r] = new /\ run[r].phase = "idle"
                   /\ \/ /\ new = [run[r] EXCEPT !.phase = "create", !.list = list]
                         /\ ValidMigrationSet(list)
                      \/ new = [run[r] EXCEPT !.phase = "failed", !.cause = "refused"]
    BY <1>1 DEF Start, Go, TypeOK
  <2>2. /\ run'[r].schema = run[r].schema
        /\ \/ run'[r].phase = "create" /\ run'[r].list = list /\ ValidMigrationSet(list)
           \/ run'[r].phase = "failed"
    BY <2>1, ListFacts DEF Run
  <2>3. PlanInv(r)'
    BY <2>1, <2>2 DEF PlansInv, PlanInv, ValidMigrationSet
  <2> QED
    BY <2>1, <2>3, GoKeepsPlans
<1>2. ASSUME NEW r \in Runners, NEW new, Go(r, new), run[r].phase \in {"create", "blocked"},
             \/ new = [run[r] EXCEPT !.phase = "lock"]
             \/ new = [run[r] EXCEPT !.phase = "lock", !.table = TRUE]
             \/ new = [run[r] EXCEPT !.phase = "blocked"]
      PROVE  PlansInv'
  <2>1. run'[r] = new
    BY <1>2 DEF Go, TypeOK
  <2>2. /\ run'[r].phase \in {"lock", "blocked"}
        /\ run'[r].schema = run[r].schema /\ run'[r].list = run[r].list
    BY <1>2, <2>1, ListFacts DEF Run
  <2>3. PlanInv(r)'
    BY <1>2, <2>2 DEF PlansInv, PlanInv, ValidMigrationSet
  <2> QED
    BY <1>2, <2>3, GoKeepsPlans
<1>3. ASSUME NEW r \in Runners, CreateLedger(r) PROVE PlansInv'
  BY <1>2, <1>3 DEF CreateLedger
<1>4. ASSUME NEW r \in Runners, Unblock(r) PROVE PlansInv'
  BY <1>2, <1>4, RollbackKeepsPlans DEF Unblock
<1>5. ASSUME NEW r \in Runners, TakeLock(r) PROVE PlansInv'
  <2>1. /\ \A s \in Runners \ {r} : run'[s] = run[s]
        /\ run'[r] = [run[r] EXCEPT !.phase = "look"]
        /\ run[r].phase = "lock" /\ ledger' = ledger
    BY <1>5 DEF TakeLock, TypeOK
  <2>2. ASSUME NEW s \in Runners, s # r PROVE PlanInv(s)'
    BY <2>1, <2>2, SamePlan DEF PlansInv
  <2>3. /\ run'[r].phase = "look"
        /\ run'[r].at = run[r].at /\ run'[r].list = run[r].list
        /\ run'[r].applied = run[r].applied
        /\ run'[r].ledger = run[r].ledger /\ run'[r].schema = run[r].schema
    BY <2>1, ListFacts DEF Run
  <2>4. /\ run[r].at = 1 /\ run[r].applied = {} /\ run[r].ledger = {}
        /\ run[r].schema = {} /\ run[r].list \in Lists /\ ValidMigrationSet(run[r].list)
    BY <2>1 DEF RunsInv, RunInv, PlansInv, PlanInv
  <2>5. Cardinality(ledger) + 1 .. 0 = {}
    BY LedgerFacts
  <2>6. MadeBy(run[r].list, {}) = {}
    BY DEF MadeBy
  <2>7. MadeBy(run[r].list, run[r].applied)' = {}
    BY <2>3, <2>4, <2>6
  <2>8. ValidMigrationSet(run[r].list)'
    BY <2>3, <2>4 DEF ValidMigrationSet
  <2>9. (Cardinality(ledger) + 1 .. run[r].at - 1)' = {}
    BY <2>1, <2>3, <2>4, <2>5
  <2>10. PlanInv(r)'
    BY <2>3, <2>4, <2>7, <2>8, <2>9 DEF PlanInv
  <2> QED
    BY <2>2, <2>10 DEF PlansInv
<1>6. ASSUME NEW r \in Runners, Look(r) PROVE PlansInv'
  <2>1. /\ run[r].phase = "look" /\ HolderInv(r)
        /\ run[r].at \in Nat /\ run[r].at >= 1 /\ Cardinality(ledger) \in Nat
        /\ {row.version : row \in ledger} = 1 .. Cardinality(ledger)
    BY <1>6, LedgerFacts, ListFacts, RunFields DEF Look, RunsInv, RunInv, HolderInv, Dense
  <2>2. CASE Go(r, [run[r] EXCEPT !.phase = "commit"])
    <3>1. run'[r] = [run[r] EXCEPT !.phase = "commit"] /\ ledger' = ledger
      BY <2>2 DEF Go, TypeOK
    <3>2. /\ run'[r].phase = "commit" /\ run'[r].at = run[r].at
          /\ run'[r].list = run[r].list /\ run'[r].applied = run[r].applied
          /\ run'[r].ledger = run[r].ledger /\ run'[r].schema = run[r].schema
      BY <3>1, ListFacts DEF Run
    <3>3. PlanInv(r)'
      BY <2>1, <3>1, <3>2 DEF PlansInv, PlanInv, ValidMigrationSet
    <3> QED
      BY <2>2, <3>3, GoKeepsPlans
  <2>3. CASE /\ Go(r, [run[r] EXCEPT !.phase = "run", !.next = 1])
             /\ ~ (run[r].at > Len(run[r].list))
    <3>1. run'[r] = [run[r] EXCEPT !.phase = "run", !.next = 1] /\ ledger' = ledger
      BY <2>3 DEF Go, TypeOK
    <3>2. /\ run'[r].phase = "run" /\ run'[r].next = 1 /\ run'[r].at = run[r].at
          /\ run'[r].list = run[r].list /\ run'[r].applied = run[r].applied
          /\ run'[r].ledger = run[r].ledger /\ run'[r].schema = run[r].schema
      BY <3>1, ListFacts DEF Run
    <3>3. MadeSoFar(r)' = {}
      BY <3>2 DEF MadeSoFar
    <3>4. 1 <= Len(Migrating(r).text) + 1
      <4>1. run[r].at \in DOMAIN run[r].list
        BY <2>1, <2>3, ListFacts
      <4>2. Migrating(r) \in Migration
        BY <4>1, ListFacts DEF Migrating
      <4> QED
        BY <4>2 DEF Migration
    <3>5. Migrating(r)' = Migrating(r)
      BY <3>2 DEF Migrating
    <3>6. PlanInv(r)'
      BY <2>1, <3>1, <3>2, <3>3, <3>4, <3>5 DEF PlansInv, PlanInv, ValidMigrationSet
    <3> QED
      BY <2>3, <3>6, GoKeepsPlans
  <2>4. CASE /\ Go(r, [run[r] EXCEPT !.at = @ + 1, !.skipped = @ \cup {run[r].at}])
             /\ Recorded(r) = {NewRow(r)}
    <3>1. /\ run'[r] = [run[r] EXCEPT !.at = @ + 1, !.skipped = @ \cup {run[r].at}]
          /\ ledger' = ledger
      BY <2>4 DEF Go, TypeOK
    <3>2. /\ run'[r].phase = "look" /\ run'[r].at = run[r].at + 1
          /\ run'[r].list = run[r].list /\ run'[r].applied = run[r].applied
          /\ run'[r].ledger = run[r].ledger /\ run'[r].schema = run[r].schema
      BY <2>1, <3>1, ListFacts DEF Run
    <3>3. run[r].at <= Cardinality(ledger)
      <4>1. NewRow(r) \in ledger /\ NewRow(r).version = run[r].at
        BY <2>1, <2>4 DEF Recorded, HolderInv, NewRow
      <4> QED
        BY <2>1, <4>1
    <3>4. /\ Cardinality(ledger) + 1 .. run[r].at - 1 = {}
          /\ Cardinality(ledger) + 1 .. (run[r].at + 1) - 1 = {}
      BY <2>1, <3>3
    <3>5. PlanInv(r)'
      BY <2>1, <3>1, <3>2, <3>4 DEF PlansInv, PlanInv, ValidMigrationSet
    <3> QED
      BY <2>4, <3>5, GoKeepsPlans
  <2> QED
    BY <1>6, <2>2, <2>3, <2>4, RollbackKeepsPlans DEF Look
<1>7. ASSUME NEW r \in Runners, Execute(r) PROVE PlansInv'
  <2> DEFINE statement == Migrating(r).text[run[r].next]
  <2>1. CASE Go(r, [run[r] EXCEPT !.schema = @ \cup {statement.makes}, !.next = @ + 1])
    <3>1. /\ run'[r] = [run[r] EXCEPT !.schema = @ \cup {statement.makes},
                                      !.next = @ + 1]
          /\ ledger' = ledger
      BY <2>1 DEF Go, TypeOK
    <3>2. /\ run[r].phase = "run" /\ run'[r].phase = "run"
          /\ run'[r].next = run[r].next + 1 /\ run'[r].at = run[r].at
          /\ run'[r].list = run[r].list /\ run'[r].applied = run[r].applied
          /\ run'[r].ledger = run[r].ledger
          /\ run'[r].schema = run[r].schema \cup {statement.makes}
      BY <1>7, <3>1, ListFacts DEF Execute, Run
    <3>3. Migrating(r)' = Migrating(r)
      BY <3>2 DEF Migrating
    <3>4. /\ run[r].next \in Nat /\ run[r].next >= 1
          /\ run[r].next <= Len(Migrating(r).text) /\ Len(Migrating(r).text) \in Nat
      BY <1>7, <3>2, ListFacts, RunFields, MigratingFacts
         DEF Execute, RunsInv, RunInv, Migration
    <3>5. MadeSoFar(r)' = MadeSoFar(r) \cup {statement.makes}
      <4>1. 1 .. (run[r].next + 1) - 1 = (1 .. run[r].next - 1) \cup {run[r].next}
        BY <3>4
      <4> QED
        BY <3>2, <3>3, <4>1 DEF MadeSoFar
    <3>6. PlanInv(r)'
      BY <3>1, <3>2, <3>3, <3>4, <3>5 DEF PlansInv, PlanInv, ValidMigrationSet
    <3> QED
      BY <2>1, <3>6, GoKeepsPlans
  <2> QED
    BY <1>7, <2>1, RollbackKeepsPlans DEF Execute
<1>8. ASSUME NEW r \in Runners, Insert(r) PROVE PlansInv'
  <2>1. CASE Go(r, [run[r] EXCEPT
                      !.phase = "look", !.at = @ + 1, !.ledger = @ \cup {NewRow(r)},
                      !.applied = @ \cup {run[r].at}])
    <3>1. /\ run'[r] = [run[r] EXCEPT
                          !.phase = "look", !.at = @ + 1,
                          !.ledger = @ \cup {NewRow(r)},
                          !.applied = @ \cup {run[r].at}]
          /\ ledger' = ledger
      BY <2>1 DEF Go, TypeOK
    <3>2. /\ run[r].phase = "run" /\ run'[r].phase = "look"
          /\ run'[r].at = run[r].at + 1 /\ run'[r].list = run[r].list
          /\ run'[r].applied = run[r].applied \cup {run[r].at}
          /\ run'[r].ledger = run[r].ledger \cup {NewRow(r)}
          /\ run'[r].schema = run[r].schema
      BY <1>8, <3>1, ListFacts DEF Insert, Run
    <3>3. /\ HolderInv(r) /\ run[r].next >= 1 /\ PlanInv(r)
          /\ \A row \in ledger : row.version # run[r].at
      BY <3>2 DEF RunsInv, RunInv, PlansInv
    <3>4. /\ run[r].at \in Nat /\ run[r].at >= 1 /\ Cardinality(ledger) \in Nat
          /\ {row.version : row \in ledger} = 1 .. Cardinality(ledger)
      BY <3>3, LedgerFacts, ListFacts, RunFields DEF HolderInv, Dense
    <3>5. run[r].at > Cardinality(ledger)
      <4>1. run[r].at \notin 1 .. Cardinality(ledger)
        BY <3>3, <3>4
      <4> QED
        BY <3>4, <4>1
    <3>6. run'[r].applied = Cardinality(ledger) + 1 .. run'[r].at - 1
      <4>1. Cardinality(ledger) + 1 .. (run[r].at + 1) - 1
              = (Cardinality(ledger) + 1 .. run[r].at - 1) \cup {run[r].at}
        BY <3>4, <3>5
      <4> QED
        BY <3>2, <3>3, <4>1 DEF PlanInv
    <3>7. run'[r].ledger = {RowOf(run'[r].list, v) : v \in run'[r].applied}
      <4>1. NewRow(r) = RowOf(run[r].list, run[r].at)
        BY DEF NewRow, RowOf, Migrating
      <4> QED
        BY <3>2, <3>3, <4>1 DEF PlanInv
    <3>8. run[r].schema = MadeBy(run'[r].list, run'[r].applied)
      <4>1. /\ run[r].next > Len(Migrating(r).text)
            /\ run[r].next <= Len(Migrating(r).text) + 1
            /\ run[r].next \in Nat /\ Migrating(r).text \in Seq(Statement)
        BY <1>8, <3>2, <3>3, ListFacts, RunFields, MigratingFacts
           DEF Insert, PlanInv, RunsInv, Migration
      <4>2. 1 .. run[r].next - 1 = DOMAIN Migrating(r).text
        BY <4>1
      <4>3. MadeSoFar(r) = Made(run[r].list[run[r].at])
        BY <4>2 DEF MadeSoFar, Made, Migrating
      <4>4. MadeBy(run[r].list, run[r].applied \cup {run[r].at})
              = MadeBy(run[r].list, run[r].applied) \cup Made(run[r].list[run[r].at])
        BY DEF MadeBy
      <4> QED
        BY <3>2, <3>3, <4>3, <4>4 DEF PlanInv
    <3>9. PlanInv(r)'
      BY <3>1, <3>2, <3>3, <3>6, <3>7, <3>8 DEF PlanInv, ValidMigrationSet
    <3> QED
      BY <2>1, <3>9, GoKeepsPlans
  <2> QED
    BY <1>8, <2>1, RollbackKeepsPlans DEF Insert
<1>9. ASSUME NEW r \in Runners, Commit(r) PROVE PlansInv'
  BY <1>9, CommitKeepsPlans
<1>10. ASSUME NEW r \in Runners, Die(r) PROVE PlansInv'
  BY <1>10, RollbackKeepsPlans DEF Die
<1> QED
  BY <1>1, <1>3, <1>4, <1>5, <1>6, <1>7, <1>8, <1>9, <1>10 DEF Next, Step

\* The ledger changes only when a run commits: to what its release has, when
\* the release goes further than the record, and not at all otherwise.
LEMMA CommitMigrates ==
  ASSUME AtomicInv, NEW r \in Runners, Commit(r)
  PROVE  /\ LedgerInv'
         /\ \/ UNCHANGED <<Record, schema>>
            \/ /\ run[r].list \in Lists /\ ValidMigrationSet(run[r].list)
               /\ Atomic!Migrate(run[r].list)
<1> DEFINE list == run[r].list
           n == Cardinality(ledger)
<1>1. /\ ledger' = ledger \cup run[r].ledger /\ schema' = schema \cup run[r].schema
      /\ run[r].phase = "commit" /\ TypeOK /\ LedgerInv
  BY DEF Commit, AtomicInv, MigrationsInv
<1>2. /\ HolderInv(r) /\ run[r].at = Len(list) + 1
      /\ list \in Lists /\ ValidMigrationSet(list)
      /\ run[r].applied = n + 1 .. run[r].at - 1
      /\ run[r].ledger = {RowOf(list, v) : v \in run[r].applied}
      /\ run[r].schema = MadeBy(list, run[r].applied)
  BY <1>1 DEF AtomicInv, MigrationsInv, RunsInv, RunInv, PlansInv, PlanInv,
              Holding, Waiting
<1>3. n \in Nat /\ Dense(ledger, n)
  BY <1>1, LedgerFacts
<1>4. list \in Seq(Migration) /\ Len(list) \in Nat
  BY <1>1, ListFacts
<1>5. run[r].applied = n + 1 .. Len(list)
  BY <1>2, <1>4
<1>6. CASE Len(list) <= n
  <2>1. run[r].applied = {}
    BY <1>3, <1>4, <1>5, <1>6
  <2>2. ledger' = ledger
    BY <1>1, <1>2, <2>1
  <2>3. schema' = schema
    <3>1. run[r].schema = {}
      BY <1>2, <2>1 DEF MadeBy
    <3> QED
      BY <1>1, <3>1
  <2>4. UNCHANGED Record
    BY <2>2 DEF Record
  <2>5. LedgerInv'
    BY <1>1, <2>2 DEF LedgerInv, Dense
  <2> QED
    BY <2>3, <2>4, <2>5
<1>7. CASE n < Len(list)
  <2>1. \A v \in 1 .. n : RowOf(list, v) \in ledger /\ RowOf(list, v).version = v
    BY <1>1, <1>2, <1>3, <1>4, <1>7, PassedRows DEF Holding, RowOf
  <2>2. \A x \in ledger : x.version \in 1 .. n /\ x = RowOf(list, x.version)
    BY <1>3, <2>1 DEF Dense
  <2>3. ledger' = {RowOf(list, v) : v \in 1 .. Len(list)}
    <3>1. \A v \in 1 .. Len(list) : v \in 1 .. n \/ v \in n + 1 .. Len(list)
      BY <1>3, <1>4
    <3>2. \A v \in n + 1 .. Len(list) : v \in 1 .. Len(list)
      BY <1>3, <1>4
    <3>3. \A v \in 1 .. n : v \in 1 .. Len(list)
      BY <1>3, <1>4, <1>7
    <3> QED
      BY <1>1, <1>2, <1>5, <2>1, <2>2, <3>1, <3>2, <3>3
  <2>4. \A v : RowOf(list, v).version = v
    BY DEF RowOf
  <2>5. Dense(ledger', Len(list))
    <3>1. {row.version : row \in ledger'} = 1 .. Len(list)
      <4>1. \A v \in 1 .. Len(list) : \E row \in ledger' : row.version = v
        BY <2>3, <2>4
      <4>2. \A row \in ledger' : row.version \in 1 .. Len(list)
        BY <2>3, <2>4
      <4> QED
        BY <4>1, <4>2
    <3>2. \A x, y \in ledger' : x.version = y.version => x = y
      BY <2>3, <2>4
    <3> QED
      BY <3>1, <3>2 DEF Dense
  <2>6. \A v \in 1 .. Len(list) :
          /\ RowOf(list, v) \in Row
          /\ [name |-> RowOf(list, v).name, text |-> RowOf(list, v).text] = list[v]
    <3> TAKE v \in 1 .. Len(list)
    <3>1. v \in Nat /\ list[v] \in Migration
      BY <1>4
    <3>2. /\ list[v].name \in Names /\ list[v].text \in Seq(Statement)
          /\ list[v] = [name |-> list[v].name, text |-> list[v].text]
      BY <3>1 DEF Migration
    <3>3. RowOf(list, v).name = list[v].name /\ RowOf(list, v).text = list[v].text
      BY DEF RowOf
    <3>4. RowOf(list, v) \in Row
      BY <3>1, <3>2 DEF RowOf, Row
    <3> QED
      BY <3>2, <3>3, <3>4
  <2>7. Record' = list
    <3>1. ledger' \subseteq Row
      BY <2>3, <2>6
    <3>2. /\ RecordOf(ledger') \in Seq(Migration)
          /\ Len(RecordOf(ledger')) = Len(list)
          /\ \A row \in ledger' : RecordOf(ledger')[row.version]
                                    = [name |-> row.name, text |-> row.text]
      BY <1>4, <2>5, <3>1, RecordFacts
    <3>3. \A v \in 1 .. Len(list) : RecordOf(ledger')[v] = list[v]
      <4> TAKE v \in 1 .. Len(list)
      <4> DEFINE row == RowOf(list, v)
      <4>1. row \in ledger'
        BY <2>3
      <4>2. row.version = v
        BY <2>4
      <4>3. [name |-> row.name, text |-> row.text] = list[v]
        BY <2>6
      <4>4. RecordOf(ledger')[row.version] = [name |-> row.name, text |-> row.text]
        BY <3>2, <4>1
      <4> HIDE DEF row
      <4> QED
        BY <4>2, <4>3, <4>4
    <3>4. RecordOf(ledger') = list
      BY <1>4, <3>2, <3>3, SeqEqual
    <3> QED
      BY <3>4 DEF Record, RecordOf
  <2>8. Record = RecordOf(ledger)
    BY DEF Record, RecordOf
  <2>9. /\ Record \in Seq(Migration) /\ Len(Record) = n
        /\ \A v \in 1 .. n : Record[v] = list[v]
    <3>1. ledger \subseteq Row
      BY <1>1 DEF TypeOK
    <3>2. /\ Record \in Seq(Migration) /\ Len(Record) = n
          /\ \A row \in ledger : Record[row.version] = [name |-> row.name, text |-> row.text]
      BY <1>3, <2>8, <3>1, RecordFacts
    <3>3. \A v \in 1 .. n : v \in 1 .. Len(list)
      BY <1>3, <1>4, <1>7
    <3> QED
      BY <2>1, <2>6, <3>2, <3>3
  <2>10. SubSeq(list, 1, Len(Record)) = Record
    <3>1. \A v \in 1 .. n : list[v] \in Migration
      BY <1>3, <1>4, <1>7
    <3>2. /\ SubSeq(list, 1, n) \in Seq(Migration)
          /\ Len(SubSeq(list, 1, n)) = n
          /\ \A v \in 1 .. n : SubSeq(list, 1, n)[v] = list[v]
      <4>1. /\ SubSeq(list, 1, n) \in Seq(Migration)
            /\ Len(SubSeq(list, 1, n)) = IF 1 <= n THEN n - 1 + 1 ELSE 0
            /\ \A v \in 1 .. n - 1 + 1 : SubSeq(list, 1, n)[v] = list[1 + v - 1]
        BY <1>3, <3>1, SubSeqProperties
      <4> QED
        BY <1>3, <4>1
    <3> QED
      BY <1>3, <2>9, <3>2, SeqEqual
  <2>11. schema' = schema \cup UNION {Made(list[v]) : v \in Len(Record) + 1 .. Len(list)}
    BY <1>1, <1>2, <1>5, <2>9 DEF MadeBy
  <2>12. Atomic!Migrate(list)
    BY <1>3, <1>4, <1>7, <2>7, <2>9, <2>10, <2>11 DEF Atomic!Migrate, Atomic!IsInitialPart
  <2>13. LedgerInv'
    BY <1>4, <2>5 DEF LedgerInv, Dense
  <2> QED
    BY <1>2, <2>12, <2>13
<1> QED
  BY <1>3, <1>4, <1>6, <1>7

\* Only a commit touches what is committed.
LEMMA OnlyCommitsCount ==
  Next => (\E r \in Runners : Commit(r)) \/ UNCHANGED <<ledger, schema>>
BY DEF Next, Step, Start, CreateLedger, Unblock, TakeLock, Look, Execute, Insert,
       Die, Go, Rollback

\* However many servers of whatever releases start together, fail and die, the
\* database goes from one whole release to the next, and the schema is what the
\* migrations on record have made it.
THEOREM Refinement == Spec => ImplementsLedger
<1>1. Init => LedgerInv /\ PlansInv
  <2> SUFFICES ASSUME Init PROVE LedgerInv /\ PlansInv
    OBVIOUS
  <2>1. LedgerInv
    <3>1. Dense(ledger, 0)
      BY DEF Init, Dense
    <3> QED
      BY <3>1 DEF LedgerInv
  <2>2. \A r \in Runners : run[r].phase = "idle" /\ run[r].schema = {}
    BY DEF Init, NewRun
  <2> QED
    BY <2>1, <2>2 DEF PlansInv, PlanInv, Waiting, Holding
<1>2. LedgerInv /\ PlansInv /\ MigrationsInv /\ MigrationsInv' /\ [Next]_vars
        => LedgerInv' /\ PlansInv'
  <2> SUFFICES ASSUME AtomicInv, [Next]_vars PROVE LedgerInv' /\ PlansInv'
    BY DEF AtomicInv
  <2>1. CASE \E r \in Runners : Commit(r)
    BY <2>1, CommitMigrates, CommitKeepsPlans DEF AtomicInv, MigrationsInv
  <2>2. CASE Next /\ UNCHANGED <<ledger, schema>>
    <3>1. LedgerInv'
      BY <2>2 DEF AtomicInv, LedgerInv, Dense
    <3> QED
      BY <2>2, <3>1, PlansStep
  <2>3. CASE UNCHANGED vars
    <3>1. run' = run /\ ledger' = ledger
      BY <2>3 DEF vars
    <3>2. LedgerInv'
      BY <3>1 DEF AtomicInv, LedgerInv, Dense
    <3>3. PlansInv'
      BY <3>1, SamePlan DEF AtomicInv, PlansInv
    <3> QED
      BY <3>2, <3>3
  <2> QED
    BY <2>1, <2>2, <2>3, OnlyCommitsCount
<1>3. Init => Atomic!Init
  <2> SUFFICES ASSUME Init PROVE Record = <<>> /\ schema = {}
    BY DEF Atomic!Init
  <2>1. Dense(ledger, 0) /\ ledger \subseteq Row
    BY DEF Init, Dense
  <2>2. Record = RecordOf(ledger)
    BY DEF Record, RecordOf
  <2>3. Record \in Seq(Migration) /\ Len(Record) = 0
    BY <2>1, <2>2, RecordFacts
  <2> QED
    BY <2>3 DEF Init
<1>4. LedgerInv /\ PlansInv /\ MigrationsInv /\ [Next]_vars => [Atomic!Next]_(Atomic!vars)
  <2> SUFFICES ASSUME AtomicInv, [Next]_vars PROVE [Atomic!Next]_(Atomic!vars)
    BY DEF AtomicInv
  <2>1. CASE \E r \in Runners : Commit(r)
    BY <2>1, CommitMigrates DEF Atomic!Next, Atomic!vars
  <2>2. CASE UNCHANGED <<ledger, schema>>
    BY <2>2 DEF Atomic!vars, Record
  <2>3. CASE UNCHANGED vars
    BY <2>3 DEF vars, Atomic!vars, Record
  <2> QED
    BY <2>1, <2>2, <2>3, OnlyCommitsCount
<1> QED
  BY <1>1, <1>2, <1>3, <1>4, MigrationsInvariance, PTL
     DEF Spec, ImplementsLedger, Atomic!Spec

-----------------------------------------------------------------------------
(* Requests. *)

Requests ==
    [at: {"free", "body", "key", "grant", "work", "answered"},
     route: Routes, token: Tokens \cup {None}, company: Companies \cup {None},
     flaw: RequestFlaws, asOf: Nat, status: Nat]

Key(q) == <<q.company, q.token.sub>>

\* The token of q is without a flaw and alive at the time of the request.
Living(q) ==
    /\ q.token \in Tokens
    /\ q.token.flaw = "none"
    /\ q.token.iat <= q.asOf
    /\ q.asOf < q.token.exp

\* A request's token is there once a key is asked for it, and is verified once a
\* grant is.  Status and company are there only when and as they are given.
RequestInv ==
    /\ clock \in Nat
    /\ requests \in [Connections -> Requests]
    /\ \A c \in Connections :
         /\ requests[c].at # "answered" => requests[c].status = 0
         /\ Busy(c) => requests[c].company \in Companies
         /\ requests[c].at = "key" => requests[c].token \in Tokens
         /\ requests[c].at = "grant" => Living(requests[c])
         /\ requests[c].at = "work" \/ Served(c) =>
              Living(requests[c]) /\ Key(requests[c]) \in held[c]

\* What is in force is held by whoever is there.
HeldInv ==
    /\ DOMAIN grants = Keys
    /\ held \in [Connections -> SUBSET Keys]
    /\ \A c \in Connections, k \in Keys :
         Busy(c) /\ InForce(grants[k]) => k \in held[c]

AccessInv == RequestInv /\ HeldInv

-----------------------------------------------------------------------------

\* A request that is answered early, or goes on, does so for these reasons.
LEMMA EarlyReasons ==
  ASSUME NEW q
  PROVE  /\ EarlyStatus(q) \in {0, 200, 400, 401, 404}
         /\ EarlyStatus(q) = 200 => q.route \notin AdminRoutes
         /\ EarlyStatus(q) = 0 => q.token # None
BY DEF EarlyStatus, AdminRoutes

\* What the verification and the check of the identity leave.
LEMMA VerifiedLives ==
  ASSUME NEW token \in Tokens, NEW asOf, NEW keyFound,
         Verified(token, keyFound, asOf), IdentityValidAt(token, asOf)
  PROVE  token.flaw = "none" /\ token.iat <= asOf /\ asOf < token.exp
<1>1. token.flaw \in Flaws
  BY HttpAssumption
<1>2. token.flaw \notin TextFlaws \cup ClaimFlaws
  BY DEF Verified, Readable, ValidateClaims
<1> QED
  BY <1>1, <1>2 DEF Flaws, IdentityValidAt

LEMMA AccessInit == HttpInit => AccessInv
<1> SUFFICES ASSUME HttpInit PROVE AccessInv
  OBVIOUS
<1>1. requests = [c \in Connections |->
        [at |-> "free", route |-> "unknown", token |-> None, company |-> None,
         flaw |-> "none", asOf |-> 0, status |-> 0]]
  BY DEF HttpInit, Free, Request
<1>2. requests \in [Connections -> Requests]
  BY <1>1 DEF Requests, Routes, RequestFlaws
<1>3. \A c \in Connections : requests[c].at = "free" /\ requests[c].status = 0
  BY <1>1
<1>4. RequestInv
  BY <1>2, <1>3 DEF HttpInit, RequestInv, Busy, Served
<1>5. HeldInv
  BY <1>3 DEF HttpInit, HeldInv, Busy
<1> QED
  BY <1>4, <1>5 DEF AccessInv

\* The clock, the start, the signal and the end leave requests and grants alone.
LEMMA AroundAccess ==
  ASSUME AccessInv, UNCHANGED <<requests, grants, held>>, clock' \in Nat
  PROVE  AccessInv'
BY DEF AccessInv, RequestInv, HeldInv, Busy, Served

LEMMA SaveGrantAccess == ASSUME AccessInv, SaveGrant PROVE AccessInv'
<1>1. PICK k \in Keys, from \in {clock, clock + 1} :
        /\ \/ grants' = [grants EXCEPT ![k] =
                 [active |-> TRUE, grantedAt |-> from, revokedAt |-> 0]]
           \/ /\ grants[k] # None
              /\ grants' = [grants EXCEPT ![k].active = FALSE, ![k].revokedAt = clock]
        /\ held' = [c \in Connections |->
                      IF InForce(grants'[k]) THEN held[c] \cup {k} ELSE held[c]]
  BY DEF SaveGrant
<1>2. UNCHANGED <<clock, requests>>
  BY DEF SaveGrant
<1>3. DOMAIN grants' = Keys /\ \A other \in Keys \ {k} : grants'[other] = grants[other]
  BY <1>1 DEF AccessInv, HeldInv
<1>4. /\ held' \in [Connections -> SUBSET Keys]
      /\ \A c \in Connections : held[c] \subseteq held'[c]
      /\ InForce(grants'[k]) => \A c \in Connections : k \in held'[c]
  BY <1>1 DEF AccessInv, HeldInv
<1>5. RequestInv'
  BY <1>2, <1>4 DEF AccessInv, RequestInv, Busy, Served
<1>6. ASSUME NEW c \in Connections, NEW other \in Keys, Busy(c)', InForce(grants'[other])
      PROVE  other \in held'[c]
  <2>1. CASE other = k
    BY <1>4, <1>6, <2>1
  <2>2. CASE other # k
    BY <1>2, <1>3, <1>4, <1>6, <2>2 DEF AccessInv, HeldInv, Busy, InForce
  <2> QED
    BY <2>1, <2>2
<1>7. HeldInv'
  BY <1>3, <1>4, <1>6 DEF HeldInv, InForce
<1> QED
  BY <1>5, <1>7 DEF AccessInv

LEMMA ReceiveAccess ==
  ASSUME AccessInv, NEW c \in Connections, Receive(c) PROVE AccessInv'
<1>1. PICK route \in Routes, token \in Tokens \cup {None}, flaw \in RequestFlaws,
           company \in Companies :
        requests' = [requests EXCEPT ![c] = Request(route, token, company, flaw)]
  BY DEF Receive
<1>2. /\ UNCHANGED <<clock, grants>>
      /\ held' = [held EXCEPT ![c] = {k \in Keys : InForce(grants[k])}]
      /\ held \in [Connections -> SUBSET Keys]
      /\ requests \in [Connections -> Requests]
  BY DEF Receive, AccessInv, RequestInv, HeldInv
<1>3. /\ Request(route, token, company, flaw) \in Requests
      /\ Request(route, token, company, flaw).at = "body"
      /\ Request(route, token, company, flaw).status = 0
      /\ Request(route, token, company, flaw).company \in Companies
  BY DEF Request, Requests
<1>4. /\ requests' \in [Connections -> Requests]
      /\ requests'[c] = Request(route, token, company, flaw)
      /\ \A d \in Connections \ {c} : requests'[d] = requests[d]
  BY <1>1, <1>2, <1>3
<1>5. /\ held' \in [Connections -> SUBSET Keys]
      /\ held'[c] = {k \in Keys : InForce(grants[k])}
      /\ \A d \in Connections \ {c} : held'[d] = held[d]
  BY <1>2
<1>6. RequestInv'
  BY <1>2, <1>3, <1>4, <1>5 DEF AccessInv, RequestInv, Busy, Served
<1>7. HeldInv'
  BY <1>2, <1>4, <1>5 DEF AccessInv, HeldInv, Busy, InForce
<1> QED
  BY <1>6, <1>7 DEF AccessInv

\* A request that is open goes on, or is answered.
LEMMA RequestGoesOn ==
  ASSUME AccessInv, NEW c \in Connections, Busy(c), NEW q \in Requests,
         requests' = [requests EXCEPT ![c] = q], UNCHANGED <<clock, grants, held>>,
         q.company = requests[c].company,
         q.at \in {"key", "grant", "work", "answered"},
         q.at # "answered" => q.status = 0,
         q.at = "key" => q.token \in Tokens,
         q.at = "grant" => Living(q),
         q.at = "work" \/ (q.status = 200 /\ q.route \in AdminRoutes) =>
           Living(q) /\ Key(q) \in held[c]
  PROVE  AccessInv'
<1>1. /\ requests' \in [Connections -> Requests] /\ requests'[c] = q
      /\ \A d \in Connections \ {c} : requests'[d] = requests[d]
  BY DEF AccessInv, RequestInv
<1>2. RequestInv'
  BY <1>1 DEF AccessInv, RequestInv, Busy, Served
<1>3. HeldInv'
  BY <1>1 DEF AccessInv, HeldInv, Busy, InForce
<1> QED
  BY <1>2, <1>3 DEF AccessInv

\* An answer that serves no admin route needs no token.
LEMMA AnswerAccess ==
  ASSUME AccessInv, NEW c \in Connections, Busy(c), NEW status \in Nat,
         Answer(c, status), UNCHANGED <<clock, grants, held>>,
         status = 200 /\ requests[c].route \in AdminRoutes =>
           requests[c].at = "work"
  PROVE  AccessInv'
<1> DEFINE q == [requests[c] EXCEPT !.at = "answered", !.status = status]
<1>1. requests[c] \in Requests
  BY DEF AccessInv, RequestInv
<1>2. /\ q \in Requests /\ q.at = "answered" /\ q.status = status
      /\ q.company = requests[c].company /\ q.token = requests[c].token
      /\ q.route = requests[c].route /\ q.asOf = requests[c].asOf
  BY <1>1 DEF Requests
<1>3. requests' = [requests EXCEPT ![c] = q]
  BY DEF Answer
<1> HIDE DEF q
<1>4. requests[c].at = "work" =>
        Living(requests[c]) /\ Key(requests[c]) \in held[c]
  BY DEF AccessInv, RequestInv
<1>5. q.status = 200 /\ q.route \in AdminRoutes => Living(q) /\ Key(q) \in held[c]
  BY <1>2, <1>4 DEF Living, Key
<1> QED
  BY <1>2, <1>3, <1>5, RequestGoesOn

LEMMA DispatchAccess ==
  ASSUME AccessInv, NEW c \in Connections, Dispatch(c) PROVE AccessInv'
<1> DEFINE status == EarlyStatus(requests[c])
           q == [requests[c] EXCEPT !.at = "key", !.asOf = clock]
<1>1. /\ requests[c].at = "body" /\ requests[c] \in Requests /\ clock \in Nat
      /\ UNCHANGED <<clock, grants, held>>
      /\ requests[c].status = 0
  BY DEF Dispatch, AccessInv, RequestInv
<1>2. /\ status # 0 => Answer(c, status)
      /\ status = 0 => requests' = [requests EXCEPT ![c] = q]
  BY DEF Dispatch
<1>3. /\ q \in Requests /\ q.at = "key" /\ q.status = 0
      /\ q.company = requests[c].company /\ q.token = requests[c].token
  BY <1>1 DEF Requests
<1>4. /\ status \in Nat
      /\ status = 200 => requests[c].route \notin AdminRoutes
      /\ status = 0 => requests[c].token # None
  BY EarlyReasons
<1> HIDE DEF status, q
<1>5. Busy(c)
  BY <1>1 DEF Busy
<1>6. CASE status # 0
  BY <1>1, <1>2, <1>4, <1>5, <1>6, AnswerAccess
<1>7. CASE status = 0
  <2>1. q.token \in Tokens
    BY <1>1, <1>3, <1>4, <1>7 DEF Requests
  <2> QED
    BY <1>1, <1>2, <1>3, <1>5, <1>7, <2>1, RequestGoesOn
<1> QED
  BY <1>6, <1>7

LEMMA AuthenticateAccess ==
  ASSUME AccessInv, NEW c \in Connections, Authenticate(c) PROVE AccessInv'
<1> DEFINE q == [requests[c] EXCEPT !.at = "grant"]
<1>1. /\ requests[c].at = "key" /\ requests[c] \in Requests /\ requests[c].status = 0
      /\ requests[c].token \in Tokens
      /\ UNCHANGED <<clock, grants, held>>
  BY DEF Authenticate, AccessInv, RequestInv
<1>2. Busy(c)
  BY <1>1 DEF Busy
<1>3. CASE Answer(c, 401)
  BY <1>1, <1>2, <1>3, AnswerAccess
<1>4. CASE ~ Answer(c, 401)
  <2>1. PICK keyFound \in BOOLEAN :
          /\ Verified(requests[c].token, keyFound, requests[c].asOf)
          /\ IdentityValidAt(requests[c].token, requests[c].asOf)
          /\ At(c, "grant")
    BY <1>4 DEF Authenticate
  <2>2. requests' = [requests EXCEPT ![c] = q]
    BY <2>1 DEF At
  <2>3. /\ q \in Requests /\ q.at = "grant" /\ q.status = 0
        /\ q.company = requests[c].company /\ q.token = requests[c].token
        /\ q.asOf = requests[c].asOf
    BY <1>1 DEF Requests
  <2> HIDE DEF q
  <2>4. Living(q)
    BY <1>1, <2>1, <2>3, VerifiedLives DEF Living
  <2>5. /\ q.company = requests[c].company /\ q.at = "grant" /\ q.status = 0
        /\ q.at # "key" /\ q.at # "work" /\ q.status # 200
    BY <2>3
  <2> QED
    BY <1>1, <1>2, <2>2, <2>3, <2>4, <2>5, RequestGoesOn
<1> QED
  BY <1>3, <1>4

LEMMA AuthorizeAccess ==
  ASSUME AccessInv, NEW c \in Connections, Authorize(c) PROVE AccessInv'
<1> DEFINE q == [requests[c] EXCEPT !.at = "work"]
<1>1. /\ requests[c].at = "grant" /\ requests[c] \in Requests /\ requests[c].status = 0
      /\ Living(requests[c])
      /\ UNCHANGED <<clock, grants, held>>
  BY DEF Authorize, AccessInv, RequestInv
<1>2. Busy(c)
  BY <1>1 DEF Busy
<1>3. CASE Answer(c, 403)
  BY <1>1, <1>2, <1>3, AnswerAccess
<1>4. CASE ~ Answer(c, 403)
  <2>1. Authorized(requests[c]) /\ requests' = [requests EXCEPT ![c] = q]
    BY <1>4 DEF Authorize, At
  <2>2. /\ q \in Requests /\ q.at = "work" /\ q.status = 0
        /\ q.company = requests[c].company /\ q.token = requests[c].token
        /\ q.asOf = requests[c].asOf
    BY <1>1 DEF Requests
  <2> HIDE DEF q
  <2>3. Living(q) /\ Key(q) = Key(requests[c])
    BY <1>1, <2>2 DEF Living, Key
  <2>4. Key(requests[c]) \in Keys
    <3>1. requests[c].company \in Companies
      BY <1>2 DEF AccessInv, RequestInv
    <3>2. requests[c].token.sub \in Subjects
      BY <1>1, HttpAssumption DEF Living
    <3> QED
      BY <3>1, <3>2 DEF Key, Keys
  <2>5. InForce(grants[Key(requests[c])])
    BY <2>1 DEF Authorized, Key
  <2>6. Key(requests[c]) \in held[c]
    BY <1>2, <2>4, <2>5 DEF AccessInv, HeldInv
  <2> QED
    BY <1>1, <1>2, <2>1, <2>2, <2>3, <2>6, RequestGoesOn
<1> QED
  BY <1>3, <1>4

LEMMA WorkAccess ==
  ASSUME AccessInv, NEW c \in Connections, Work(c) \/ QueryFails(c) PROVE AccessInv'
<1>1. UNCHANGED <<clock, grants, held>>
  BY DEF Work, QueryFails
<1>2. Busy(c)
  BY DEF Work, QueryFails, Busy
<1>3. PICK status \in {200, 400, 404, 409, 500} :
        Answer(c, status) /\ (status = 200 => requests[c].at = "work")
  BY DEF Work, QueryFails
<1> QED
  BY <1>1, <1>2, <1>3, AnswerAccess

LEMMA AccessStep == AccessInv /\ [HttpNext]_httpVars => AccessInv'
<1> SUFFICES ASSUME AccessInv, [HttpNext]_httpVars PROVE AccessInv'
  OBVIOUS
<1>1. CASE ClockTicks \/ Listen \/ ListenFails \/ Signal \/ Closed \/ UNCHANGED httpVars
  <2>1. UNCHANGED <<requests, grants, held>> /\ clock' \in Nat
    BY <1>1 DEF ClockTicks, Listen, ListenFails, Signal, Closed, httpVars, AccessInv,
                RequestInv
  <2> QED
    BY <2>1, AroundAccess
<1>2. CASE SaveGrant
  BY <1>2, SaveGrantAccess
<1>3. CASE \E c \in Connections : Receive(c) \/ Handle(c)
  BY <1>3, ReceiveAccess, DispatchAccess, AuthenticateAccess, AuthorizeAccess,
     WorkAccess DEF Handle
<1> QED
  BY <1>1, <1>2, <1>3 DEF HttpNext

LEMMA AdminsByAccess == AccessInv => OnlyAdminsAreServed
BY DEF AccessInv, RequestInv, OnlyAdminsAreServed, AdminsOnly, TokenLivesAtItsUse,
       Living, Key

\* Only a living token of a user with a grant gets to the admin service.
THEOREM OnlyAdmins == HttpSpec => []OnlyAdminsAreServed
BY AdminsByAccess, AccessInit, AccessStep, PTL DEF HttpSpec

-----------------------------------------------------------------------------
(* The types of a server's state.  A status is given with the answer, and  *)
(* there is none before.                                                   *)

Statuses == {0, 200, 400, 401, 403, 404, 409, 500}

LEMMA HttpTypeInit == HttpInit => HttpTypeOK
BY HttpAssumption DEF HttpInit, HttpTypeOK, Free, Request

\* A grant is saved for a key that exists, and revoked only if it is there.
LEMMA SavedGrantIsGrant ==
  ASSUME HttpTypeOK, clock \in Nat, SaveGrant
  PROVE  /\ grants' \in [Keys -> Grants \cup {None}]
         /\ held' \in [Connections -> SUBSET Keys]
<1>1. PICK k \in Keys, from \in {clock, clock + 1} :
        /\ \/ grants' = [grants EXCEPT ![k] =
                 [active |-> TRUE, grantedAt |-> from, revokedAt |-> 0]]
           \/ /\ grants[k] # None
              /\ grants' = [grants EXCEPT ![k].active = FALSE, ![k].revokedAt = clock]
        /\ held' = [c \in Connections |->
                      IF InForce(grants'[k]) THEN held[c] \cup {k} ELSE held[c]]
  BY DEF SaveGrant
<1>2. /\ grants \in [Keys -> Grants \cup {None}]
      /\ held \in [Connections -> SUBSET Keys]
  BY DEF HttpTypeOK
<1>3. CASE grants' = [grants EXCEPT ![k] =
             [active |-> TRUE, grantedAt |-> from, revokedAt |-> 0]]
  <2>1. [active |-> TRUE, grantedAt |-> from, revokedAt |-> 0] \in Grants
    BY DEF Grants
  <2> QED
    BY <1>1, <1>2, <1>3, <2>1
<1>4. CASE /\ grants[k] # None
           /\ grants' = [grants EXCEPT ![k].active = FALSE, ![k].revokedAt = clock]
  <2> DEFINE revoked == [grants[k] EXCEPT !.active = FALSE, !.revokedAt = clock]
  <2>1. revoked \in Grants
    BY <1>2, <1>4 DEF Grants
  <2>2. grants' = [grants EXCEPT ![k] = revoked]
    BY <1>2, <1>4 DEF Grants
  <2> HIDE DEF revoked
  <2> QED
    BY <1>1, <1>2, <2>1, <2>2
<1> QED
  BY <1>1, <1>3, <1>4

\* One request changes: to one that is answered with a status, or without either.
LEMMA RequestKeepsTypes ==
  ASSUME HttpTypeOK, NEW c \in Connections, NEW q \in Requests,
         requests \in [Connections -> Requests],
         requests' = [requests EXCEPT ![c] = q],
         held' \in [Connections -> SUBSET Keys],
         UNCHANGED <<clock, server, pool, grants, saves>>,
         q.status \in Statuses, q.at = "answered" <=> q.status # 0
  PROVE  HttpTypeOK'
<1>1. /\ requests'[c] = q
      /\ \A d \in Connections \ {c} : requests'[d] = requests[d]
  OBVIOUS
<1>2. \A d \in Connections :
        /\ requests'[d].at \in {"free", "body", "key", "grant", "work", "answered"}
        /\ requests'[d].status \in Statuses
        /\ requests'[d].at = "answered" <=> requests'[d].status # 0
  BY <1>1 DEF HttpTypeOK, Requests, Statuses
<1>3. /\ clock' \in 0 .. MaxNow
      /\ server' \in {"starting", "listening", "closing", "closed"}
      /\ pool' \in {"open", "ended"}
      /\ grants' \in [Keys -> Grants \cup {None}]
      /\ saves' \in 0 .. MaxSaves
  BY DEF HttpTypeOK
<1> QED
  BY ONLY <1>2, <1>3, held' \in [Connections -> SUBSET Keys] DEF HttpTypeOK, Statuses

\* An open request goes a stage on, or is answered.
LEMMA HandleKeepsTypes ==
  ASSUME AccessInv, HttpTypeOK, NEW c \in Connections, Handle(c)
  PROVE  HttpTypeOK'
<1>1. /\ requests[c] \in Requests /\ requests \in [Connections -> Requests]
      /\ clock \in Nat /\ held \in [Connections -> SUBSET Keys]
  BY DEF AccessInv, RequestInv, HeldInv
<1>2. /\ Busy(c) /\ requests[c].at # "answered" /\ requests[c].status = 0
      /\ UNCHANGED <<clock, server, pool, grants, saves, held>>
  BY DEF Handle, Dispatch, Authenticate, Authorize, Work, QueryFails, Busy,
         AccessInv, RequestInv
<1>3. ASSUME NEW status \in Statuses \ {0}, Answer(c, status) PROVE HttpTypeOK'
  <2> DEFINE q == [requests[c] EXCEPT !.at = "answered", !.status = status]
  <2>1. status \in Nat /\ status # 0
    BY DEF Statuses
  <2>2. q \in Requests /\ q.at = "answered" /\ q.status = status
    BY <1>1, <2>1 DEF Requests
  <2>3. requests' = [requests EXCEPT ![c] = q]
    BY <1>3 DEF Answer
  <2> HIDE DEF q
  <2> QED
    BY <1>1, <1>2, <2>1, <2>2, <2>3, RequestKeepsTypes
<1>4. ASSUME NEW stage \in {"key", "grant", "work"}, NEW asOf \in Nat,
             requests' = [requests EXCEPT ![c].at = stage, ![c].asOf = asOf]
      PROVE  HttpTypeOK'
  <2> DEFINE q == [requests[c] EXCEPT !.at = stage, !.asOf = asOf]
  <2>1. q \in Requests /\ q.at # "answered" /\ q.status = 0
    BY <1>1, <1>2, <1>4 DEF Requests
  <2>2. requests' = [requests EXCEPT ![c] = q]
    BY <1>4
  <2> HIDE DEF q
  <2> QED
    BY <1>1, <1>2, <2>1, <2>2, RequestKeepsTypes DEF Statuses
<1>5. ASSUME NEW stage \in {"key", "grant", "work"}, At(c, stage) PROVE HttpTypeOK'
  <2> DEFINE q == [requests[c] EXCEPT !.at = stage]
  <2>1. q \in Requests /\ q.at # "answered" /\ q.status = 0
    BY <1>1, <1>2, <1>5 DEF Requests
  <2>2. requests' = [requests EXCEPT ![c] = q]
    BY <1>5 DEF At
  <2> HIDE DEF q
  <2> QED
    BY <1>1, <1>2, <2>1, <2>2, RequestKeepsTypes DEF Statuses
<1>6. CASE Dispatch(c)
  <2>1. EarlyStatus(requests[c]) \in Statuses
    BY EarlyReasons DEF Statuses
  <2> HIDE DEF Statuses
  <2>2. CASE EarlyStatus(requests[c]) # 0
    BY <1>3, <1>6, <2>1, <2>2 DEF Dispatch
  <2>3. CASE EarlyStatus(requests[c]) = 0
    BY <1>1, <1>4, <1>6, <2>3 DEF Dispatch
  <2> QED
    BY <2>2, <2>3
<1>7. CASE Authenticate(c)
  <2>1. At(c, "grant") \/ Answer(c, 401)
    BY <1>7 DEF Authenticate
  <2> QED
    BY <1>3, <1>5, <2>1 DEF Statuses
<1>8. CASE Authorize(c)
  <2>1. At(c, "work") \/ Answer(c, 403)
    BY <1>8 DEF Authorize
  <2> QED
    BY <1>3, <1>5, <2>1 DEF Statuses
<1>9. CASE Work(c) \/ QueryFails(c)
  <2>1. PICK status \in {200, 400, 404, 409, 500} : Answer(c, status)
    BY <1>9 DEF Work, QueryFails
  <2> QED
    BY <1>3, <2>1 DEF Statuses
<1> QED
  BY <1>6, <1>7, <1>8, <1>9 DEF Handle

LEMMA HttpTypeStep == AccessInv /\ HttpTypeOK /\ [HttpNext]_httpVars => HttpTypeOK'
<1> SUFFICES ASSUME AccessInv, HttpTypeOK, [HttpNext]_httpVars PROVE HttpTypeOK'
  OBVIOUS
<1>1. CASE ClockTicks
  <2>1. clock' \in 0 .. MaxNow
    BY <1>1, HttpAssumption DEF ClockTicks, HttpTypeOK
  <2> QED
    BY <1>1, <2>1 DEF ClockTicks, HttpTypeOK
<1>2. CASE SaveGrant
  <2>1. /\ grants' \in [Keys -> Grants \cup {None}]
        /\ held' \in [Connections -> SUBSET Keys]
    BY <1>2, SavedGrantIsGrant DEF AccessInv, RequestInv
  <2>2. saves' \in 0 .. MaxSaves
    BY <1>2, HttpAssumption DEF SaveGrant, HttpTypeOK
  <2>3. UNCHANGED <<clock, server, pool, requests>>
    BY <1>2 DEF SaveGrant
  <2> QED
    BY <2>1, <2>2, <2>3 DEF HttpTypeOK
<1>3. CASE Listen \/ ListenFails \/ Signal \/ Closed \/ UNCHANGED httpVars
  BY <1>3 DEF Listen, ListenFails, Signal, Closed, httpVars, HttpTypeOK
<1>4. ASSUME NEW c \in Connections, Receive(c) PROVE HttpTypeOK'
  <2>1. PICK route \in Routes, token \in Tokens \cup {None}, flaw \in RequestFlaws,
             company \in Companies :
          requests' = [requests EXCEPT ![c] = Request(route, token, company, flaw)]
    BY <1>4 DEF Receive
  <2> DEFINE q == Request(route, token, company, flaw)
  <2>2. q \in Requests /\ q.at = "body" /\ q.status = 0
    BY DEF Request, Requests
  <2>3. /\ UNCHANGED <<clock, server, pool, grants, saves>>
        /\ held' \in [Connections -> SUBSET Keys]
        /\ requests \in [Connections -> Requests]
    BY <1>4 DEF Receive, AccessInv, RequestInv, HeldInv
  <2> HIDE DEF q
  <2> QED
    BY <2>1, <2>2, <2>3, RequestKeepsTypes DEF q, Statuses
<1> QED
  BY <1>1, <1>2, <1>3, <1>4, HandleKeepsTypes DEF HttpNext

-----------------------------------------------------------------------------

\* The pool has ended only when the server is closed, and with it the last request.
PoolInv == pool = "ended" => server = "closed" /\ Accepted = {}

\* A shutdown takes the pool from no request.
THEOREM PoolOutlives == HttpSpec => []PoolOutlivesRequests
<1> DEFINE Inv == AccessInv /\ PoolInv
<1>1. HttpInit => Inv
  BY AccessInit DEF HttpInit, PoolInv
<1>2. ASSUME Inv, [HttpNext]_httpVars PROVE Inv'
  <2>1. AccessInv'
    BY <1>2, AccessStep
  <2>2. CASE \E c \in Connections : Handle(c)
    <3>1. PICK c \in Connections : Handle(c)
      BY <2>2
    <3>2. Busy(c) /\ UNCHANGED <<server, pool>>
      BY <3>1 DEF Handle, Dispatch, Authenticate, Authorize, Work, QueryFails, Busy
    <3>3. pool # "ended"
      BY <1>2, <3>2 DEF PoolInv, Accepted
    <3> QED
      BY <2>1, <3>2, <3>3 DEF PoolInv
  <2>3. CASE \E c \in Connections : Receive(c)
    <3>1. server = "listening" /\ UNCHANGED <<server, pool>>
      BY <2>3 DEF Receive
    <3> QED
      BY <1>2, <2>1, <3>1 DEF PoolInv
  <2>4. CASE Closed
    BY <1>2, <2>1, <2>4 DEF Closed, PoolInv, Accepted, Busy
  <2>5. CASE ClockTicks \/ SaveGrant \/ Listen \/ ListenFails \/ Signal \/ UNCHANGED httpVars
    <3>1. /\ UNCHANGED <<pool, requests>>
          /\ pool = "ended" /\ server = "closed" => server' = "closed"
      BY <2>5 DEF ClockTicks, SaveGrant, Listen, ListenFails, Signal, httpVars
    <3> QED
      BY <1>2, <2>1, <3>1 DEF PoolInv, Accepted, Busy
  <2> QED
    BY <1>2, <2>2, <2>3, <2>4, <2>5 DEF HttpNext
<1>3. Inv => PoolOutlivesRequests
  BY DEF PoolInv, PoolOutlivesRequests
<1> HIDE DEF Inv
<1> QED
  BY <1>1, <1>2, <1>3, PTL DEF HttpSpec

-----------------------------------------------------------------------------
(* The seed. *)

Deciding(r) == phase[r] = "read" \/ r \in posted

ReadInv ==
  \A r \in Runs : Deciding(r) =>
    /\ expected[r] <= revision
    /\ expected[r] = revision => stored[WaterHeater] = Absent

\* A run has begun before its batch is on its way.
PostedInv == \A r \in posted : phase[r] # "idle"

SeedInv == SeedTypeOK /\ ReadInv /\ PostedInv

LEMMA EntityFacts ==
  /\ WaterHeater \in Entities
  /\ \A e \in Entities : Named(e) \subseteq Entities
BY DEF Entities, Named

-----------------------------------------------------------------------------

\* What is stored keeps its types, and nothing names what is not there: a whole
\* seed names only itself, an edit only what is there, and what is deleted is
\* named by nothing.
LEMMA SeedTypeStep == SeedTypeOK /\ SeedNext => SeedTypeOK'
<1> SUFFICES ASSUME SeedTypeOK, SeedNext PROVE SeedTypeOK'
  OBVIOUS
<1> USE SeedAssumption DEF SeedTypeOK
<1>1. ASSUME NEW r \in Runs, LoadWorkspace(r) PROVE SeedTypeOK'
  BY <1>1 DEF LoadWorkspace, Phases
<1>2. ASSUME NEW r \in Runs, PostChanges(r) PROVE SeedTypeOK'
  BY <1>2 DEF PostChanges, Phases
<1>3. ASSUME NEW r \in Runs, Save(r) PROVE SeedTypeOK'
  <2>1. CASE revision = expected[r]
    <3>1. stored' \in [Entities -> {Absent, "seed", "edited", "manual"}]
      BY <1>3, <2>1 DEF Save
    <3>2. \A e \in Entities : stored'[e] = "seed"
      BY <1>3, <2>1 DEF Save
    <3>3. revision' \in 0 .. MaxRevision
      BY <1>3, <2>1 DEF Save
    <3> QED
      BY <1>3, <2>1, <3>1, <3>2, <3>3, EntityFacts DEF Save, Phases
  <2>2. CASE revision # expected[r]
    BY <1>3, <2>2 DEF Save, Phases
  <2> QED
    BY <2>1, <2>2
<1>4. ASSUME NEW r \in Runs, Fail(r) PROVE SeedTypeOK'
  BY <1>4 DEF Fail, Phases
<1>5. ASSUME NEW e \in Entities, Edit(e) PROVE SeedTypeOK'
  <2>1. /\ stored' \in [Entities -> {Absent, "seed", "edited", "manual"}]
        /\ stored'[e] # Absent
        /\ \A other \in Entities \ {e} : stored'[other] = stored[other]
    BY <1>5 DEF Edit
  <2>2. \A other \in Entities : stored'[other] # Absent =>
          \A named \in Named(other) : stored'[named] # Absent
    BY <1>5, <2>1, EntityFacts DEF Edit
  <2> QED
    BY <1>5, <2>1, <2>2 DEF Edit
<1>6. ASSUME NEW e \in Entities, Delete(e) PROVE SeedTypeOK'
  <2>1. /\ stored' \in [Entities -> {Absent, "seed", "edited", "manual"}]
        /\ stored'[e] = Absent
        /\ \A other \in Entities \ {e} : stored'[other] = stored[other]
    BY <1>6 DEF Delete
  <2>2. \A other \in Entities : stored'[other] # Absent =>
          \A named \in Named(other) : stored'[named] # Absent
    BY <1>6, <2>1, EntityFacts DEF Delete
  <2> QED
    BY <1>6, <2>1, <2>2 DEF Delete
<1> QED
  BY <1>1, <1>2, <1>3, <1>4, <1>5, <1>6 DEF SeedNext

\* A run that reads learns what the stored revision says; every save makes a
\* new revision, and with it the knowledge of all the others old.
LEMMA ReadStep == SeedInv /\ SeedNext => ReadInv'
<1> SUFFICES ASSUME SeedInv, SeedNext, NEW r \in Runs, Deciding(r)'
             PROVE  /\ expected'[r] <= revision'
                    /\ expected'[r] = revision' => stored'[WaterHeater] = Absent
  BY DEF ReadInv
<1> USE DEF SeedInv, SeedTypeOK
<1>1. ASSUME Deciding(r), UNCHANGED expected, revision' = revision + 1
      PROVE  expected'[r] < revision'
  BY <1>1 DEF ReadInv
<1>2. ASSUME Deciding(r), UNCHANGED <<expected, revision, stored>>
      PROVE  /\ expected'[r] <= revision'
             /\ expected'[r] = revision' => stored'[WaterHeater] = Absent
  BY <1>2 DEF ReadInv
<1>3. ASSUME NEW q \in Runs, LoadWorkspace(q)
      PROVE  /\ expected'[r] <= revision'
             /\ expected'[r] = revision' => stored'[WaterHeater] = Absent
  <2>1. CASE r = q /\ phase'[r] = "read"
    BY <1>3, <2>1 DEF LoadWorkspace, ShouldRunSeed
  <2>2. CASE r = q /\ phase'[r] # "read"
    BY <1>3, <2>2 DEF LoadWorkspace, Deciding, PostedInv
  <2>3. CASE r # q
    BY <1>3, <2>3 DEF LoadWorkspace, ReadInv, Deciding
  <2> QED
    BY <2>1, <2>2, <2>3
<1>4. ASSUME NEW q \in Runs, PostChanges(q)
      PROVE  Deciding(r) /\ UNCHANGED <<expected, revision, stored>>
  BY <1>4 DEF PostChanges, Deciding
<1>5. ASSUME NEW q \in Runs, Save(q)
      PROVE  /\ Deciding(r) /\ UNCHANGED expected
             /\ revision' = revision + 1 \/ UNCHANGED <<revision, stored>>
  BY <1>5 DEF Save, Deciding
<1>6. ASSUME NEW q \in Runs, Fail(q)
      PROVE  Deciding(r) /\ UNCHANGED <<expected, revision, stored>>
  BY <1>6 DEF Fail, Deciding
<1>7. ASSUME NEW e \in Entities, Edit(e) \/ Delete(e)
      PROVE  Deciding(r) /\ UNCHANGED expected /\ revision' = revision + 1
  BY <1>7 DEF Edit, Delete, Deciding
<1>8. CASE Deciding(r) /\ UNCHANGED expected /\ revision' = revision + 1
  BY <1>8, <1>1
<1> QED
  BY <1>2, <1>3, <1>4, <1>5, <1>6, <1>7, <1>8 DEF SeedNext

LEMMA PostedStep == SeedInv /\ SeedNext => PostedInv'
<1> SUFFICES ASSUME SeedInv, SeedNext, NEW r \in posted' PROVE phase'[r] # "idle"
  BY DEF PostedInv
<1> USE DEF SeedInv, SeedTypeOK, PostedInv
<1>1. ASSUME NEW q \in Runs, LoadWorkspace(q) PROVE phase'[r] # "idle"
  BY <1>1 DEF LoadWorkspace
<1>2. ASSUME NEW q \in Runs, PostChanges(q) PROVE phase'[r] # "idle"
  BY <1>2 DEF PostChanges
<1>3. ASSUME NEW q \in Runs, Save(q) PROVE phase'[r] # "idle"
  BY <1>3 DEF Save
<1>4. ASSUME NEW q \in Runs, Fail(q) PROVE phase'[r] # "idle"
  BY <1>4 DEF Fail
<1>5. ASSUME NEW e \in Entities, Edit(e) \/ Delete(e) PROVE phase'[r] # "idle"
  BY <1>5 DEF Edit, Delete
<1> QED
  BY <1>1, <1>2, <1>3, <1>4, <1>5 DEF SeedNext

-----------------------------------------------------------------------------

\* The inductive invariant: types, and what the runs know.
THEOREM SeedInvariance == SeedSpec => []SeedInv
<1>1. SeedInit => SeedInv
  BY SeedAssumption, EntityFacts
     DEF SeedInit, SeedInv, SeedTypeOK, ReadInv, PostedInv, Deciding, Phases
<1>2. SeedInv /\ [SeedNext]_seedVars => SeedInv'
  <2>1. CASE SeedNext
    BY <2>1, SeedTypeStep, ReadStep, PostedStep DEF SeedInv
  <2>2. CASE UNCHANGED seedVars
    BY <2>2 DEF seedVars, SeedInv, SeedTypeOK, ReadInv, PostedInv, Deciding
  <2> QED
    BY <2>1, <2>2
<1> QED
  BY <1>1, <1>2, PTL DEF SeedSpec

\* However many runs overlap and whatever administrators do meanwhile, a batch
\* that is saved was decided by the very revision it replaces, and replaces no
\* water heaters.
THEOREM NothingSeededOver == SeedSpec => NoRunSeedsOverAnother
<1>1. ASSUME SeedInv, SeedNext, NEW r \in Runs,
             r \in posted, r \notin posted', stored' # stored
      PROVE  stored[WaterHeater] = Absent /\ revision = expected[r]
  <2>1. Save(r)
    BY <1>1 DEF SeedNext, LoadWorkspace, PostChanges, Save, Fail, Edit, Delete
  <2>2. revision = expected[r]
    BY <1>1, <2>1 DEF Save
  <2> QED
    BY <1>1, <2>2 DEF SeedInv, ReadInv, Deciding
<1>2. SeedInv /\ [SeedNext]_seedVars =>
        [\A r \in Runs : r \in posted /\ r \notin posted' /\ stored' # stored =>
           stored[WaterHeater] = Absent /\ revision = expected[r]]_seedVars
  BY <1>1
<1> QED
  BY <1>2, SeedInvariance, PTL DEF SeedSpec, NoRunSeedsOverAnother

-----------------------------------------------------------------------------
(* The three side by side.  A step of the server is a step of the part at  *)
(* work and a stutter of the two others.                                   *)

LEMMA StepsOfTheParts ==
  [ServerNext]_ServerVars =>
    [Next]_vars /\ [SeedNext]_seedVars /\ [HttpNext]_httpVars
BY DEF ServerNext, ServerVars

LEMMA ServerImplementsItsParts == ServerSpec => Spec /\ SeedSpec
<1>1. ServerInit => Init /\ SeedInit
  BY DEF ServerInit
<1> QED
  BY <1>1, StepsOfTheParts, PTL DEF ServerSpec, Spec, SeedSpec

LEMMA ServerRequests == ServerSpec => [](AccessInv /\ HttpTypeOK)
<1>1. ServerInit => AccessInv /\ HttpTypeOK
  BY AccessInit, HttpTypeInit DEF ServerInit
<1>2. AccessInv /\ HttpTypeOK /\ [ServerNext]_ServerVars => (AccessInv /\ HttpTypeOK)'
  BY StepsOfTheParts, AccessStep, HttpTypeStep
<1> QED
  BY <1>1, <1>2, PTL DEF ServerSpec

\* Whatever migrates, seeds and asks, what the database and the process hold is
\* of its type, no entity of the seed names one that is not there, and a request
\* has a status just when it is answered.
THEOREM ServerTypeCorrect == ServerSpec => []ServerTypeOK
<1>1. MigrationsInv /\ SeedInv /\ AccessInv /\ HttpTypeOK => ServerTypeOK
  BY DEF MigrationsInv, SeedInv, ServerTypeOK
<1> QED
  BY <1>1, ServerImplementsItsParts, MigrationsInvariance, SeedInvariance,
     ServerRequests, PTL

\* What is promised of the parts holds of the server: its migrations are atomic
\* and reported as they went, it serves administrators only, and no run of the
\* seed writes over another.
THEOREM ServerSafe ==
  ServerSpec => /\ ImplementsLedger
                /\ [](OutcomesAreTrue /\ OnlyAdminsAreServed)
                /\ NoRunSeedsOverAnother
<1>1. AccessInv => OnlyAdminsAreServed
  BY AdminsByAccess
<1> QED
  BY <1>1, ServerImplementsItsParts, Refinement, TrueOutcomes, ServerRequests,
     NothingSeededOver, PTL
=============================================================================
