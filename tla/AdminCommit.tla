----------------------------- MODULE AdminCommit -----------------------------
(***************************************************************************)
(* POST .../changes, from the request to its answer, with any number of    *)
(* requests in the server at once: applyAuthorizedAdminChanges, then       *)
(* applyAdminChanges, commitAdminBatch and the repository's compare and    *)
(* set.  Each await of that path ends a step, so other requests run        *)
(* between the grant lookup, the load, the UPDATE and the answer.          *)
(***************************************************************************)
EXTENDS AdminBatch

CONSTANTS
  Requests,         \* one element per request ever sent: bounds the model
  InitialDocs,      \* contents a company may be created with
  NoRow             \* no row in tm_admin_snapshots

ASSUME NoRowAssumption == NoRow \notin Snapshot
ASSUME InitialDocsAssumption == InitialDocs \subseteq Docs

VARIABLES
  row,              \* the company's row in tm_admin_snapshots
  grants,           \* which subjects have an active admin grant
  phase,            \* where each request is
  command,          \* what each request asks for
  next,             \* the snapshot each request has computed and will write
  answer,           \* what each request's client was told
  \* history
  commits,          \* the requests that changed the row, in order
  created           \* the content the company was created with

vars == <<row, grants, phase, command, next, answer, commits, created>>

Phases ==
  {"idle", "authorize", "load", "update", "conflict", "report", "done"}

InServer == {"authorize", "load", "update", "conflict", "report"}

Saved == "saved"
AccessDenied == "ACCESS_DENIED"
DataNotFound == "ADMIN_DATA_NOT_FOUND"
ReadModelFailed == "read model failed"  \* any error after the save
Lost == "no answer"                     \* crash, timeout, connection lost

Refusals == BatchErrors \cup {AccessDenied, DataNotFound}

\* The answer's code and the revision it quotes.
Answer == [code : Refusals \cup {Saved, ReadModelFailed, Lost, OK},
           revision : Nat]
NoAnswer == [code |-> OK, revision |-> 0]

TypeOK ==
  /\ row \in Snapshot \cup {NoRow}
  /\ grants \in [Subjects -> BOOLEAN]
  /\ phase \in [Requests -> Phases]
  /\ command \in [Requests -> Command \cup {Absent}]
  /\ \A q \in Requests : phase[q] # "idle" => command[q] \in Command
  /\ next \in [Requests -> Snapshot \cup {NoRow}]
  /\ \A q \in Requests : phase[q] \in {"update", "report"} => next[q] \in Snapshot
  /\ answer \in [Requests -> Answer]
  /\ commits \in Seq(Requests)
  /\ row # NoRow => created \in Docs

Init ==
  /\ row = NoRow
  /\ grants \in [Subjects -> BOOLEAN]
  /\ phase = [q \in Requests |-> "idle"]
  /\ command = [q \in Requests |-> Absent]
  /\ next = [q \in Requests |-> NoRow]
  /\ answer = [q \in Requests |-> NoAnswer]
  /\ commits = <<>>
  /\ created = Absent

-----------------------------------------------------------------------------
(* Around the requests. *)

\* INSERT ... ON CONFLICT DO NOTHING: the second initialization is refused.
InitializeAdminData(doc) ==
  /\ row = NoRow
  /\ DocValid(doc)
  /\ row' = [revision |-> 0, doc |-> doc, trail |-> <<>>]
  /\ created' = doc
  /\ UNCHANGED <<grants, phase, command, next, answer, commits>>

\* An operator saves a company access grant: upsert, last writer wins.
SaveGrant(s, active) ==
  /\ grants' = [grants EXCEPT ![s] = active]
  /\ UNCHANGED <<row, phase, command, next, answer, commits, created>>

-----------------------------------------------------------------------------
(* One request. *)

Finish(q, code, revision) ==
  /\ phase' = [phase EXCEPT ![q] = "done"]
  /\ answer' = [answer EXCEPT ![q] = [code |-> code, revision |-> revision]]

Send(q, cmd) ==
  /\ phase[q] = "idle"
  /\ phase' = [phase EXCEPT ![q] = "authorize"]
  /\ command' = [command EXCEPT ![q] = cmd]
  /\ UNCHANGED <<row, grants, next, answer, commits, created>>

Authorize(q) ==
  /\ phase[q] = "authorize"
  /\ IF grants[command[q].actor]
     THEN /\ phase' = [phase EXCEPT ![q] = "load"]
          /\ UNCHANGED answer
     ELSE Finish(q, AccessDenied, 0)
  /\ UNCHANGED <<row, grants, command, next, commits, created>>

\* The row is read and, with no await in between, the batch applied to it.
LoadAndApply(q) ==
  /\ phase[q] = "load"
  /\ IF row # NoRow /\ Accepts(row, command[q])
     THEN /\ phase' = [phase EXCEPT ![q] = "update"]
          /\ next' = [next EXCEPT ![q] = ApplyAdminBatch(row, command[q])]
          /\ UNCHANGED answer
     ELSE /\ IF row = NoRow
             THEN Finish(q, DataNotFound, 0)
             ELSE Finish(q, BatchError(row, command[q]), row.revision)
          /\ UNCHANGED next
  /\ UNCHANGED <<row, grants, command, commits, created>>

\* A mutant: UPDATE without WHERE revision = expected.
UpdateWithoutCompare(q) ==
  /\ phase[q] = "update"
  /\ row' = next[q]
  /\ commits' = Append(commits, q)
  /\ phase' = [phase EXCEPT ![q] = "report"]
  /\ UNCHANGED <<grants, command, next, answer, created>>

\* UPDATE ... WHERE revision = expected.
Update(q) ==
  /\ phase[q] = "update"
  /\ IF row.revision = command[q].expected
     THEN /\ row' = next[q]
          /\ commits' = Append(commits, q)
          /\ phase' = [phase EXCEPT ![q] = "report"]
     ELSE /\ phase' = [phase EXCEPT ![q] = "conflict"]
          /\ UNCHANGED <<row, commits>>
  /\ UNCHANGED <<grants, command, next, answer, created>>

\* A mutant: the conflict quotes the revision the request expected.
ReadNothing(q) ==
  /\ phase[q] = "conflict"
  /\ Finish(q, RevisionConflict, command[q].expected)
  /\ UNCHANGED <<row, grants, command, next, commits, created>>

\* A mutant: the save waits for the revision it expected to come back.
WaitForRevision(q) ==
  /\ phase[q] = "conflict"
  /\ row.revision = command[q].expected
  /\ Finish(q, RevisionConflict, row.revision)
  /\ UNCHANGED <<row, grants, command, next, commits, created>>

\* The second query of a save that updated nothing.
ReadRevision(q) ==
  /\ phase[q] = "conflict"
  /\ Finish(q, RevisionConflict, row.revision)
  /\ UNCHANGED <<row, grants, command, next, commits, created>>

\* A mutant: the answer quotes the revision the request came with.
ReportExpected(q) ==
  /\ phase[q] = "report"
  /\ \/ Finish(q, Saved, command[q].expected)
     \/ Finish(q, ReadModelFailed, 0)
  /\ UNCHANGED <<row, grants, command, next, commits, created>>

\* The dashboard is built from the saved snapshot; if that throws, the client
\* is told of an error although the batch is stored.
Report(q) ==
  /\ phase[q] = "report"
  /\ \/ Finish(q, Saved, next[q].revision)
     \/ Finish(q, ReadModelFailed, 0)
  /\ UNCHANGED <<row, grants, command, next, commits, created>>

\* The process dies, a query fails or the answer does not reach the client.
Lose(q) ==
  /\ phase[q] \in InServer
  /\ Finish(q, Lost, 0)
  /\ UNCHANGED <<row, grants, command, next, commits, created>>

Step(q) ==
  Authorize(q) \/ LoadAndApply(q) \/ Update(q) \/ ReadRevision(q) \/ Report(q)

Next ==
  \/ \E doc \in InitialDocs : InitializeAdminData(doc)
  \/ \E s \in Subjects, active \in BOOLEAN : SaveGrant(s, active)
  \/ \E q \in Requests, cmd \in Command : Send(q, cmd)
  \/ \E q \in Requests : Step(q) \/ Lose(q)

Spec == Init /\ [][Next]_vars

\* Every await of the path is settled: by the database, by its driver's
\* timeout, or by the end of the process, which is Lose.
Fairness == \A q \in Requests : WF_vars(Step(q))

FairSpec == Spec /\ Fairness

-----------------------------------------------------------------------------
(* Properties. *)

\* Whatever requests run into each other, the stored snapshot satisfies every
\* rule of validateAdminDataSnapshot: no load can fail on data a save wrote.
StoredSnapshotValid == row # NoRow => SnapshotValid(row)

\* Every revision is the work of exactly one request, which asked for it
\* against the revision just before: nothing is written twice, skipped, or
\* written over a revision the request had not named (the compare and set of
\* save).
CommitsAreRevisions ==
  /\ row # NoRow => row.revision = Len(commits)
  /\ \A r \in DOMAIN commits : command[commits[r]].expected = r - 1
  /\ \A r, r2 \in DOMAIN commits : commits[r] = commits[r2] => r = r2

\* The audit trail of revision r is the batch of the request that made r, by
\* its actor and in its order.
TrailRecordsBatches ==
  row # NoRow =>
    /\ \A r \in DOMAIN commits : \A i \in DOMAIN command[commits[r]].operations :
         \E k \in DOMAIN row.trail :
           /\ row.trail[k].revision = r
           /\ row.trail[k].index = i
           /\ row.trail[k].ref = command[commits[r]].operations[i].ref
           /\ row.trail[k].actor = command[commits[r]].actor
    /\ \A k \in DOMAIN row.trail : row.trail[k].revision \in DOMAIN commits

\* No entry about ref lies between positions i and j of the trail.
Untouched(trail, ref, i, j) == \A k \in i + 1 .. j - 1 : trail[k].ref # ref

\* The audit trail alone explains the data: for every row, the first entry's
\* "before" is what the company was created with, each later "before" is the
\* previous "after", and the last "after" is what is stored now.
TrailExplainsDoc ==
  row # NoRow =>
    LET trail == row.trail
        end == Len(trail) + 1 IN
    /\ \A ref \in Refs :
         Untouched(trail, ref, 0, end) => row.doc[ref] = created[ref]
    /\ \A j \in DOMAIN trail :
         /\ Untouched(trail, trail[j].ref, 0, j) =>
              trail[j].before = created[trail[j].ref]
         /\ Untouched(trail, trail[j].ref, j, end) =>
              row.doc[trail[j].ref] = trail[j].after
         /\ \A i \in 1 .. j - 1 :
              trail[i].ref = trail[j].ref
                /\ Untouched(trail, trail[j].ref, i, j) =>
                  trail[j].before = trail[i].after

\* What the client is told is what happened: "saved, revision r" only if its
\* batch is revision r, a refusal only if nothing of it is stored.  An error
\* of the read model or a lost answer promises neither.
AnswersAreTrue ==
  \A q \in Requests :
    /\ answer[q].code = Saved =>
         /\ answer[q].revision \in DOMAIN commits
         /\ commits[answer[q].revision] = q
    /\ answer[q].code \in Refusals => \A r \in DOMAIN commits : commits[r] # q

\* A request refused for its revision lost to somebody: the revision it is
\* told is stored already, and the one after its own was made by another.
ConflictsHaveWinners ==
  \A q \in Requests :
    answer[q].code = RevisionConflict =>
      /\ answer[q].revision # command[q].expected
      /\ answer[q].revision <= Len(commits)
      /\ command[q].expected < answer[q].revision =>
           commits[command[q].expected + 1] # q

\* The trail is the whole history: it explains every row there is and was, and
\* holds every batch that was stored and no other.
TrailIsTheHistory == TrailExplainsDoc /\ TrailRecordsBatches

\* Clients learn the truth: what they are told of their batch is what became
\* of it, and who is refused for a revision did lose to another request.
ClientsLearnTheTruth == AnswersAreTrue /\ ConflictsHaveWinners

\* Why the compare and set is enough.  A request about to write either has a
\* snapshot that was computed from the stored one, or will lose its UPDATE.
StagedIsCurrent ==
  \A q \in Requests :
    phase[q] = "update" =>
      /\ row # NoRow
      /\ command[q].expected <= row.revision
      /\ command[q].expected = row.revision =>
           /\ Accepts(row, command[q])
           /\ next[q] = ApplyAdminBatch(row, command[q])

\* What a request that has passed its UPDATE knows, and nobody was told of
\* anything before.
OutcomeIsKnown ==
  /\ row = NoRow => commits = <<>>
  /\ \A r \in DOMAIN commits : phase[commits[r]] \in {"report", "done"}
  /\ \A q \in Requests :
       /\ phase[q] = "report" =>
            /\ next[q].revision \in DOMAIN commits
            /\ commits[next[q].revision] = q
       /\ phase[q] = "conflict" =>
            /\ row # NoRow
            /\ command[q].expected < row.revision
       /\ phase[q] # "done" => answer[q] = NoAnswer

\* The inductive invariant of the proofs.
Inv ==
  /\ TypeOK
  /\ StoredSnapshotValid
  /\ CommitsAreRevisions
  /\ StagedIsCurrent
  /\ OutcomeIsKnown
  /\ AnswersAreTrue
  /\ ConflictsHaveWinners

\* Once created the row is only ever extended: by one revision at a time,
\* with the whole trail kept.
RowOnlyExtended ==
  [][row # NoRow /\ row' # row =>
       /\ row'.revision = row.revision + 1
       /\ Len(row'.trail) > Len(row.trail)
       /\ SubSeq(row'.trail, 1, Len(row.trail)) = row.trail]_vars

\* The write path keeps the promise of AdminLog.
Log == INSTANCE AdminLog WITH
         register <- row,
         committed <- {commits[r] : r \in DOMAIN commits}
ImplementsLog == Log!Spec

\* Every request the server has begun is answered or its process ends.
EveryRequestEnds ==
  \A q \in Requests : (phase[q] \in InServer) ~> (phase[q] = "done")
=============================================================================
