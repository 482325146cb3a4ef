--------------------------- MODULE AdminCommitProofs --------------------------
(***************************************************************************)
(* For any number of administrators and requests, any batches and any      *)
(* interleaving: the stored snapshot is valid, the revisions are the       *)
(* accepted batches in order, the answers are true, and the write path     *)
(* implements AdminLog.                                                    *)
(***************************************************************************)
EXTENDS AdminBrowser, AdminBatchProofs

-----------------------------------------------------------------------------
(* The inductive invariant. *)

\* Before anything happens.
LEMMA InitInv == Init => Inv
<1> SUFFICES ASSUME Init PROVE Inv
  OBVIOUS
<1>1. TypeOK
  BY DEF Init, TypeOK, Phases, Answer, NoAnswer
<1>2. StoredSnapshotValid /\ StagedIsCurrent
  BY DEF Init, StoredSnapshotValid, StagedIsCurrent
<1>3. CommitsAreRevisions /\ OutcomeIsKnown
  BY DEF Init, CommitsAreRevisions, OutcomeIsKnown
<1>4. AnswersAreTrue /\ ConflictsHaveWinners
  BY DEF Init, AnswersAreTrue, ConflictsHaveWinners, NoAnswer, OK, Saved,
     Refusals, BatchErrors, AccessDenied, DataNotFound, RevisionConflict,
     InvalidOperation, DuplicateOperation, DeleteTargetNotFound, InvalidData
<1> QED
  BY <1>1, <1>2, <1>3, <1>4 DEF Inv

\* A company is created with a valid snapshot of revision 0.
LEMMA InitializeInv ==
  ASSUME Inv, NEW doc \in InitialDocs, InitializeAdminData(doc)
  PROVE  Inv'
<1> USE DEF InitializeAdminData
<1>1. /\ row' = [revision |-> 0, doc |-> doc, trail |-> <<>>]
      /\ row' \in Snapshot /\ doc \in Docs
      /\ row' # NoRow
  <2>1. row' = [revision |-> 0, doc |-> doc, trail |-> <<>>] /\ doc \in Docs
    BY InitialDocsAssumption
  <2>2. row' \in Snapshot
    BY <2>1 DEF Snapshot
  <2> QED
    BY <2>1, <2>2, NoRowAssumption
<1>2. commits = <<>>
  BY DEF Inv, OutcomeIsKnown
<1>3. \A q \in Requests : phase[q] \notin {"update", "conflict"}
  BY DEF Inv, StagedIsCurrent, OutcomeIsKnown
<1>4. TypeOK'
  BY <1>1 DEF Inv, TypeOK
<1>5. StoredSnapshotValid'
  BY <1>1 DEF StoredSnapshotValid, SnapshotValid, AuditTrailValid
<1>6. CommitsAreRevisions'
  BY <1>1, <1>2 DEF CommitsAreRevisions
<1>7. StagedIsCurrent' /\ OutcomeIsKnown'
  BY <1>1, <1>2, <1>3 DEF Inv, StagedIsCurrent, OutcomeIsKnown
<1>8. AnswersAreTrue' /\ ConflictsHaveWinners'
  BY DEF Inv, AnswersAreTrue, ConflictsHaveWinners
<1> QED
  BY <1>4, <1>5, <1>6, <1>7, <1>8 DEF Inv

\* The UPDATE: the one step that moves the row.
LEMMA UpdateInv ==
  ASSUME Inv, NEW q \in Requests, Update(q)
  PROVE  Inv'
<1> DEFINE cmd == command[q]
<1>1. /\ row \in Snapshot /\ row # NoRow /\ row.revision \in Nat
      /\ cmd \in Command /\ cmd.expected \in Nat
      /\ phase \in [Requests -> Phases]
      /\ commits \in Seq(Requests)
      /\ row.revision = Len(commits)
  BY ExpectedAssumption
     DEF Inv, TypeOK, StagedIsCurrent, CommitsAreRevisions, Update, Snapshot,
     Command
<1>2. \A r \in DOMAIN commits : commits[r] # q
  BY DEF Inv, OutcomeIsKnown, Update
<1>3. CASE row.revision = cmd.expected
  <2>1. /\ row' = next[q] /\ commits' = Append(commits, q)
        /\ phase' = [phase EXCEPT ![q] = "report"]
        /\ UNCHANGED <<grants, command, next, answer, created>>
    BY <1>3 DEF Update
  <2>2. Accepts(row, cmd) /\ next[q] = ApplyAdminBatch(row, cmd)
    BY <1>3 DEF Inv, StagedIsCurrent, Update
  <2>3. row' \in Snapshot /\ row'.revision = row.revision + 1 /\ row' # NoRow
    BY <1>1, <2>1, <2>2, ApplyType, NoRowAssumption
  <2>4. /\ Len(commits') = row'.revision
        /\ commits'[row'.revision] = q
        /\ DOMAIN commits' = DOMAIN commits \cup {row'.revision}
        /\ \A r \in DOMAIN commits : commits'[r] = commits[r]
        /\ \A r \in DOMAIN commits : commits[r] \in Requests
        /\ commits' \in Seq(Requests)
    BY <1>1, <2>1, <2>3
  <2>5. TypeOK'
    BY <1>1, <2>1, <2>3, <2>4 DEF Inv, TypeOK, Phases, Update
  <2>6. StoredSnapshotValid'
    BY <2>1, <2>2 DEF StoredSnapshotValid, Accepts
  <2>7. CommitsAreRevisions'
    BY <1>1, <1>2, <1>3, <2>1, <2>3, <2>4 DEF Inv, CommitsAreRevisions
  <2>8. StagedIsCurrent'
    BY <1>1, <2>1, <2>3, ExpectedAssumption
       DEF Inv, TypeOK, StagedIsCurrent, Command
  <2>9. OutcomeIsKnown'
    <3>1. \A r \in DOMAIN commits' : phase'[commits'[r]] \in {"report", "done"}
      BY <1>1, <1>2, <2>1, <2>3, <2>4 DEF Inv, OutcomeIsKnown
    <3>2. ASSUME NEW p \in Requests
          PROVE  /\ phase'[p] = "report" =>
                      /\ next'[p].revision \in DOMAIN commits'
                      /\ commits'[next'[p].revision] = p
                 /\ phase'[p] = "conflict" =>
                      /\ row' # NoRow
                      /\ command'[p].expected < row'.revision
                 /\ phase'[p] # "done" => answer'[p] = NoAnswer
      <4>1. CASE p = q
        BY <4>1, <1>1, <2>1, <2>3, <2>4 DEF Inv, OutcomeIsKnown, Update
      <4>2. CASE p # q
        <5>1. phase'[p] = phase[p]
          BY <4>2, <1>1, <2>1
        <5>2. phase[p] = "conflict" => command[p].expected \in Nat
          BY ExpectedAssumption DEF Inv, TypeOK, Command
        <5> QED
          BY <5>1, <5>2, <1>1, <2>1, <2>3, <2>4 DEF Inv, OutcomeIsKnown
      <4> QED
        BY <4>1, <4>2
    <3> QED
      BY <2>3, <3>1, <3>2 DEF OutcomeIsKnown
  <2>10. AnswersAreTrue'
    <3>1. answer[q] = NoAnswer
      BY DEF Inv, OutcomeIsKnown, Update
    <3>2. answer[q].code \notin Refusals
      BY <3>1 DEF NoAnswer, OK, Refusals, BatchErrors, AccessDenied,
         DataNotFound, RevisionConflict, InvalidOperation, DuplicateOperation,
         DeleteTargetNotFound, InvalidData
    <3> QED
      BY <1>1, <2>1, <2>4, <3>2 DEF Inv, AnswersAreTrue
  <2>11. ConflictsHaveWinners'
    <3> SUFFICES ASSUME NEW p \in Requests,
                        answer[p].code = RevisionConflict
                 PROVE  /\ answer[p].revision # command[p].expected
                        /\ answer[p].revision <= Len(commits')
                        /\ command[p].expected < answer[p].revision =>
                             commits'[command[p].expected + 1] # p
      BY <2>1 DEF ConflictsHaveWinners
    <3>1. phase[p] = "done"
      BY DEF Inv, OutcomeIsKnown, NoAnswer, OK, RevisionConflict
    <3>2. command[p].expected \in Nat /\ answer[p].revision \in Nat
      BY <3>1, ExpectedAssumption DEF Inv, TypeOK, Command, Answer
    <3>3. /\ answer[p].revision # command[p].expected
          /\ answer[p].revision <= Len(commits)
          /\ command[p].expected < answer[p].revision =>
               commits[command[p].expected + 1] # p
      BY DEF Inv, ConflictsHaveWinners
    <3>4. command[p].expected < answer[p].revision =>
            command[p].expected + 1 \in DOMAIN commits
      BY <1>1, <3>2, <3>3
    <3> QED
      BY <1>1, <2>3, <2>4, <3>2, <3>3, <3>4
  <2> QED
    BY <2>5, <2>6, <2>7, <2>8, <2>9, <2>10, <2>11 DEF Inv
<1>4. CASE row.revision # cmd.expected
  <2>1. /\ phase' = [phase EXCEPT ![q] = "conflict"]
        /\ UNCHANGED <<row, grants, command, next, answer, commits, created>>
    BY <1>4 DEF Update
  <2>2. cmd.expected < row.revision
    BY <1>1, <1>4 DEF Inv, StagedIsCurrent, Update
  <2>3. TypeOK'
    BY <1>1, <2>1 DEF Inv, TypeOK, Phases, Update
  <2>4. StagedIsCurrent'
    BY <1>1, <2>1 DEF Inv, StagedIsCurrent
  <2>5. OutcomeIsKnown'
    BY <1>1, <1>2, <2>1, <2>2 DEF Inv, OutcomeIsKnown, Update
  <2>6. /\ StoredSnapshotValid' /\ CommitsAreRevisions'
        /\ AnswersAreTrue' /\ ConflictsHaveWinners'
    BY <2>1 DEF Inv, StoredSnapshotValid, CommitsAreRevisions, AnswersAreTrue,
       ConflictsHaveWinners
  <2> QED
    BY <2>3, <2>4, <2>5, <2>6 DEF Inv
<1> QED
  BY <1>3, <1>4

\* Every step of a request but the UPDATE leaves the row and the commits alone.
\* Such a step keeps the invariant if it moves only q, if what it computes is
\* computed from the stored row, and if what it answers is true.
LEMMA QuietInv ==
  ASSUME Inv, NEW q \in Requests, NEW to \in Phases,
         UNCHANGED <<row, grants, commits, created>>,
         phase' = [phase EXCEPT ![q] = to],
         /\ command' \in [Requests -> Command \cup {Absent}]
         /\ command'[q] \in Command
         /\ \A p \in Requests \ {q} : command'[p] = command[p],
         phase[q] # "idle" => command'[q] = command[q],
         /\ next' \in [Requests -> Snapshot \cup {NoRow}]
         /\ \A p \in Requests \ {q} : next'[p] = next[p],
         /\ answer' \in [Requests -> Answer]
         /\ \A p \in Requests \ {q} : answer'[p] = answer[p],
         to \notin {"idle", "conflict", "report"},
         phase[q] # "done",
         phase[q] = "report" => to = "done",
         to = "update" =>
           /\ row # NoRow /\ Accepts(row, command'[q])
           /\ next'[q] = ApplyAdminBatch(row, command'[q]),
         to # "done" => answer'[q] = NoAnswer,
         answer'[q].code = Saved => /\ answer'[q].revision \in DOMAIN commits
                                    /\ commits[answer'[q].revision] = q,
         answer'[q].code \in Refusals => phase[q] # "report",
         answer'[q].code = RevisionConflict =>
           /\ row # NoRow
           /\ answer'[q].revision = row.revision
           /\ answer'[q].revision # command'[q].expected
  PROVE  Inv'
<1>1. /\ phase \in [Requests -> Phases]
      /\ commits \in Seq(Requests)
      /\ phase'[q] = to
      /\ \A p \in Requests \ {q} : phase'[p] = phase[p]
  BY DEF Inv, TypeOK
<1>2. row # NoRow => /\ row \in Snapshot /\ row.revision \in Nat
                     /\ row.revision = Len(commits)
  BY DEF Inv, TypeOK, Snapshot, CommitsAreRevisions
<1>3. to = "update" => next'[q] \in Snapshot /\ command'[q].expected = row.revision
  BY <1>2, ApplyType DEF Accepts
<1>4. \A r \in DOMAIN commits :
        /\ commits[r] \in Requests
        /\ phase[commits[r]] \in {"report", "done"}
        /\ command'[commits[r]] = command[commits[r]]
  BY <1>1 DEF Inv, OutcomeIsKnown
<1>5. TypeOK'
  BY <1>1, <1>3 DEF Inv, TypeOK
<1>6. StoredSnapshotValid'
  BY DEF Inv, StoredSnapshotValid
<1>7. CommitsAreRevisions'
  BY <1>4 DEF Inv, CommitsAreRevisions
<1>8. StagedIsCurrent'
  BY <1>1, <1>2, <1>3 DEF Inv, StagedIsCurrent
<1>9. OutcomeIsKnown'
  BY <1>1, <1>4 DEF Inv, OutcomeIsKnown
<1>10. AnswersAreTrue'
  <2>1. ASSUME NEW p \in Requests
        PROVE  /\ answer'[p].code = Saved =>
                    /\ answer'[p].revision \in DOMAIN commits
                    /\ commits[answer'[p].revision] = p
               /\ answer'[p].code \in Refusals =>
                    \A r \in DOMAIN commits : commits[r] # p
    <3>1. CASE p = q
      BY <3>1, <1>4
    <3>2. CASE p # q
      BY <3>2 DEF Inv, AnswersAreTrue
    <3> QED
      BY <3>1, <3>2
  <2> QED
    BY <2>1 DEF AnswersAreTrue
<1>11. ConflictsHaveWinners'
  <2>1. ASSUME NEW p \in Requests, answer'[p].code = RevisionConflict
        PROVE  /\ answer'[p].revision # command'[p].expected
               /\ answer'[p].revision <= Len(commits)
               /\ command'[p].expected < answer'[p].revision =>
                    commits[command'[p].expected + 1] # p
    <3>1. CASE p = q
      <4>1. command'[q].expected \in Nat
        BY ExpectedAssumption DEF Command
      <4>2. \A r \in DOMAIN commits : commits[r] # q
        BY <2>1, <3>1, <1>4 DEF Refusals, BatchErrors
      <4> QED
        BY <2>1, <3>1, <1>1, <1>2, <4>1, <4>2
    <3>2. CASE p # q
      BY <2>1, <3>2 DEF Inv, ConflictsHaveWinners
    <3> QED
      BY <3>1, <3>2
  <2> QED
    BY <2>1 DEF ConflictsHaveWinners
<1> QED
  BY <1>5, <1>6, <1>7, <1>8, <1>9, <1>10, <1>11 DEF Inv

\* The codes an answer can carry are told apart.
LEMMA Codes ==
  /\ {Saved, ReadModelFailed, Lost, OK} \cap Refusals = {}
  /\ Saved \notin {ReadModelFailed, Lost, OK}
  /\ RevisionConflict \in Refusals
  /\ RevisionConflict \notin {AccessDenied, DataNotFound}
  BY DEF Saved, ReadModelFailed, Lost, OK, Refusals, BatchErrors, AccessDenied,
     DataNotFound, RevisionConflict, InvalidOperation, DuplicateOperation,
     DeleteTargetNotFound, InvalidData

\* What Finish does, typed.
LEMMA FinishType ==
  ASSUME Inv, NEW q \in Requests, phase[q] # "done",
         NEW code \in Refusals \cup {Saved, ReadModelFailed, Lost, OK},
         NEW revision \in Nat, Finish(q, code, revision)
  PROVE  /\ phase' = [phase EXCEPT ![q] = "done"] /\ "done" \in Phases
         /\ answer' \in [Requests -> Answer]
         /\ answer'[q].code = code /\ answer'[q].revision = revision
         /\ \A p \in Requests \ {q} : answer'[p] = answer[p]
<1>1. answer \in [Requests -> Answer]
  BY DEF Inv, TypeOK
<1>2. [code |-> code, revision |-> revision] \in Answer
  BY DEF Answer
<1> QED
  BY <1>1, <1>2 DEF Finish, Phases

\* A request is sent.
LEMMA SendInv ==
  ASSUME Inv, NEW q \in Requests, NEW cmd \in Command, Send(q, cmd)
  PROVE  Inv'
<1>1. /\ command' \in [Requests -> Command \cup {Absent}]
      /\ command'[q] = cmd
      /\ \A p \in Requests \ {q} : command'[p] = command[p]
  BY DEF Inv, TypeOK, Send
<1>2. /\ next' = next /\ next \in [Requests -> Snapshot \cup {NoRow}]
      /\ answer' = answer /\ answer \in [Requests -> Answer]
      /\ answer[q] = NoAnswer
  BY DEF Inv, TypeOK, OutcomeIsKnown, Send
<1>3. "authorize" \in Phases
  BY DEF Phases
<1>4. answer[q].code \notin Refusals \cup {Saved}
  BY <1>2, Codes DEF NoAnswer
<1> QED
  BY <1>1, <1>2, <1>3, <1>4, Codes, QuietInv DEF Send

\* A step that only answers.
LEMMA AnswerInv ==
  ASSUME Inv, NEW q \in Requests, phase[q] \in InServer,
         NEW code \in Refusals \cup {Saved, ReadModelFailed, Lost, OK},
         NEW revision \in Nat, Finish(q, code, revision),
         UNCHANGED <<row, grants, command, next, commits, created>>,
         code = Saved => /\ revision \in DOMAIN commits
                         /\ commits[revision] = q,
         code \in Refusals => phase[q] # "report",
         code = RevisionConflict =>
           row # NoRow /\ revision = row.revision /\ revision # command[q].expected
  PROVE  Inv'
<1>1. phase[q] \notin {"idle", "done"}
  BY DEF InServer
<1>2. /\ command \in [Requests -> Command \cup {Absent}]
      /\ command[q] \in Command
      /\ next \in [Requests -> Snapshot \cup {NoRow}]
  BY <1>1 DEF Inv, TypeOK
<1>3. /\ phase' = [phase EXCEPT ![q] = "done"] /\ "done" \in Phases
      /\ answer' \in [Requests -> Answer]
      /\ answer'[q].code = code /\ answer'[q].revision = revision
      /\ \A p \in Requests \ {q} : answer'[p] = answer[p]
  BY <1>1, FinishType
<1> QED
  BY <1>1, <1>2, <1>3, QuietInv

\* A step that moves on without an answer.
LEMMA MoveInv ==
  ASSUME Inv, NEW q \in Requests, phase[q] \in InServer \ {"report"},
         NEW to \in {"load", "update"},
         phase' = [phase EXCEPT ![q] = to],
         UNCHANGED <<row, grants, command, answer, commits, created>>,
         /\ next' \in [Requests -> Snapshot \cup {NoRow}]
         /\ \A p \in Requests \ {q} : next'[p] = next[p],
         to = "update" =>
           /\ row # NoRow /\ Accepts(row, command[q])
           /\ next'[q] = ApplyAdminBatch(row, command[q])
  PROVE  Inv'
<1>1. phase[q] \notin {"idle", "done"} /\ to \in Phases
  BY DEF InServer, Phases
<1>2. /\ command \in [Requests -> Command \cup {Absent}]
      /\ command[q] \in Command
      /\ answer \in [Requests -> Answer]
      /\ answer[q] = NoAnswer
  BY <1>1 DEF Inv, TypeOK, OutcomeIsKnown
<1>3. answer[q].code \notin Refusals \cup {Saved}
  BY <1>2, Codes DEF NoAnswer
<1> QED
  BY <1>1, <1>2, <1>3, Codes, QuietInv

\* The grant of a request is looked up.
LEMMA AuthorizeInv ==
  ASSUME Inv, NEW q \in Requests, Authorize(q)
  PROVE  Inv'
<1>1. phase[q] \in InServer \ {"report"}
  BY DEF Authorize, InServer
<1>2. CASE grants[command[q].actor]
  <2>1. /\ phase' = [phase EXCEPT ![q] = "load"]
        /\ UNCHANGED <<row, grants, command, next, answer, commits, created>>
    BY <1>2 DEF Authorize
  <2>2. next \in [Requests -> Snapshot \cup {NoRow}]
    BY DEF Inv, TypeOK
  <2> QED
    BY <1>1, <2>1, <2>2, MoveInv
<1>3. CASE ~ grants[command[q].actor]
  <2>1. /\ Finish(q, AccessDenied, 0)
        /\ UNCHANGED <<row, grants, command, next, commits, created>>
    BY <1>3 DEF Authorize
  <2>2. AccessDenied \in Refusals
    BY DEF Refusals
  <2> QED
    BY <1>1, <2>1, <2>2, Codes, AnswerInv
<1> QED
  BY <1>2, <1>3

\* A request computes the snapshot it will write, or is refused.
LEMMA LoadAndApplyInv ==
  ASSUME Inv, NEW q \in Requests, LoadAndApply(q)
  PROVE  Inv'
<1>1. phase[q] \in InServer \ {"report"} /\ phase[q] # "idle"
  BY DEF LoadAndApply, InServer
<1>2. /\ row # NoRow => row \in Snapshot /\ row.revision \in Nat
      /\ command[q] \in Command
      /\ next \in [Requests -> Snapshot \cup {NoRow}]
  BY <1>1 DEF Inv, TypeOK, Snapshot
<1>3. CASE row # NoRow /\ Accepts(row, command[q])
  <2>1. /\ phase' = [phase EXCEPT ![q] = "update"]
        /\ next' = [next EXCEPT ![q] = ApplyAdminBatch(row, command[q])]
        /\ UNCHANGED <<row, grants, command, answer, commits, created>>
    BY <1>3 DEF LoadAndApply
  <2>2. ApplyAdminBatch(row, command[q]) \in Snapshot
    BY <1>2, <1>3, ApplyType
  <2>3. /\ next' \in [Requests -> Snapshot \cup {NoRow}]
        /\ next'[q] = ApplyAdminBatch(row, command[q])
        /\ \A p \in Requests \ {q} : next'[p] = next[p]
    BY <1>2, <2>1, <2>2
  <2> QED
    BY <1>1, <1>3, <2>1, <2>3, MoveInv
<1>4. CASE row = NoRow
  <2>1. /\ Finish(q, DataNotFound, 0)
        /\ UNCHANGED <<row, grants, command, next, commits, created>>
    BY <1>4 DEF LoadAndApply
  <2>2. DataNotFound \in Refusals
    BY DEF Refusals
  <2> QED
    BY <1>1, <2>1, <2>2, Codes, AnswerInv
<1>5. CASE row # NoRow /\ ~ Accepts(row, command[q])
  <2>1. /\ Finish(q, BatchError(row, command[q]), row.revision)
        /\ UNCHANGED <<row, grants, command, next, commits, created>>
    BY <1>5 DEF LoadAndApply
  <2>2. /\ BatchError(row, command[q]) \in Refusals \cup {OK}
        /\ BatchError(row, command[q]) = RevisionConflict =>
             row.revision # command[q].expected
    BY <1>5, ErrorType DEF Refusals
  <2>3. BatchError(row, command[q]) # Saved
    BY <2>2, Codes
  <2> QED
    BY <1>1, <1>2, <1>5, <2>1, <2>2, <2>3, AnswerInv
<1> QED
  BY <1>3, <1>4, <1>5

\* A request that lost its UPDATE is told so.
LEMMA ReadRevisionInv ==
  ASSUME Inv, NEW q \in Requests, ReadRevision(q)
  PROVE  Inv'
<1>1. /\ phase[q] \in InServer \ {"report"} /\ phase[q] = "conflict"
      /\ Finish(q, RevisionConflict, row.revision)
      /\ UNCHANGED <<row, grants, command, next, commits, created>>
  BY DEF ReadRevision, InServer
<1>2. /\ row # NoRow /\ row.revision \in Nat
      /\ command[q].expected \in Nat
      /\ command[q].expected < row.revision
  BY <1>1, ExpectedAssumption
     DEF Inv, TypeOK, OutcomeIsKnown, Snapshot, Command
<1> QED
  BY <1>1, <1>2, Codes, AnswerInv

\* A request that won its UPDATE is answered.
LEMMA ReportInv ==
  ASSUME Inv, NEW q \in Requests, Report(q)
  PROVE  Inv'
<1>1. /\ phase[q] \in InServer /\ phase[q] = "report"
      /\ UNCHANGED <<row, grants, command, next, commits, created>>
  BY DEF Report, InServer
<1>2. /\ next[q].revision \in DOMAIN commits
      /\ commits[next[q].revision] = q
      /\ next[q].revision \in Nat
  BY <1>1 DEF Inv, TypeOK, OutcomeIsKnown, Snapshot
<1>3. CASE Finish(q, Saved, next[q].revision)
  BY <1>1, <1>2, <1>3, Codes, AnswerInv
<1>4. CASE Finish(q, ReadModelFailed, 0)
  BY <1>1, <1>4, Codes, AnswerInv
<1> QED
  BY <1>3, <1>4 DEF Report

\* A request ends without an answer.
LEMMA LoseInv ==
  ASSUME Inv, NEW q \in Requests, Lose(q)
  PROVE  Inv'
  BY Codes, AnswerInv DEF Lose

\* A grant is saved or revoked.
LEMMA SaveGrantInv ==
  ASSUME Inv, NEW s \in Subjects, NEW active \in BOOLEAN, SaveGrant(s, active)
  PROVE  Inv'
<1>1. UNCHANGED <<row, phase, command, next, answer, commits, created>>
  BY DEF SaveGrant
<1>2. grants' \in [Subjects -> BOOLEAN]
  BY DEF Inv, TypeOK, SaveGrant
<1>3. TypeOK'
  BY <1>1, <1>2 DEF Inv, TypeOK
<1> QED
  BY <1>1, <1>3 DEF Inv, StoredSnapshotValid, CommitsAreRevisions,
     StagedIsCurrent, OutcomeIsKnown, AnswersAreTrue, ConflictsHaveWinners

\* No step leaves the invariant.
LEMMA NextInv ==
  ASSUME Inv, [Next]_vars
  PROVE  Inv'
<1>1. ASSUME NEW doc \in InitialDocs, InitializeAdminData(doc) PROVE Inv'
  BY <1>1, InitializeInv
<1>2. ASSUME NEW s \in Subjects, NEW active \in BOOLEAN, SaveGrant(s, active)
      PROVE  Inv'
  BY <1>2, SaveGrantInv
<1>3. ASSUME NEW q \in Requests, NEW cmd \in Command, Send(q, cmd) PROVE Inv'
  BY <1>3, SendInv
<1>4. ASSUME NEW q \in Requests, Step(q) PROVE Inv'
  BY <1>4, AuthorizeInv, LoadAndApplyInv, UpdateInv, ReadRevisionInv,
     ReportInv DEF Step
<1>5. ASSUME NEW q \in Requests, Lose(q) PROVE Inv'
  BY <1>5, LoseInv
<1>6. CASE UNCHANGED vars
  BY <1>6 DEF vars, Inv, TypeOK, StoredSnapshotValid, CommitsAreRevisions,
     StagedIsCurrent, OutcomeIsKnown, AnswersAreTrue, ConflictsHaveWinners
<1> QED
  BY <1>1, <1>2, <1>3, <1>4, <1>5, <1>6 DEF Next

\* The invariant holds in every reachable state.
THEOREM Invariance == Spec => []Inv
  BY InitInv, NextInv, PTL DEF Spec

-----------------------------------------------------------------------------
(* What the invariant says, property by property. *)

\* Every variable keeps its type.
THEOREM TypeCorrect == Spec => []TypeOK
  BY Invariance, PTL DEF Inv

\* Whatever requests run into each other, what is stored is valid.
THEOREM ValidSnapshot == Spec => []StoredSnapshotValid
  BY Invariance, PTL DEF Inv

\* Revision r is the work of the r-th accepted request, which asked for it
\* against revision r - 1, and of no other.
THEOREM NoLostUpdate == Spec => []CommitsAreRevisions
  BY Invariance, PTL DEF Inv

\* Clients are told what happened.
THEOREM TrueAnswers == Spec => []AnswersAreTrue
  BY Invariance, PTL DEF Inv

\* Nobody is refused for a revision that is still the stored one.
THEOREM TrueConflicts == Spec => []ConflictsHaveWinners
  BY Invariance, PTL DEF Inv

\* What clients are told is what happened, of accepted and of refused batches.
THEOREM ClientsKnow == Spec => []ClientsLearnTheTruth
  BY TrueAnswers, TrueConflicts, PTL DEF ClientsLearnTheTruth

-----------------------------------------------------------------------------
(* What a step can do to the row. *)

\* Request q's batch becomes the next revision.
Commits(q) ==
  /\ phase[q] = "update"
  /\ row # NoRow /\ row \in Snapshot
  /\ command[q] \in Command /\ command' = command
  /\ Accepts(row, command[q])
  /\ row' = ApplyAdminBatch(row, command[q])
  /\ commits' = Append(commits, q)
  /\ \A r \in DOMAIN commits : commits[r] # q
  /\ created' = created

\* A step creates the row, commits one batch to it, or leaves it alone; and it
\* never changes what a committed request had asked for.
LEMMA RowMoves ==
  ASSUME Inv, [Next]_vars
  PROVE  /\ \/ UNCHANGED <<row, commits, created>>
            \/ \E doc \in InitialDocs : InitializeAdminData(doc)
            \/ \E q \in Requests : Commits(q)
         /\ \A r \in DOMAIN commits :
              command'[commits[r]] = command[commits[r]]
<1>1. ASSUME NEW q \in Requests, NEW cmd \in Command, Send(q, cmd)
      PROVE  /\ UNCHANGED <<row, commits, created>>
             /\ \A r \in DOMAIN commits :
                  command'[commits[r]] = command[commits[r]]
  <2>1. \A r \in DOMAIN commits : commits[r] # q
    BY <1>1 DEF Inv, OutcomeIsKnown, Send
  <2> QED
    BY <1>1, <2>1 DEF Inv, TypeOK, Send
<1>2. ASSUME NEW q \in Requests, Update(q)
      PROVE  /\ UNCHANGED <<row, commits, created>> \/ Commits(q)
             /\ command' = command
  <2>1. CASE row.revision = command[q].expected
    <3>1. /\ row # NoRow /\ row \in Snapshot /\ command[q] \in Command
          /\ \A r \in DOMAIN commits : commits[r] # q
          /\ Accepts(row, command[q])
          /\ next[q] = ApplyAdminBatch(row, command[q])
      BY <1>2, <2>1 DEF Inv, TypeOK, StagedIsCurrent, OutcomeIsKnown, Update
    <3> QED
      BY <1>2, <2>1, <3>1 DEF Update, Commits
  <2>2. CASE row.revision # command[q].expected
    BY <1>2, <2>2 DEF Update
  <2> QED
    BY <2>1, <2>2
<1>3. ASSUME NEW q \in Requests,
             Authorize(q) \/ LoadAndApply(q) \/ ReadRevision(q) \/ Report(q)
               \/ Lose(q)
      PROVE  UNCHANGED <<row, commits, created, command>>
  BY <1>3 DEF Authorize, LoadAndApply, ReadRevision, Report, Lose
<1>4. ASSUME NEW doc \in InitialDocs, InitializeAdminData(doc)
      PROVE  command' = command
  BY <1>4 DEF InitializeAdminData
<1>5. ASSUME NEW s \in Subjects, NEW active \in BOOLEAN, SaveGrant(s, active)
      PROVE  UNCHANGED <<row, commits, created, command>>
  BY <1>5 DEF SaveGrant
<1>6. CASE UNCHANGED vars
  BY <1>6 DEF vars
<1> QED
  BY <1>1, <1>2, <1>3, <1>4, <1>5, <1>6 DEF Next, Step

\* What a committed batch does to the trail: one entry for each operation.
LEMMA CommittedTrail ==
  ASSUME NEW q \in Requests, Commits(q)
  PROVE  /\ row.trail \in Seq(AuditEntry) /\ row'.trail \in Seq(AuditEntry)
         /\ command[q].operations \in Seq(Operation)
         /\ Len(row.trail) \in Nat
         /\ Len(command[q].operations) \in Nat \ {0}
         /\ Len(row'.trail) = Len(row.trail) + Len(command[q].operations)
         /\ DOMAIN command[q].operations = 1 .. Len(command[q].operations)
         /\ \A k \in 1 .. Len(row.trail) : row'.trail[k] = row.trail[k]
         /\ \A i \in 1 .. Len(command[q].operations) :
              row'.trail[Len(row.trail) + i] = AuditOf(row, command[q], i)
         /\ SubSeq(row'.trail, 1, Len(row.trail)) = row.trail
<1> DEFINE n == Len(row.trail)
           m == Len(command[q].operations)
<1>1. /\ row.trail \in Seq(AuditEntry)
      /\ command[q].operations \in Seq(Operation)
      /\ command[q].operations # <<>>
  BY BatchesAssumption DEF Commits, Snapshot, Command, Accepts
<1>2. row'.trail = row.trail \o StagedAudits(row, command[q])
  BY DEF Commits, ApplyAdminBatch
<1>3. \A i \in DOMAIN command[q].operations :
        AuditOf(row, command[q], i) \in AuditEntry
  BY AuditType DEF Commits, Accepts
<1>4. /\ StagedAudits(row, command[q]) \in Seq(AuditEntry)
      /\ Len(StagedAudits(row, command[q])) = Len(command[q].operations)
      /\ \A i \in 1 .. Len(command[q].operations) :
           StagedAudits(row, command[q])[i] = AuditOf(row, command[q], i)
  BY <1>1, <1>3 DEF StagedAudits
<1>5. /\ DOMAIN command[q].operations = 1 .. Len(command[q].operations)
      /\ Len(command[q].operations) \in Nat \ {0}
  BY <1>1
<1>6. /\ row'.trail \in Seq(AuditEntry)
      /\ n \in Nat
      /\ Len(row'.trail) = n + m
      /\ \A k \in 1 .. n : row'.trail[k] = row.trail[k]
      /\ \A i \in 1 .. m : row'.trail[n + i] = StagedAudits(row, command[q])[i]
      /\ SubSeq(row'.trail, 1, n) = row.trail
  <2> DEFINE s == row.trail
             t == StagedAudits(row, command[q])
  <2>1. s \in Seq(AuditEntry) /\ t \in Seq(AuditEntry) /\ Len(t) = m
    BY <1>1, <1>4
  <2>2. row'.trail = s \o t /\ n = Len(s)
    BY <1>2
  <2> HIDE DEF s, t, n, m
  <2>3. /\ s \o t \in Seq(AuditEntry)
        /\ Len(s) \in Nat
        /\ Len(s \o t) = Len(s) + Len(t)
        /\ \A k \in 1 .. Len(s) : (s \o t)[k] = s[k]
        /\ \A i \in 1 .. Len(t) : (s \o t)[Len(s) + i] = t[i]
        /\ SubSeq(s \o t, 1, Len(s)) = s
    <3>1. s \in Seq(AuditEntry)
      BY <2>1
    <3>2. t \in Seq(AuditEntry)
      BY <2>1
    <3> QED
      BY <3>1, <3>2, ConcatElements
  <2>4. /\ row'.trail \in Seq(AuditEntry)
        /\ n \in Nat
        /\ Len(row'.trail) = n + m
        /\ \A k \in 1 .. n : row'.trail[k] = s[k]
        /\ \A i \in 1 .. m : row'.trail[n + i] = t[i]
        /\ SubSeq(row'.trail, 1, n) = s
    BY <2>1, <2>2, <2>3
  <2> QED
    BY <2>4 DEF s, t
<1>7. \A i \in 1 .. m : row'.trail[n + i] = AuditOf(row, command[q], i)
  BY <1>4, <1>6
<1>8. DOMAIN command[q].operations = 1 .. m /\ m \in Nat \ {0}
  BY <1>5
<1> QED
  BY <1>1, <1>6, <1>7, <1>8

\* The row only ever grows, by one revision and the entries of one batch.
THEOREM AppendOnly == Spec => RowOnlyExtended
<1>1. ASSUME Inv, [Next]_vars, row # NoRow, row' # row
      PROVE  /\ row'.revision = row.revision + 1
             /\ Len(row'.trail) > Len(row.trail)
             /\ SubSeq(row'.trail, 1, Len(row.trail)) = row.trail
  <2>1. PICK q \in Requests : Commits(q)
    BY <1>1, RowMoves DEF InitializeAdminData
  <2>2. row'.revision = row.revision + 1
    BY <2>1 DEF Commits, ApplyAdminBatch
  <2>3. /\ Len(row'.trail) = Len(row.trail) + Len(command[q].operations)
        /\ Len(row.trail) \in Nat /\ Len(command[q].operations) \in Nat \ {0}
        /\ SubSeq(row'.trail, 1, Len(row.trail)) = row.trail
    BY <2>1, CommittedTrail
  <2>4. \A n \in Nat, m \in Nat \ {0} : n + m > n
    OBVIOUS
  <2> QED
    BY <2>2, <2>3, <2>4
<1> QED
  BY <1>1, Invariance, PTL DEF Spec, RowOnlyExtended

-----------------------------------------------------------------------------
(* The audit trail. *)

\* TrailExplainsDoc survives the entries of one more batch.
LEMMA TrailStep ==
  ASSUME NEW q \in Requests, Commits(q), TrailExplainsDoc
  PROVE  TrailExplainsDoc'
<1> DEFINE T == row.trail
           U == row'.trail
           ops == command[q].operations
           n == Len(row.trail)
           m == Len(command[q].operations)
<1>1. /\ T \in Seq(AuditEntry) /\ U \in Seq(AuditEntry)
      /\ n \in Nat /\ m \in Nat /\ Len(U) = n + m /\ DOMAIN ops = 1 .. m
      /\ DOMAIN T = 1 .. n /\ DOMAIN U = 1 .. n + m
      /\ \A k \in 1 .. n : U[k] = T[k]
      /\ \A i \in 1 .. m : U[n + i] = AuditOf(row, command[q], i)
  <2>1. T \in Seq(AuditEntry) /\ U \in Seq(AuditEntry)
    BY CommittedTrail
  <2>2. n \in Nat /\ m \in Nat /\ Len(U) = n + m /\ DOMAIN ops = 1 .. m
    BY CommittedTrail
  <2>3. \A k \in 1 .. n : U[k] = T[k]
    BY CommittedTrail
  <2>4. \A i \in 1 .. m : U[n + i] = AuditOf(row, command[q], i)
    BY CommittedTrail
  <2>5. DOMAIN T = 1 .. n /\ DOMAIN U = 1 .. n + m
    <3>1. Len(T) = n
      OBVIOUS
    <3> HIDE DEF T, U, ops, n, m
    <3> QED
      BY <2>1, <2>2, <3>1
  <2> QED
    BY <2>1, <2>2, <2>3, <2>4, <2>5
<1>2. /\ row # NoRow /\ created' = created
      /\ row'.doc = NextDoc(row.doc, ops)
      /\ FailingOperations(row.doc, ops) = {}
  BY DEF Commits, ApplyAdminBatch, Accepts
<1>3. \A i \in 1 .. m : /\ U[n + i].ref = ops[i].ref
                        /\ U[n + i].before = row.doc[ops[i].ref]
                        /\ U[n + i].after = ops[i].value
  <2> HIDE DEF U, n, m
  <2> TAKE i \in 1 .. m
  <2>1. U[n + i] = AuditOf(row, command[q], i)
    BY <1>1
  <2> QED
    BY <2>1 DEF AuditOf
<1>4. \A k \in 1 .. n + m : U[k].ref \in Refs
  <2> HIDE DEF U, n, m
  <2>1. \A k \in 1 .. n + m : U[k] \in AuditEntry
    BY <1>1
  <2> QED
    BY <2>1 DEF AuditEntry
<1>5. \A k \in 1 .. n + m : k \in 1 .. n \/ \E i \in 1 .. m : k = n + i
  <2> HIDE DEF n, m
  <2>1. ASSUME NEW k \in 1 .. n + m, k \notin 1 .. n
        PROVE  k - n \in 1 .. m /\ k = n + (k - n)
    BY <1>1, <2>1
  <2> QED
    BY <2>1
<1>6. /\ \A ref \in Refs :
           Untouched(T, ref, 0, n + 1) => row.doc[ref] = created[ref]
      /\ \A j \in 1 .. n :
           /\ Untouched(T, T[j].ref, 0, j) => T[j].before = created[T[j].ref]
           /\ Untouched(T, T[j].ref, j, n + 1) => row.doc[T[j].ref] = T[j].after
           /\ \A i \in 1 .. j - 1 :
                T[i].ref = T[j].ref /\ Untouched(T, T[j].ref, i, j) =>
                  T[j].before = T[i].after
  BY <1>1, <1>2 DEF TrailExplainsDoc
<1>7. row' # NoRow
  BY ApplyType, NoRowAssumption DEF Commits
<1> HIDE DEF T, U, ops, n, m
<1>7a. \A ref \in Refs :
         /\ (\A i \in 1 .. m : ops[i].ref # ref) => row'.doc[ref] = row.doc[ref]
         /\ \A i \in 1 .. m : ops[i].ref = ref => row'.doc[ref] = ops[i].value
  <2> SUFFICES ASSUME NEW ref \in Refs
               PROVE  /\ (\A i \in 1 .. m : ops[i].ref # ref) =>
                           row'.doc[ref] = row.doc[ref]
                      /\ \A i \in 1 .. m :
                           ops[i].ref = ref => row'.doc[ref] = ops[i].value
    OBVIOUS
  <2>1. m \in Nat /\ DOMAIN ops = 1 .. m
    BY <1>1
  <2>2. ASSUME \A i \in 1 .. m : ops[i].ref # ref
        PROVE  row'.doc[ref] = row.doc[ref]
    <3>1. NextDoc(row.doc, ops)[ref] = row.doc[ref]
      BY <2>1, <2>2, NextDocKept
    <3> QED
      BY <1>2, <3>1
  <2>3. ASSUME NEW i \in 1 .. m, ops[i].ref = ref
        PROVE  row'.doc[ref] = ops[i].value
    <3>1. NextDoc(row.doc, ops)[ref] = ops[i].value
      BY <1>2, <2>1, <2>3, NextDocSaved
    <3> QED
      BY <1>2, <3>1
  <2> QED
    BY <2>2, <2>3
\* Old entries seen from the new trail.
<1>8. ASSUME NEW ref, NEW i \in 0 .. n, NEW j \in 1 .. n + 1,
             Untouched(U, ref, i, j)
      PROVE  Untouched(T, ref, i, j)
  BY <1>1, <1>8 DEF Untouched
\* A row no entry after position i names is untouched by the batch.
<1>9. ASSUME NEW ref \in Refs, NEW i \in 0 .. n,
             Untouched(U, ref, i, n + m + 1)
      PROVE  /\ Untouched(T, ref, i, n + 1)
             /\ row'.doc[ref] = row.doc[ref]
  <2>1. Untouched(T, ref, i, n + 1)
    BY <1>1, <1>9 DEF Untouched
  <2>2. ASSUME NEW k \in 1 .. m
        PROVE  ops[k].ref # ref
    <3>1. n + k \in i + 1 .. (n + m + 1) - 1
      BY <1>1
    <3> QED
      BY <1>3, <1>9, <3>1 DEF Untouched
  <2>3. row'.doc[ref] = row.doc[ref]
    BY <1>7a, <2>2
  <2> QED
    BY <2>1, <2>3
<1>10. ASSUME NEW ref \in Refs, Untouched(U, ref, 0, n + m + 1)
       PROVE  row'.doc[ref] = created[ref]
  BY <1>1, <1>6, <1>9, <1>10
<1>11. ASSUME NEW j \in 1 .. n
       PROVE  /\ Untouched(U, U[j].ref, 0, j) =>
                   U[j].before = created[U[j].ref]
              /\ Untouched(U, U[j].ref, j, n + m + 1) =>
                   row'.doc[U[j].ref] = U[j].after
              /\ \A i \in 1 .. j - 1 :
                   U[i].ref = U[j].ref /\ Untouched(U, U[j].ref, i, j) =>
                     U[j].before = U[i].after
  <2>1. U[j] = T[j] /\ U[j].ref \in Refs /\ j \in 0 .. n /\ j \in 1 .. n + 1
    BY <1>1, <1>4
  <2>2. Untouched(U, U[j].ref, 0, j) => U[j].before = created[U[j].ref]
    BY <1>1, <1>6, <1>8, <2>1
  <2>3. Untouched(U, U[j].ref, j, n + m + 1) => row'.doc[U[j].ref] = U[j].after
    BY <1>6, <1>9, <2>1
  <2>4. ASSUME NEW i \in 1 .. j - 1,
               U[i].ref = U[j].ref, Untouched(U, U[j].ref, i, j)
        PROVE  U[j].before = U[i].after
    <3>1. i \in 0 .. n /\ U[i] = T[i]
      BY <1>1
    <3>2. Untouched(T, T[j].ref, i, j)
      BY <1>8, <2>1, <2>4, <3>1
    <3> QED
      BY <1>6, <2>1, <2>4, <3>1, <3>2
  <2> QED
    BY <2>2, <2>3, <2>4
<1>12. ASSUME NEW l \in 1 .. m
       PROVE  LET j == n + l IN
              /\ Untouched(U, U[j].ref, 0, j) =>
                   U[j].before = created[U[j].ref]
              /\ Untouched(U, U[j].ref, j, n + m + 1) =>
                   row'.doc[U[j].ref] = U[j].after
              /\ \A i \in 1 .. j - 1 :
                   U[i].ref = U[j].ref /\ Untouched(U, U[j].ref, i, j) =>
                     U[j].before = U[i].after
  <2> DEFINE j == n + l
             ref == ops[l].ref
  <2>1. /\ j \in 1 .. n + m /\ U[j].ref = ref /\ ref \in Refs
        /\ U[j].before = row.doc[ref]
    BY <1>1, <1>3, <1>4
  <2>2. U[j].after = row'.doc[ref]
    <3>1. row'.doc[ref] = ops[l].value
      BY <1>7a, <2>1
    <3> QED
      BY <1>3, <3>1
  <2>3. ASSUME NEW i \in 0 .. n, Untouched(U, ref, i, j)
        PROVE  Untouched(T, ref, i, n + 1)
    BY <1>1, <2>3 DEF Untouched
  <2>4. Untouched(U, ref, 0, j) => U[j].before = created[ref]
    BY <1>1, <1>6, <2>1, <2>3
  <2>5. ASSUME NEW i \in 1 .. j - 1, U[i].ref = ref, Untouched(U, ref, i, j)
        PROVE  U[j].before = U[i].after
    <3>1. CASE i \in 1 .. n
      <4>1. i \in 0 .. n /\ U[i] = T[i]
        BY <1>1, <3>1
      <4>2. Untouched(T, T[i].ref, i, n + 1)
        BY <2>3, <2>5, <4>1
      <4> QED
        BY <1>6, <2>1, <2>5, <3>1, <4>1, <4>2
    <3>2. CASE i \notin 1 .. n
      <4>1. PICK k \in 1 .. m : i = n + k
        BY <1>1, <1>5, <3>2
      <4>2. k = l
        <5>1. ops[k].ref = ops[l].ref
          BY <1>3, <2>5, <4>1
        <5>2. m \in Nat /\ DOMAIN ops = 1 .. m
          BY <1>1
        <5> QED
          BY <1>2, <5>1, <5>2, OneOperationPerRow
      <4> QED
        BY <1>1, <2>5, <4>1, <4>2
    <3> QED
      BY <3>1, <3>2
  <2> QED
    BY <2>1, <2>2, <2>4, <2>5
<1>13. /\ \A ref \in Refs :
            Untouched(U, ref, 0, n + m + 1) => row'.doc[ref] = created[ref]
       /\ \A j \in 1 .. n + m :
            /\ Untouched(U, U[j].ref, 0, j) => U[j].before = created[U[j].ref]
            /\ Untouched(U, U[j].ref, j, n + m + 1) =>
                 row'.doc[U[j].ref] = U[j].after
            /\ \A i \in 1 .. j - 1 :
                 U[i].ref = U[j].ref /\ Untouched(U, U[j].ref, i, j) =>
                   U[j].before = U[i].after
  BY <1>5, <1>10, <1>11, <1>12
<1> QED
  BY <1>1, <1>2, <1>7, <1>13 DEF TrailExplainsDoc, U

\* The audit trail alone explains the stored data.
THEOREM TrailExplains == Spec => []TrailExplainsDoc
<1>1. Init => TrailExplainsDoc
  BY DEF Init, TrailExplainsDoc
<1>2. ASSUME Inv, [Next]_vars, TrailExplainsDoc PROVE TrailExplainsDoc'
  <2>1. CASE UNCHANGED <<row, commits, created>>
    BY <1>2, <2>1 DEF TrailExplainsDoc, Untouched
  <2>2. ASSUME NEW doc \in InitialDocs, InitializeAdminData(doc)
        PROVE  TrailExplainsDoc'
    BY <2>2 DEF InitializeAdminData, TrailExplainsDoc
  <2>3. ASSUME NEW q \in Requests, Commits(q) PROVE TrailExplainsDoc'
    BY <1>2, <2>3, TrailStep
  <2> QED
    BY <1>2, <2>1, <2>2, <2>3, RowMoves
<1> QED
  BY <1>1, <1>2, Invariance, PTL DEF Spec

\* TrailRecordsBatches survives the entries of one more batch.
LEMMA RecordStep ==
  ASSUME Inv, NEW q \in Requests, Commits(q), TrailRecordsBatches
  PROVE  TrailRecordsBatches'
<1> DEFINE n == Len(row.trail)
           m == Len(command[q].operations)
           c == Len(commits)
           U == row'.trail
<1>1. /\ DOMAIN row.trail = 1 .. n /\ DOMAIN U = 1 .. n + m
      /\ n \in Nat /\ m \in Nat /\ DOMAIN command[q].operations = 1 .. m
      /\ \A k \in 1 .. n : U[k] = row.trail[k]
      /\ \A i \in 1 .. m : U[n + i] = AuditOf(row, command[q], i)
  <2>1. row.trail \in Seq(AuditEntry) /\ U \in Seq(AuditEntry)
    BY CommittedTrail
  <2>2. n \in Nat /\ m \in Nat /\ Len(U) = n + m
    BY CommittedTrail
  <2>3. \A k \in 1 .. n : U[k] = row.trail[k]
    BY CommittedTrail
  <2>4. \A i \in 1 .. m : U[n + i] = AuditOf(row, command[q], i)
    BY CommittedTrail
  <2>5. DOMAIN command[q].operations = 1 .. m
    BY CommittedTrail
  <2>6. Len(row.trail) = n
    OBVIOUS
  <2> HIDE DEF n, m, U
  <2> QED
    BY <2>1, <2>2, <2>3, <2>4, <2>5, <2>6
<1>2. /\ row # NoRow /\ row.revision = c /\ c \in Nat
      /\ commits' = Append(commits, q) /\ command' = command
      /\ DOMAIN commits = 1 .. c /\ DOMAIN commits' = 1 .. c + 1
      /\ commits'[c + 1] = q
      /\ \A r \in 1 .. c : commits'[r] = commits[r]
  <2>1. commits \in Seq(Requests) /\ commits' = Append(commits, q)
    BY DEF Inv, TypeOK, Commits
  <2>2. row # NoRow /\ row.revision = Len(commits) /\ command' = command
    BY DEF Inv, CommitsAreRevisions, Commits
  <2> QED
    BY <2>1, <2>2
<1>3. \A i \in 1 .. m :
        /\ U[n + i].revision = c + 1
        /\ U[n + i].index = i
        /\ U[n + i].ref = command[q].operations[i].ref
        /\ U[n + i].actor = command[q].actor
  <2> TAKE i \in 1 .. m
  <2>1. U[n + i] = AuditOf(row, command[q], i)
    BY <1>1
  <2> QED
    BY <1>2, <2>1 DEF AuditOf
<1> HIDE DEF n, m, c, U
<1>4. ASSUME NEW r \in 1 .. c + 1,
             NEW i \in DOMAIN command[commits'[r]].operations
      PROVE  \E k \in 1 .. n + m :
               /\ U[k].revision = r
               /\ U[k].index = i
               /\ U[k].ref = command[commits'[r]].operations[i].ref
               /\ U[k].actor = command[commits'[r]].actor
  <2>1. CASE r \in 1 .. c
    <3>1. commits'[r] = commits[r] /\ r \in DOMAIN commits
      BY <1>2, <2>1
    <3>2. PICK k \in 1 .. n :
            /\ row.trail[k].revision = r
            /\ row.trail[k].index = i
            /\ row.trail[k].ref = command[commits[r]].operations[i].ref
            /\ row.trail[k].actor = command[commits[r]].actor
      BY <1>1, <1>2, <3>1 DEF TrailRecordsBatches
    <3>3. U[k] = row.trail[k] /\ k \in 1 .. n + m
      BY <1>1, <3>2
    <3> QED
      BY <3>1, <3>2, <3>3
  <2>2. CASE r = c + 1
    <3>1. i \in 1 .. m /\ n + i \in 1 .. n + m /\ commits'[r] = q
      BY <1>1, <1>2, <2>2
    <3> QED
      BY <1>3, <2>2, <3>1
  <2> QED
    BY <1>2, <2>1, <2>2
<1>5. ASSUME NEW k \in 1 .. n + m
      PROVE  U[k].revision \in 1 .. c + 1
  <2>1. CASE k \in 1 .. n
    <3>1. row.trail[k].revision \in 1 .. c
      BY <1>1, <1>2, <2>1 DEF TrailRecordsBatches
    <3>2. U[k] = row.trail[k]
      BY <1>1, <2>1
    <3>3. 1 .. c \subseteq 1 .. c + 1
      BY <1>2
    <3> QED
      BY <3>1, <3>2, <3>3
  <2>2. CASE k \notin 1 .. n
    <3>1. k - n \in 1 .. m /\ k = n + (k - n)
      BY <1>1, <2>2
    <3>2. U[k].revision = c + 1
      BY <1>3, <3>1
    <3> QED
      BY <1>2, <3>2
  <2> QED
    BY <2>1, <2>2
<1>6. ASSUME NEW r \in DOMAIN commits',
             NEW i \in DOMAIN command'[commits'[r]].operations
      PROVE  \E k \in DOMAIN U :
               /\ U[k].revision = r
               /\ U[k].index = i
               /\ U[k].ref = command'[commits'[r]].operations[i].ref
               /\ U[k].actor = command'[commits'[r]].actor
  <2>1. r \in 1 .. c + 1 /\ command' = command
    BY <1>2
  <2>2. i \in DOMAIN command[commits'[r]].operations
    BY <2>1
  <2>3. PICK k \in 1 .. n + m :
          /\ U[k].revision = r
          /\ U[k].index = i
          /\ U[k].ref = command[commits'[r]].operations[i].ref
          /\ U[k].actor = command[commits'[r]].actor
    BY <1>4, <2>1, <2>2
  <2> QED
    BY <1>1, <2>1, <2>3
<1>7. \A k \in DOMAIN U : U[k].revision \in DOMAIN commits'
  BY <1>1, <1>2, <1>5
<1> QED
  BY <1>6, <1>7 DEF TrailRecordsBatches, U

\* No step loses a recorded batch.
LEMMA NextRecords ==
  ASSUME Inv, [Next]_vars, TrailRecordsBatches
  PROVE  TrailRecordsBatches'
<1>1. CASE UNCHANGED <<row, commits, created>>
  BY <1>1, RowMoves DEF TrailRecordsBatches
<1>2. ASSUME NEW doc \in InitialDocs, InitializeAdminData(doc)
      PROVE  TrailRecordsBatches'
  <2>1. commits' = <<>> /\ row'.trail = <<>>
    BY <1>2 DEF Inv, OutcomeIsKnown, InitializeAdminData
  <2> QED
    BY <2>1 DEF TrailRecordsBatches
<1>3. ASSUME NEW q \in Requests, Commits(q) PROVE TrailRecordsBatches'
  BY <1>3, RecordStep
<1> QED
  BY <1>1, <1>2, <1>3, RowMoves

\* The trail of revision r is the batch of the r-th accepted request.
THEOREM TrailRecords == Spec => []TrailRecordsBatches
<1>1. Init => TrailRecordsBatches
  BY DEF Init, TrailRecordsBatches
<1> QED
  BY <1>1, NextRecords, Invariance, PTL DEF Spec

\* The trail explains every row and is exactly the batches that were stored.
THEOREM TrailComplete == Spec => []TrailIsTheHistory
  BY TrailExplains, TrailRecords, PTL DEF TrailIsTheHistory

-----------------------------------------------------------------------------
(* Refinement. *)

\* With all its interleavings, refusals and losses, the write path is the
\* register of AdminLog.
THEOREM Refinement == Spec => ImplementsLog
<1>1. Init => Log!Init
  BY DEF Init, Log!Init
<1>2. ASSUME Inv, [Next]_vars PROVE [Log!Next]_(Log!vars)
  <2>1. CASE UNCHANGED <<row, commits, created>>
    BY <2>1 DEF Log!vars
  <2>2. ASSUME NEW doc \in InitialDocs, InitializeAdminData(doc)
        PROVE  Log!Next
    BY <2>2 DEF InitializeAdminData, Log!Next, Log!Create
  <2>3. ASSUME NEW q \in Requests, Commits(q)
        PROVE  Log!Next
    <3>1. {commits'[r] : r \in DOMAIN commits'}
            = {commits[r] : r \in DOMAIN commits} \cup {q}
      <4>1. commits \in Seq(Requests) /\ commits' = Append(commits, q)
        BY <1>2, <2>3 DEF Inv, TypeOK, Commits
      <4>2. /\ DOMAIN commits' = DOMAIN commits \cup {Len(commits) + 1}
            /\ commits'[Len(commits) + 1] = q
            /\ \A r \in DOMAIN commits : commits'[r] = commits[r]
        BY <4>1
      <4> QED
        BY <4>2
    <3>2. PICK cmd \in Command : cmd = command[q]
      BY <2>3 DEF Commits
    <3>3. Log!Commit(q, cmd)
      BY <2>3, <3>1, <3>2 DEF Commits, Log!Commit
    <3> QED
      BY <2>3, <3>3 DEF Log!Next
  <2> QED
    BY <1>2, <2>1, <2>2, <2>3, RowMoves
<1> QED
  BY <1>1, <1>2, Invariance, PTL DEF Spec, ImplementsLog, Log!Spec

-----------------------------------------------------------------------------
(* The tabs in front of the write path. *)

\* Whatever tabs do, the server sees requests it might have seen anyway.
LEMMA TabsAreClients ==
  ASSUME TabTypeOK, [TabNext]_allVars
  PROVE  [Next]_vars
<1>1. ASSUME NEW s \in Subjects, NEW q \in Requests, Submit(s, q)
      PROVE  Next
  <2> DEFINE cmd == [expected |-> view[s].revision, actor |-> s,
                     operations |-> form[s].operations]
  <2>1. cmd \in Command
    BY <1>1 DEF Submit, TabTypeOK, Command
  <2>2. Send(q, cmd)
    BY <1>1 DEF Submit
  <2> HIDE DEF cmd
  <2> QED
    BY <2>1, <2>2 DEF Next
<1>2. ASSUME ServerStep PROVE Next
  BY <1>2 DEF ServerStep, Next
<1>3. ASSUME NEW s \in Subjects,
             \/ RequestWorkspace(s) \/ ReceiveWorkspace(s) \/ CloseForm(s)
             \/ \E operations \in Batches : OpenForm(s, operations)
      PROVE  UNCHANGED vars
  BY <1>3 DEF RequestWorkspace, ReceiveWorkspace, CloseForm, OpenForm
<1>4. ASSUME NEW q \in Requests, ReceiveAnswer(q) PROVE UNCHANGED vars
  BY <1>4 DEF ReceiveAnswer
<1>5. CASE UNCHANGED allVars
  BY <1>5 DEF allVars
<1> QED
  BY <1>1, <1>2, <1>3, <1>4, <1>5 DEF TabNext

\* A snapshot the row has been stays one the row has been.
LEMMA StaysStored ==
  ASSUME Inv, [Next]_vars, NEW snapshot \in Snapshot, WasStored(snapshot)
  PROVE  row' # NoRow /\ IsEarlier(snapshot, row')
<1>1. row # NoRow /\ IsEarlier(snapshot, row)
  BY DEF WasStored
<1>2. CASE row' = row
  BY <1>1, <1>2
<1>3. ASSUME NEW q \in Requests, Commits(q)
      PROVE  row' # NoRow /\ IsEarlier(snapshot, row')
  <2> DEFINE n == Len(row.trail)
             k == Len(snapshot.trail)
  <2>1. /\ row' \in Snapshot /\ row' # NoRow
        /\ row'.revision = row.revision + 1 /\ row.revision \in Nat
    BY <1>3, ApplyType, NoRowAssumption DEF Commits, Snapshot
  <2>2. /\ row.trail \in Seq(AuditEntry) /\ row'.trail \in Seq(AuditEntry)
        /\ n \in Nat /\ Len(row'.trail) > n
        /\ SubSeq(row'.trail, 1, n) = row.trail
    <3>1. \A i \in Nat, m \in Nat \ {0} : i + m > i
      OBVIOUS
    <3> QED
      BY <1>3, <3>1, CommittedTrail
  <2>3. /\ snapshot.revision \in Nat /\ snapshot.revision <= row.revision
        /\ snapshot.trail \in Seq(AuditEntry) /\ k \in Nat /\ k <= n
        /\ SubSeq(row.trail, 1, k) = snapshot.trail
    BY <1>1 DEF IsEarlier, Snapshot
  <2>4. SubSeq(row'.trail, 1, k) = SubSeq(row.trail, 1, k)
    <3>1. \A i \in 1 .. n : row.trail[i] = row'.trail[i]
      BY <1>3, CommittedTrail
    <3> HIDE DEF n, k
    <3>2. n = Len(row.trail)
      BY DEF n
    <3> QED
      BY <2>2, <2>3, <3>1, <3>2
  <2>5. snapshot.revision < row'.revision
    BY <2>1, <2>3
  <2>6. k <= Len(row'.trail)
    <3> HIDE DEF n, k
    <3>1. Len(row'.trail) \in Nat
      BY <2>2
    <3> QED
      BY <2>2, <2>3, <3>1
  <2>7. row'.revision \in Nat /\ snapshot.revision # row'.revision
    BY <2>1, <2>3, <2>5
  <2> QED
    BY <2>1, <2>3, <2>4, <2>5, <2>6, <2>7 DEF IsEarlier
<1> QED
  BY <1>1, <1>2, <1>3, RowMoves DEF InitializeAdminData

\* Who is about to hear of a save wrote a snapshot that was stored before, or
\* writes it in this step.
LEMMA SavedWasWritten ==
  ASSUME Inv, [Next]_vars, NEW q \in Requests,
         phase'[q] = "report" \/ answer'[q].code = Saved
  PROVE  /\ next'[q] = next[q]
         /\ \/ phase[q] = "report" \/ answer[q].code = Saved
            \/ phase[q] = "update" /\ row' = next[q]
<1>1. /\ phase \in [Requests -> Phases] /\ answer \in [Requests -> Answer]
      /\ next \in [Requests -> Snapshot \cup {NoRow}]
      /\ phase[q] # "done" => answer[q].code # Saved
  BY Codes DEF Inv, TypeOK, OutcomeIsKnown, NoAnswer
<1>2. CASE UNCHANGED <<phase, next, answer>>
  BY <1>2
<1>3. ASSUME NEW p \in Requests, NEW cmd \in Command, Send(p, cmd)
      PROVE  UNCHANGED <<next, answer>> /\ (phase'[q] = "report" => phase[q] = "report")
  BY <1>1, <1>3 DEF Send
<1>4. ASSUME NEW p \in Requests, Authorize(p)
      PROVE  /\ next' = next
             /\ phase'[q] = "report" => phase[q] = "report"
             /\ answer'[q].code = Saved => answer[q].code = Saved
  BY <1>1, <1>4, Codes DEF Authorize, Finish, Refusals
<1>5. ASSUME NEW p \in Requests, LoadAndApply(p)
      PROVE  /\ next'[q] = next[q]
             /\ phase'[q] = "report" => phase[q] = "report"
             /\ answer'[q].code = Saved => answer[q].code = Saved
  <2>1. BatchError(row, command[p]) \in BatchErrors \cup {OK}
          \/ Accepts(row, command[p])
    BY ErrorType
  <2>2. Saved \notin BatchErrors \cup {OK, DataNotFound}
    BY Codes DEF Refusals
  <2>3. phase'[q] = "report" => phase[q] = "report"
    BY <1>1, <1>5 DEF LoadAndApply, Finish
  <2>4. answer'[q].code = Saved => answer[q].code = Saved
    BY <1>1, <1>5, <2>1, <2>2 DEF LoadAndApply, Finish
  <2>5. p = q => phase'[q] # "report" /\ answer'[q].code # Saved
    BY <1>1, <1>5, <2>1, <2>2 DEF LoadAndApply, Finish
  <2>6. p # q => next'[q] = next[q]
    BY <1>1, <1>5 DEF LoadAndApply
  <2> QED
    BY <2>3, <2>4, <2>5, <2>6
<1>6. ASSUME NEW p \in Requests, Update(p)
      PROVE  /\ UNCHANGED <<next, answer>>
             /\ phase'[q] = "report" =>
                  \/ phase[q] = "report"
                  \/ phase[q] = "update" /\ row' = next[q]
  BY <1>1, <1>6 DEF Update
<1>7. ASSUME NEW p \in Requests, ReadRevision(p)
      PROVE  /\ next' = next
             /\ phase'[q] = "report" => phase[q] = "report"
             /\ answer'[q].code = Saved => answer[q].code = Saved
  BY <1>1, <1>7, Codes DEF ReadRevision, Finish
<1>8. ASSUME NEW p \in Requests, Report(p)
      PROVE  /\ next' = next
             /\ phase'[q] = "report" => phase[q] = "report"
             /\ answer'[q].code = Saved =>
                  answer[q].code = Saved \/ phase[q] = "report"
  BY <1>1, <1>8 DEF Report, Finish
<1>9. ASSUME NEW p \in Requests, Lose(p)
      PROVE  /\ next' = next
             /\ phase'[q] = "report" => phase[q] = "report"
             /\ answer'[q].code = Saved => answer[q].code = Saved
  BY <1>1, <1>9, Codes DEF Lose, Finish
<1>10. ASSUME NEW doc \in InitialDocs, InitializeAdminData(doc)
       PROVE  UNCHANGED <<phase, next, answer>>
  BY <1>10 DEF InitializeAdminData
<1>11. ASSUME NEW s \in Subjects, NEW active \in BOOLEAN, SaveGrant(s, active)
       PROVE  UNCHANGED <<phase, next, answer>>
  BY <1>11 DEF SaveGrant
<1>12. CASE UNCHANGED vars
  BY <1>2, <1>12 DEF vars
<1> QED
  BY <1>2, <1>3, <1>4, <1>5, <1>6, <1>7, <1>8, <1>9, <1>10, <1>11, <1>12
     DEF Next, Step

\* What was stored for the tabs stays stored, saves included.
LEMMA ServerKeepsViews ==
  ASSUME TabInv, [Next]_vars, UNCHANGED <<view, fetched, form, basis>>,
         \A q \in Requests : phase'[q] # "idle" => phase[q] # "idle"
  PROVE  /\ ViewsWereStored'
         /\ \A q \in Requests : answer'[q].code = Saved => next'[q] \in Snapshot
<1>1. \A snapshot \in Snapshot :
        WasStored(snapshot) => row' # NoRow /\ IsEarlier(snapshot, row')
  BY StaysStored DEF TabInv
<1>2. ASSUME NEW s \in Subjects
      PROVE  /\ view'[s] # NoRow => row' # NoRow /\ IsEarlier(view'[s], row')
             /\ fetched'[s] # NoRow =>
                  row' # NoRow /\ IsEarlier(fetched'[s], row')
             /\ form'[s].open => row' # NoRow /\ IsEarlier(form'[s].basis, row')
  BY <1>1 DEF TabInv, TabTypeOK, TabsTellTheTruth, ViewsWereStored
<1>3. ASSUME NEW q \in Requests, phase'[q] # "idle"
      PROVE  row' # NoRow /\ IsEarlier(basis'[q], row')
  BY <1>1, <1>3 DEF TabInv, TabTypeOK, TabsTellTheTruth, ViewsWereStored
<1>4. ASSUME NEW q \in Requests,
             phase'[q] = "report" \/ answer'[q].code = Saved
      PROVE  /\ row' # NoRow /\ IsEarlier(next'[q], row')
             /\ next'[q] \in Snapshot
  <2>1. /\ next'[q] = next[q]
        /\ \/ phase[q] = "report" \/ answer[q].code = Saved
           \/ phase[q] = "update" /\ row' = next[q]
    BY <1>4, SavedWasWritten DEF TabInv
  <2>2. CASE phase[q] = "report" \/ answer[q].code = Saved
    <3>1. next[q] \in Snapshot /\ WasStored(next[q])
      BY <2>2 DEF TabInv, Inv, TypeOK, TabTypeOK, TabsTellTheTruth,
         ViewsWereStored
    <3> QED
      BY <1>1, <2>1, <3>1
  <2>3. CASE phase[q] = "update" /\ row' = next[q]
    <3>1. next[q] \in Snapshot
      BY <2>3 DEF TabInv, Inv, TypeOK
    <3>2. /\ row' \in Snapshot /\ row'.revision \in Nat
          /\ row'.trail \in Seq(AuditEntry)
      BY <2>3, <3>1 DEF Snapshot
    <3>3. /\ Len(row'.trail) \in Nat
          /\ SubSeq(row'.trail, 1, Len(row'.trail)) = row'.trail
      BY <3>2
    <3> QED
      BY <2>1, <2>3, <3>1, <3>2, <3>3, NoRowAssumption DEF IsEarlier
  <2> QED
    BY <2>1, <2>2, <2>3
<1> QED
  BY <1>2, <1>3, <1>4 DEF ViewsWereStored, WasStored

\* A commit made from the workspace its form was filled from replaces what
\* that workspace showed.
LEMMA HonestCommit ==
  ASSUME TabInv, NEW p \in Requests, Commits(p), basis' = basis
  PROVE  PreviewIsHonest'
<1> DEFINE n == Len(row.trail)
           m == Len(command[p].operations)
           c == Len(commits)
<1>1. /\ n \in Nat /\ m \in Nat
      /\ DOMAIN row.trail = 1 .. n /\ DOMAIN row'.trail = 1 .. n + m
      /\ \A k \in 1 .. n : row'.trail[k] = row.trail[k]
      /\ \A i \in 1 .. m : row'.trail[n + i] = AuditOf(row, command[p], i)
  <2>1. row.trail \in Seq(AuditEntry) /\ row'.trail \in Seq(AuditEntry)
    BY CommittedTrail
  <2>2. n \in Nat /\ m \in Nat /\ Len(row'.trail) = n + m
    BY CommittedTrail
  <2>3. /\ \A k \in 1 .. n : row'.trail[k] = row.trail[k]
        /\ \A i \in 1 .. m : row'.trail[n + i] = AuditOf(row, command[p], i)
    BY CommittedTrail
  <2>4. Len(row.trail) = n
    OBVIOUS
  <2> HIDE DEF n, m
  <2> QED
    BY <2>1, <2>2, <2>3, <2>4
<1>2. /\ row # NoRow /\ row.revision = c /\ c \in Nat
      /\ command' = command /\ command[p].expected = c
      /\ DOMAIN commits = 1 .. c /\ DOMAIN commits' = 1 .. c + 1
      /\ commits'[c + 1] = p
      /\ \A r \in 1 .. c : commits'[r] = commits[r]
      /\ \A r \in 1 .. c : commits[r] # p
  <2>1. commits \in Seq(Requests) /\ commits' = Append(commits, p)
    BY DEF TabInv, Inv, TypeOK, Commits
  <2>2. /\ row # NoRow /\ row.revision = Len(commits) /\ command' = command
        /\ command[p].expected = row.revision
        /\ \A r \in DOMAIN commits : commits[r] # p
    BY DEF TabInv, Inv, CommitsAreRevisions, Commits, Accepts
  <2> QED
    BY <2>1, <2>2
<1>3. basis[p].revision = c => basis[p] = row
  BY <1>2 DEF TabInv, TabsTellTheTruth, ViewsWereStored, WasStored, IsEarlier,
     Commits
<1>4. \A k \in 1 .. n : row.trail[k].revision \in 1 .. c
  BY <1>1, <1>2 DEF TabInv, TrailRecordsBatches
<1> HIDE DEF n, m, c
<1>5. ASSUME NEW k \in 1 .. n + m,
             LET q == commits'[row'.trail[k].revision] IN
             basis[q].revision = command[q].expected
      PROVE  LET q == commits'[row'.trail[k].revision] IN
             row'.trail[k].before = basis[q].doc[row'.trail[k].ref]
  <2>1. CASE k \in 1 .. n
    <3> DEFINE r == row.trail[k].revision
               q == commits[r]
    <3>1. r \in DOMAIN commits /\ commits'[r] = q /\ row'.trail[k] = row.trail[k]
      BY <1>1, <1>2, <1>4, <2>1
    <3>2. row.trail[k] \in EntriesOf(q)
      BY <1>1, <2>1 DEF EntriesOf
    <3>3. basis[q].revision = command[q].expected
      BY <1>5, <3>1
    <3>4. row.trail[k].before = basis[q].doc[row.trail[k].ref]
      BY <3>1, <3>2, <3>3 DEF TabInv, TabsTellTheTruth, PreviewIsHonest
    <3> QED
      BY <3>1, <3>4
  <2>2. CASE k \notin 1 .. n
    <3>1. k - n \in 1 .. m /\ k = n + (k - n)
      BY <1>1, <2>2
    <3>2. row'.trail[k] = AuditOf(row, command[p], k - n)
      BY <1>1, <3>1
    <3>3. /\ row'.trail[k].revision = c + 1
          /\ row'.trail[k].before = row.doc[row'.trail[k].ref]
      BY <1>2, <3>2 DEF AuditOf
    <3>4. commits'[row'.trail[k].revision] = p
      BY <1>2, <3>3
    <3> QED
      BY <1>2, <1>3, <1>5, <3>3, <3>4
  <2> QED
    BY <2>1, <2>2
<1>6. ASSUME NEW r \in DOMAIN commits',
             basis'[commits'[r]].revision = command'[commits'[r]].expected,
             NEW k \in DOMAIN row'.trail,
             commits'[row'.trail[k].revision] = commits'[r]
      PROVE  row'.trail[k].before = basis'[commits'[r]].doc[row'.trail[k].ref]
  <2>1. k \in 1 .. n + m /\ basis' = basis /\ command' = command
    BY <1>1, <1>2
  <2>2. LET q == commits'[row'.trail[k].revision] IN
        basis[q].revision = command[q].expected
    BY <1>6, <2>1
  <2>3. LET q == commits'[row'.trail[k].revision] IN
        row'.trail[k].before = basis[q].doc[row'.trail[k].ref]
    BY <1>5, <2>1, <2>2
  <2> QED
    BY <1>6, <2>1, <2>3
<1> QED
  BY <1>6 DEF PreviewIsHonest, EntriesOf

\* What nobody commits leaves every honest preview honest.
LEMMA HonestMeanwhile ==
  ASSUME PreviewIsHonest, UNCHANGED <<row, commits>>,
         \A r \in DOMAIN commits :
           /\ command'[commits[r]] = command[commits[r]]
           /\ basis'[commits[r]] = basis[commits[r]]
  PROVE  PreviewIsHonest'
  BY DEF PreviewIsHonest, EntriesOf

\* A step of the server.
LEMMA ServerStepKeeps ==
  ASSUME TabInv, Inv', TrailRecordsBatches', [Next]_vars, UNCHANGED tabVars,
         \A q \in Requests : phase'[q] # "idle" => phase[q] # "idle"
  PROVE  TabInv'
<1>1. UNCHANGED <<view, fetched, form, heard, basis>>
  BY DEF tabVars
<1>2. /\ ViewsWereStored'
      /\ \A q \in Requests : answer'[q].code = Saved => next'[q] \in Snapshot
  BY <1>1, ServerKeepsViews
<1>3. TabTypeOK'
  BY <1>1, <1>2 DEF TabInv, TabTypeOK
<1>4. PreviewIsHonest'
  <2>1. CASE UNCHANGED <<row, commits, created>>
    BY <1>1, <2>1, HonestMeanwhile, RowMoves
       DEF TabInv, TabsTellTheTruth
  <2>2. ASSUME NEW doc \in InitialDocs, InitializeAdminData(doc)
        PROVE  PreviewIsHonest'
    <3>1. commits' = <<>>
      BY <2>2 DEF TabInv, Inv, OutcomeIsKnown, InitializeAdminData
    <3> QED
      BY <3>1 DEF PreviewIsHonest
  <2>3. ASSUME NEW q \in Requests, Commits(q) PROVE PreviewIsHonest'
    BY <1>1, <2>3, HonestCommit
  <2> QED
    BY <2>1, <2>2, <2>3, RowMoves DEF TabInv
<1> QED
  BY <1>2, <1>3, <1>4 DEF TabInv, TabsTellTheTruth

\* A tab sends its form: the workspace it was filled from was stored.
LEMMA SubmitKeeps ==
  ASSUME TabInv, Inv', TrailRecordsBatches', NEW s \in Subjects,
         NEW q \in Requests, Submit(s, q), [Next]_vars
  PROVE  TabInv'
<1>1. /\ phase[q] = "idle" /\ phase' = [phase EXCEPT ![q] = "authorize"]
      /\ UNCHANGED <<row, grants, next, answer, commits, created>>
      /\ UNCHANGED <<view, fetched, form, heard>>
      /\ basis' = [basis EXCEPT ![q] = form[s].basis]
      /\ form[s].open
  BY DEF Submit, Send
<1>2. /\ phase \in [Requests -> Phases]
      /\ basis \in [Requests -> Snapshot \cup {NoRow}]
      /\ form[s].basis \in Snapshot /\ WasStored(form[s].basis)
      /\ answer[q].code # Saved
  BY <1>1, Codes DEF TabInv, TabTypeOK, Inv, TypeOK, OutcomeIsKnown, NoAnswer,
     TabsTellTheTruth, ViewsWereStored
<1>3. TabTypeOK'
  BY <1>1, <1>2 DEF TabInv, TabTypeOK
<1>4. ViewsWereStored'
  <2>1. \A p \in Requests : phase'[p] # "idle" => WasStored(basis'[p])
    BY <1>1, <1>2 DEF TabInv, TabsTellTheTruth, ViewsWereStored
  <2>2. \A p \in Requests :
          phase'[p] = "report" \/ answer'[p].code = Saved => WasStored(next'[p])
    BY <1>1, <1>2 DEF TabInv, TabsTellTheTruth, ViewsWereStored
  <2> QED
    BY <1>1, <2>1, <2>2
       DEF TabInv, TabsTellTheTruth, ViewsWereStored, WasStored
<1>5. PreviewIsHonest'
  <2>1. \A r \in DOMAIN commits : commits[r] # q
    BY <1>1 DEF TabInv, Inv, OutcomeIsKnown
  <2>2. \A r \in DOMAIN commits :
          /\ command'[commits[r]] = command[commits[r]]
          /\ basis'[commits[r]] = basis[commits[r]]
    BY <1>1, <1>2, <2>1, RowMoves DEF TabInv, Inv, TypeOK
  <2> QED
    BY <1>1, <2>2, HonestMeanwhile DEF TabInv, TabsTellTheTruth
<1> QED
  BY <1>3, <1>4, <1>5 DEF TabInv, TabsTellTheTruth

\* What a tab does by itself, with rows it has or is sent.
LEMMA TabAloneKeeps ==
  ASSUME TabInv, Inv', TrailRecordsBatches', UNCHANGED <<vars, basis>>,
         NEW s \in Subjects, heard' \subseteq Requests,
         /\ view' \in [Subjects -> Snapshot \cup {NoRow}]
         /\ fetched' \in [Subjects -> Snapshot \cup {NoRow}]
         /\ form' \in [Subjects ->
              [open : BOOLEAN, basis : Snapshot \cup {NoRow},
               operations : Batches \cup {<<>>}]],
         \A t \in Subjects \ {s} :
           /\ view'[t] = view[t] /\ fetched'[t] = fetched[t]
           /\ form'[t] = form[t],
         view'[s] # NoRow => WasStored(view'[s]),
         fetched'[s] # NoRow => WasStored(fetched'[s]),
         form'[s].open => /\ form'[s].basis \in Snapshot
                          /\ WasStored(form'[s].basis)
                          /\ form'[s].operations \in Batches
  PROVE  TabInv'
<1>1. UNCHANGED <<row, grants, phase, command, next, answer, commits, created>>
  BY DEF vars
<1>2. TabTypeOK'
  BY <1>1 DEF TabInv, TabTypeOK
<1>3. ViewsWereStored'
  <2>1. \A t \in Subjects :
          /\ view'[t] # NoRow => WasStored(view'[t])
          /\ fetched'[t] # NoRow => WasStored(fetched'[t])
          /\ form'[t].open => WasStored(form'[t].basis)
    BY DEF TabInv, TabsTellTheTruth, ViewsWereStored
  <2> QED
    BY <1>1, <2>1 DEF TabInv, TabsTellTheTruth, ViewsWereStored, WasStored
<1>4. PreviewIsHonest'
  BY <1>1, HonestMeanwhile DEF TabInv, TabsTellTheTruth
<1> QED
  BY <1>2, <1>3, <1>4 DEF TabInv, TabsTellTheTruth

LEMMA InitTabs == TabInit => TabInv
<1> SUFFICES ASSUME TabInit PROVE TabInv
  OBVIOUS
<1>1. Inv /\ row = NoRow /\ commits = <<>>
      /\ phase = [q \in Requests |-> "idle"]
      /\ answer = [q \in Requests |-> NoAnswer]
  BY InitInv DEF TabInit, Init
<1>2. TrailRecordsBatches
  BY <1>1 DEF TrailRecordsBatches
<1>3. \A q \in Requests : phase[q] = "idle" /\ answer[q].code # Saved
  BY <1>1, Codes DEF NoAnswer
<1>4. TabTypeOK
  BY <1>3 DEF TabInit, TabTypeOK, NoForm
<1>5. TabsTellTheTruth
  BY <1>1, <1>3 DEF TabInit, TabsTellTheTruth, ViewsWereStored, PreviewIsHonest,
     NoForm
<1> QED
  BY <1>1, <1>2, <1>4, <1>5 DEF TabInv

\* One step per action of the tabs.
LEMMA TabStep ==
  ASSUME TabInv, [TabNext]_allVars
  PROVE  TabInv'
<1>1. [Next]_vars /\ Inv' /\ TrailRecordsBatches'
  BY TabsAreClients, NextInv, NextRecords DEF TabInv
<1>2. CASE ServerStep
  <2>1. \A q \in Requests : phase'[q] # "idle" => phase[q] # "idle"
    BY <1>2 DEF TabInv, Inv, TypeOK, ServerStep, InitializeAdminData, Step,
       Authorize, LoadAndApply, Update, ReadRevision, Report, Lose, Finish,
       InServer
  <2> QED
    BY <1>1, <1>2, <2>1, ServerStepKeeps DEF ServerStep
<1>3. ASSUME NEW s \in Subjects, NEW q \in Requests, Submit(s, q)
      PROVE  TabInv'
  BY <1>1, <1>3, SubmitKeeps
<1>4. /\ row # NoRow => row \in Snapshot /\ WasStored(row)
      /\ view \in [Subjects -> Snapshot \cup {NoRow}]
      /\ fetched \in [Subjects -> Snapshot \cup {NoRow}]
      /\ form \in [Subjects ->
           [open : BOOLEAN, basis : Snapshot \cup {NoRow},
            operations : Batches \cup {<<>>}]]
      /\ heard \subseteq Requests
      /\ \A s \in Subjects :
           /\ view[s] # NoRow => WasStored(view[s])
           /\ fetched[s] # NoRow => WasStored(fetched[s])
           /\ form[s].open => /\ form[s].basis \in Snapshot
                              /\ WasStored(form[s].basis)
                              /\ form[s].operations \in Batches
  <2>1. ASSUME row # NoRow PROVE row \in Snapshot /\ WasStored(row)
    <3>1. row \in Snapshot /\ row.revision \in Nat /\ row.trail \in Seq(AuditEntry)
      BY <2>1 DEF TabInv, Inv, TypeOK, Snapshot
    <3>2. Len(row.trail) \in Nat /\ SubSeq(row.trail, 1, Len(row.trail)) = row.trail
      BY <3>1
    <3> QED
      BY <2>1, <3>1, <3>2 DEF WasStored, IsEarlier
  <2> QED
    BY <2>1 DEF TabInv, TabTypeOK, TabsTellTheTruth, ViewsWereStored
<1>5. ASSUME NEW s \in Subjects, RequestWorkspace(s) PROVE TabInv'
  <2>1. /\ UNCHANGED <<vars, basis, view, form, heard>> /\ row # NoRow
        /\ fetched' = [fetched EXCEPT ![s] = row]
    BY <1>5 DEF RequestWorkspace
  <2>2. fetched' \in [Subjects -> Snapshot \cup {NoRow}] /\ fetched'[s] = row
    BY <1>4, <2>1
  <2> QED
    BY <1>1, <1>4, <2>1, <2>2, TabAloneKeeps
<1>6. ASSUME NEW s \in Subjects, ReceiveWorkspace(s) PROVE TabInv'
  <2>1. /\ UNCHANGED <<vars, basis, form, heard>>
        /\ view' = [view EXCEPT ![s] = fetched[s]]
        /\ fetched' = [fetched EXCEPT ![s] = NoRow]
    BY <1>6 DEF ReceiveWorkspace
  <2>2. /\ view' \in [Subjects -> Snapshot \cup {NoRow}]
        /\ fetched' \in [Subjects -> Snapshot \cup {NoRow}]
        /\ view'[s] = fetched[s] /\ fetched'[s] = NoRow
    BY <1>4, <2>1
  <2> QED
    BY <1>1, <1>4, <2>1, <2>2, TabAloneKeeps
<1>7. ASSUME NEW s \in Subjects, NEW operations \in Batches,
             OpenForm(s, operations)
      PROVE  TabInv'
  <2> DEFINE opened == [open |-> TRUE, basis |-> view[s],
                        operations |-> operations]
  <2>1. /\ UNCHANGED <<vars, basis, view, fetched, heard>> /\ view[s] # NoRow
        /\ form' = [form EXCEPT ![s] = opened]
    BY <1>7 DEF OpenForm
  <2>2. /\ form' \in [Subjects ->
              [open : BOOLEAN, basis : Snapshot \cup {NoRow},
               operations : Batches \cup {<<>>}]]
        /\ form'[s] = opened
    BY <1>4, <2>1
  <2> QED
    BY <1>1, <1>4, <2>1, <2>2, TabAloneKeeps
<1>8. ASSUME NEW s \in Subjects, CloseForm(s) PROVE TabInv'
  <2>1. /\ UNCHANGED <<vars, basis, view, fetched, heard>>
        /\ form' = [form EXCEPT ![s] = NoForm]
    BY <1>8 DEF CloseForm
  <2>2. /\ form' \in [Subjects ->
              [open : BOOLEAN, basis : Snapshot \cup {NoRow},
               operations : Batches \cup {<<>>}]]
        /\ form'[s] = NoForm /\ ~ NoForm.open
    BY <1>4, <2>1 DEF NoForm
  <2> QED
    BY <1>1, <1>4, <2>1, <2>2, TabAloneKeeps
<1>9. ASSUME NEW q \in Requests, ReceiveAnswer(q) PROVE TabInv'
  <2> DEFINE s == command[q].actor
  <2>1. /\ s \in Subjects /\ UNCHANGED <<vars, basis, fetched>>
        /\ heard' = heard \cup {q}
    BY <1>9 DEF ReceiveAnswer, TabInv, Inv, TypeOK, Command
  <2>2. CASE answer[q].code = Saved
    <3>1. /\ view' = [view EXCEPT ![s] = next[q]]
          /\ form' = [form EXCEPT ![s] = NoForm]
      BY <1>9, <2>2 DEF ReceiveAnswer
    <3>2. next[q] \in Snapshot /\ WasStored(next[q])
      BY <2>2 DEF TabInv, TabTypeOK, TabsTellTheTruth, ViewsWereStored
    <3> HIDE DEF s
    <3>3. /\ form' \in [Subjects ->
                [open : BOOLEAN, basis : Snapshot \cup {NoRow},
                 operations : Batches \cup {<<>>}]]
          /\ form'[s] = NoForm /\ ~ NoForm.open
      BY <1>4, <2>1, <3>1 DEF NoForm
    <3>4. /\ view' \in [Subjects -> Snapshot \cup {NoRow}]
          /\ view'[s] = next[q] /\ heard' \subseteq Requests
      BY <1>4, <2>1, <3>1, <3>2
    <3> QED
      BY <1>1, <1>4, <2>1, <3>1, <3>2, <3>3, <3>4, TabAloneKeeps
  <2>3. CASE answer[q].code # Saved
    <3>1. UNCHANGED <<view, form>>
      BY <1>9, <2>3 DEF ReceiveAnswer
    <3> HIDE DEF s
    <3>2. heard' \subseteq Requests
      BY <1>4, <2>1
    <3> QED
      BY <1>1, <1>4, <2>1, <3>1, <3>2, TabAloneKeeps
  <2> QED
    BY <2>2, <2>3
<1>10. CASE UNCHANGED allVars
  <2>1. UNCHANGED tabVars /\ UNCHANGED vars
    BY <1>10 DEF allVars
  <2>2. \A q \in Requests : phase'[q] # "idle" => phase[q] # "idle"
    BY <2>1 DEF vars
  <2> QED
    BY <1>1, <2>1, <2>2, ServerStepKeeps
<1> QED
  BY <1>2, <1>3, <1>5, <1>6, <1>7, <1>8, <1>9, <1>10 DEF TabNext

\* The tabs' invariant holds in every reachable state.
THEOREM TabInvariance == TabSpec => []TabInv
  BY InitTabs, TabStep, PTL DEF TabSpec

\* Tabs in any number, loading, submitting twice and hearing late, are to the
\* server the clients it was proved against: all of the above holds for them.
THEOREM TabsRefine == TabSpec => Spec
<1>1. TabInit => Init
  BY DEF TabInit
<1>2. TabInv /\ [TabNext]_allVars => [Next]_vars
  BY TabsAreClients DEF TabInv
<1> QED
  BY <1>1, <1>2, TabInvariance, PTL DEF TabSpec, Spec

\* Tabs show what was stored, and what is saved from what they show replaces
\* just what they showed.
THEOREM TruthfulTabs == TabSpec => []TabsTellTheTruth
  BY TabInvariance, PTL DEF TabInv
=============================================================================
