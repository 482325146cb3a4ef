---------------------------- MODULE AdminBatchProofs --------------------------
(***************************************************************************)
(* What one batch does to one snapshot, for any batch and any snapshot:    *)
(* the lemmas that the proofs about the write path and the proofs about    *)
(* the workspace have in common.                                           *)
(***************************************************************************)
EXTENDS AdminBatch, SequenceTheorems, TLAPS

-----------------------------------------------------------------------------
(* Sequences. *)

\* The elements of a concatenation, first the old ones, then the new.
LEMMA ConcatElements ==
  ASSUME NEW S, NEW s \in Seq(S), NEW t \in Seq(S)
  PROVE  /\ s \o t \in Seq(S)
         /\ Len(s) \in Nat /\ Len(t) \in Nat
         /\ Len(s \o t) = Len(s) + Len(t)
         /\ \A k \in 1 .. Len(s) : (s \o t)[k] = s[k]
         /\ \A i \in 1 .. Len(t) : (s \o t)[Len(s) + i] = t[i]
         /\ SubSeq(s \o t, 1, Len(s)) = s
<1>1. Len(s) \in Nat /\ Len(t) \in Nat
  OBVIOUS
<1>2. /\ s \o t \in Seq(S)
      /\ Len(s \o t) = Len(s) + Len(t)
      /\ \A i \in 1 .. Len(s) + Len(t) :
           (s \o t)[i] = IF i <= Len(s) THEN s[i] ELSE t[i - Len(s)]
  BY ConcatProperties
<1>3. ASSUME NEW i \in 1 .. Len(t)
      PROVE  (s \o t)[Len(s) + i] = t[i]
  <2>1. /\ Len(s) + i \in 1 .. Len(s) + Len(t)
        /\ ~ (Len(s) + i <= Len(s))
        /\ (Len(s) + i) - Len(s) = i
    BY <1>1
  <2> QED
    BY <1>2, <2>1
<1>4. ASSUME NEW k \in 1 .. Len(s)
      PROVE  (s \o t)[k] = s[k]
  BY <1>1, <1>2
<1>5. SubSeq(s \o t, 1, Len(s)) = s
  <2>1. \A k \in 1 .. Len(s) : (s \o t)[k] \in S
    BY <1>1, <1>4
  <2>2. /\ SubSeq(s \o t, 1, Len(s)) \in Seq(S)
        /\ Len(SubSeq(s \o t, 1, Len(s))) = Len(s)
        /\ \A k \in 1 .. Len(s) : SubSeq(s \o t, 1, Len(s))[k] = s[k]
    <3> DEFINE u == s \o t
               n == Len(s)
    <3>1. n \in Nat /\ 1 \in Int /\ n \in Int
      BY <1>1
    <3>2. \A k \in 1 .. n : u[k] \in S /\ u[k] = s[k]
      BY <1>4, <2>1
    <3> HIDE DEF u, n
    <3>3. /\ SubSeq(u, 1, n) \in Seq(S)
          /\ Len(SubSeq(u, 1, n)) = IF 1 <= n THEN n - 1 + 1 ELSE 0
          /\ \A k \in 1 .. n - 1 + 1 : SubSeq(u, 1, n)[k] = u[1 + k - 1]
      BY <3>1, <3>2, SubSeqProperties
    <3>4. \A k \in 1 .. n : k \in 1 .. n - 1 + 1 /\ 1 + k - 1 = k
      BY <3>1
    <3>5. /\ SubSeq(u, 1, n) \in Seq(S)
          /\ Len(SubSeq(u, 1, n)) = n
          /\ \A k \in 1 .. n : SubSeq(u, 1, n)[k] = s[k]
      BY <3>1, <3>2, <3>3, <3>4
    <3> QED
      BY <3>5 DEF u, n
  <2> QED
    BY <2>2, SeqEqual
<1> QED
  BY <1>1, <1>2, <1>3, <1>4, <1>5

-----------------------------------------------------------------------------
(* The outcome is a snapshot. *)

\* No operation of an accepted batch writes outside the company's rows.
LEMMA AcceptedOperations ==
  ASSUME NEW doc \in Docs, NEW operations \in Seq(Operation),
         FailingOperations(doc, operations) = {},
         NEW i \in DOMAIN operations
  PROVE  /\ operations[i] \in Operation
         /\ operations[i].ref \in Refs
<1>1. OperationError(doc, operations, i) = OK
  BY DEF FailingOperations
<1>2. operations[i] \in Operation
  OBVIOUS
<1> QED
  BY <1>1, <1>2 DEF OperationError, OK, InvalidOperation, DuplicateOperation,
     DeleteTargetNotFound, InvalidData

\* The content a batch leaves is a content.
LEMMA NextDocType ==
  ASSUME NEW doc \in Docs, NEW operations \in Seq(Operation),
         FailingOperations(doc, operations) = {}
  PROVE  NextDoc(doc, operations) \in Docs
<1>1. ASSUME NEW ref \in Refs
      PROVE  \/ NextDoc(doc, operations)[ref] = Absent
             \/ /\ NextDoc(doc, operations)[ref] \in ValuesOf(ref[1])
                /\ NextDoc(doc, operations)[ref] \in Values
  <2>1. CASE Target(operations, ref) = {}
    BY <2>1 DEF NextDoc, Docs
  <2>2. CASE Target(operations, ref) # {}
    <3> DEFINE i == CHOOSE j \in Target(operations, ref) : TRUE
    <3>1. i \in DOMAIN operations /\ operations[i].ref = ref
      BY <2>2 DEF Target
    <3>2. operations[i] \in Operation
      BY <3>1
    <3>3. NextDoc(doc, operations)[ref] = operations[i].value
      BY <2>2 DEF NextDoc
    <3>4. \/ operations[i].value = Absent
          \/ /\ operations[i].value \in ValuesOf(ref[1])
             /\ operations[i].value \in Values \cup {Absent}
      BY <3>1, <3>2 DEF Operation
    <3> QED
      BY <3>3, <3>4
  <2> QED
    BY <2>1, <2>2
<1>2. NextDoc(doc, operations) \in [Refs -> Values \cup {Absent}]
  BY <1>1 DEF NextDoc
<1> QED
  BY <1>1, <1>2 DEF Docs

\* The audit entry of an operation is an entry.
LEMMA AuditType ==
  ASSUME NEW snapshot \in Snapshot, NEW cmd \in Command,
         FailingOperations(snapshot.doc, cmd.operations) = {},
         NEW i \in DOMAIN cmd.operations
  PROVE  AuditOf(snapshot, cmd, i) \in AuditEntry
<1> DEFINE op == cmd.operations[i]
<1>1. snapshot.doc \in Docs /\ snapshot.revision \in Nat
  BY DEF Snapshot
<1>2. cmd.operations \in Seq(Operation) /\ cmd.actor \in Subjects
  BY BatchesAssumption DEF Command
<1>3. op \in Operation /\ op.ref \in Refs
  BY <1>1, <1>2, AcceptedOperations
<1>4. i \in Nat
  BY <1>2
<1>5. /\ op.sources \in SUBSET Sources
      /\ op.value \in Values \cup {Absent}
  BY <1>3 DEF Operation
<1>6. snapshot.doc[op.ref] \in Values \cup {Absent}
  BY <1>1, <1>3 DEF Docs
<1> QED
  BY <1>1, <1>2, <1>3, <1>4, <1>5, <1>6 DEF AuditOf, AuditEntry

\* What applyAdminBatch returns is a snapshot of the next revision, with the
\* old trail at the head of the new one.
LEMMA ApplyType ==
  ASSUME NEW snapshot \in Snapshot, NEW cmd \in Command,
         Accepts(snapshot, cmd)
  PROVE  /\ ApplyAdminBatch(snapshot, cmd) \in Snapshot
         /\ ApplyAdminBatch(snapshot, cmd).revision = snapshot.revision + 1
<1>1. /\ snapshot.doc \in Docs /\ snapshot.revision \in Nat
      /\ snapshot.trail \in Seq(AuditEntry)
  BY DEF Snapshot
<1>2. cmd.operations \in Seq(Operation)
  BY BatchesAssumption DEF Command
<1>3. FailingOperations(snapshot.doc, cmd.operations) = {}
  BY DEF Accepts
<1>4. NextDoc(snapshot.doc, cmd.operations) \in Docs
  BY <1>1, <1>2, <1>3, NextDocType
<1>5. StagedAudits(snapshot, cmd) \in Seq(AuditEntry)
  <2>1. \A i \in 1 .. Len(cmd.operations) :
          AuditOf(snapshot, cmd, i) \in AuditEntry
    BY <1>2, <1>3, AuditType
  <2>2. Len(cmd.operations) \in Nat
    BY <1>2
  <2> QED
    BY <2>1, <2>2 DEF StagedAudits
<1>6. snapshot.trail \o StagedAudits(snapshot, cmd) \in Seq(AuditEntry)
  BY <1>1, <1>5
<1> QED
  BY <1>1, <1>4, <1>6 DEF ApplyAdminBatch, Snapshot

\* What a refused batch is refused for is a refusal, and a conflict is one.
LEMMA ErrorType ==
  ASSUME NEW snapshot, NEW cmd, ~ Accepts(snapshot, cmd)
  PROVE  /\ BatchError(snapshot, cmd) \in BatchErrors \cup {OK}
         /\ BatchError(snapshot, cmd) = RevisionConflict =>
              cmd.expected # snapshot.revision
<1>1. BatchError(snapshot, cmd) \in BatchErrors \cup {OK}
  BY DEF BatchError, OperationError, BatchErrors
<1>2. BatchError(snapshot, cmd) = RevisionConflict =>
        cmd.expected # snapshot.revision
  BY DEF BatchError, OperationError, OK, RevisionConflict, InvalidOperation,
     DuplicateOperation, DeleteTargetNotFound, InvalidData
<1> QED
  BY <1>1, <1>2

-----------------------------------------------------------------------------
(* The outcome, row by row. *)

\* Of an accepted batch no two operations have the same target.
LEMMA OneOperationPerRow ==
  ASSUME NEW doc, NEW operations,
         NEW m \in Nat, DOMAIN operations = 1 .. m,
         FailingOperations(doc, operations) = {},
         NEW i \in 1 .. m, NEW j \in 1 .. m,
         operations[i].ref = operations[j].ref
  PROVE  i = j
<1>1. \A k \in 1 .. m : OperationError(doc, operations, k) = OK
  BY DEF FailingOperations
<1>2. \A k \in 1 .. m : \A l \in 1 .. k - 1 :
        operations[l].ref # operations[k].ref
  BY <1>1 DEF OperationError, OK, InvalidOperation, DuplicateOperation,
     InvalidData
<1>3. CASE i < j
  BY <1>2, <1>3
<1>4. CASE j < i
  BY <1>2, <1>4
<1> QED
  BY <1>3, <1>4

\* A row no operation of a batch names stays as it was.
LEMMA NextDocKept ==
  ASSUME NEW doc, NEW operations, NEW m, DOMAIN operations = 1 .. m,
         NEW ref \in Refs, \A i \in 1 .. m : operations[i].ref # ref
  PROVE  NextDoc(doc, operations)[ref] = doc[ref]
  BY DEF NextDoc, Target

\* A row that one names ends up with the value the operation carries.
LEMMA NextDocSaved ==
  ASSUME NEW doc, NEW operations,
         NEW m \in Nat, DOMAIN operations = 1 .. m,
         FailingOperations(doc, operations) = {},
         NEW ref \in Refs, NEW i \in 1 .. m, operations[i].ref = ref
  PROVE  NextDoc(doc, operations)[ref] = operations[i].value
<1>1. Target(operations, ref) = {i}
  BY OneOperationPerRow DEF Target
<1> QED
  BY <1>1 DEF NextDoc
=============================================================================
