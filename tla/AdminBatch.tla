------------------------------ MODULE AdminBatch -----------------------------
(***************************************************************************)
(* One atomic admin batch: what applyAdminBatch makes of a snapshot and a  *)
(* command (src/admin/applyAdminBatch.ts).                                 *)
(*                                                                         *)
(* The code applies the operations one after the other to a mutable copy.  *)
(* No two operations of an accepted batch have the same target, so each of *)
(* them reads and writes a row no other one touches, and the result can be *)
(* written down without the loop.  AdminWorkspace checks that against the  *)
(* loop itself.                                                            *)
(***************************************************************************)
EXTENDS AdminData, Sequences, FiniteSetsExt

CONSTANTS
  Subjects,         \* the identities that send commands
  Sources,          \* the documents an operation may cite
  Batches,          \* the operation lists a client may send
  ExpectedRevisions \* the revisions a client may send them against

Targets == Refs \cup {<<"housing_company", ForeignCompany>>}

\* A save_* operation names its row by the value it carries, delete_entity by
\* type and key; deleting is writing Absent.
Operation ==
  {op \in [kind : {"save", "delete"}, ref : Targets,
           value : Values \cup {Absent}, sources : SUBSET Sources] :
     IF op.kind = "delete" THEN op.value = Absent
     ELSE op.value \in ValuesOf(op.ref[1])}

\* The batches clients send: a set that TLC can enumerate.
ASSUME BatchesAssumption == Batches \subseteq Seq(Operation)
ASSUME ExpectedAssumption == ExpectedRevisions \subseteq Nat

Command ==
  [expected : ExpectedRevisions, actor : Subjects, operations : Batches]

AuditEntry ==
  [revision : Nat, index : Nat, ref : Refs,
   operation : {"create", "update", "delete"}, actor : Subjects,
   sources : SUBSET Sources,
   before : Values \cup {Absent}, after : Values \cup {Absent}]

Snapshot ==
  [revision : Nat, doc : Docs, trail : Seq(AuditEntry)]

-----------------------------------------------------------------------------
(* What a batch is refused for. *)

OK == "ok"
RevisionConflict == "ADMIN_REVISION_CONFLICT"
InvalidOperation == "INVALID_ADMIN_OPERATION"
DuplicateOperation == "DUPLICATE_ADMIN_OPERATION"
DeleteTargetNotFound == "DELETE_TARGET_NOT_FOUND"
\* Also stands for the codes of projectEvents (MISSING_ASSET and the like):
\* the HTTP layer answers them all alike.
InvalidData == "INVALID_ADMIN_DATA"

BatchErrors ==
  {RevisionConflict, InvalidOperation, DuplicateOperation,
   DeleteTargetNotFound, InvalidData}

Deletable(ref) == ref[1] # "housing_company"

\* A mutant: the target is looked for before the duplicate.
TargetCheckedFirst(doc, operations, i) ==
  LET op == operations[i] IN
  IF op.sources = {} \/ (op.kind = "delete" /\ ~ Deletable(op.ref))
  THEN InvalidOperation
  ELSE IF /\ op.kind = "save" /\ op.ref[1] = "building_event"
          /\ ~ EventRuntimeValid(op.value)
  THEN InvalidData
  ELSE IF op.kind = "delete" /\ ~ Has(doc, op.ref) THEN DeleteTargetNotFound
  ELSE IF \E j \in 1 .. i - 1 : operations[j].ref = op.ref
  THEN DuplicateOperation
  ELSE IF op.ref \notin Refs THEN InvalidOperation
  ELSE OK

\* The error operation i of the batch raises, if the loop gets to it.
OperationError(doc, operations, i) ==
  LET op == operations[i] IN
  IF op.sources = {} \/ (op.kind = "delete" /\ ~ Deletable(op.ref))
  THEN InvalidOperation
  ELSE IF /\ op.kind = "save" /\ op.ref[1] = "building_event"
          /\ ~ EventRuntimeValid(op.value)
  THEN InvalidData
  ELSE IF \E j \in 1 .. i - 1 : operations[j].ref = op.ref
  THEN DuplicateOperation
  ELSE IF op.kind = "delete" /\ ~ Has(doc, op.ref) THEN DeleteTargetNotFound
  ELSE IF op.ref \notin Refs THEN InvalidOperation
  ELSE OK

FailingOperations(doc, operations) ==
  {i \in DOMAIN operations : OperationError(doc, operations, i) # OK}

-----------------------------------------------------------------------------
(* What an accepted batch does. *)

Target(operations, ref) == {i \in DOMAIN operations : operations[i].ref = ref}

NextDoc(doc, operations) ==
  [ref \in Refs |->
     IF Target(operations, ref) = {} THEN doc[ref]
     ELSE operations[CHOOSE i \in Target(operations, ref) : TRUE].value]

\* A mutant: an audit entry names the kind of the operation as it was sent.
AuditOfKind(snapshot, command, i) ==
  LET op == command.operations[i] IN
  [revision |-> snapshot.revision + 1, index |-> i, ref |-> op.ref,
   operation |-> op.kind, actor |-> command.actor, sources |-> op.sources,
   before |-> snapshot.doc[op.ref], after |-> op.value]

\* A mutant: "before" is read after the row has been saved.
AuditReadLate(snapshot, command, i) ==
  LET op == command.operations[i] IN
  [revision |-> snapshot.revision + 1, index |-> i, ref |-> op.ref,
   operation |-> IF op.kind = "delete" THEN "delete" ELSE "update",
   actor |-> command.actor, sources |-> op.sources,
   before |-> op.value, after |-> op.value]

\* The entry the loop stages for operation i.
AuditOf(snapshot, command, i) ==
  LET op == command.operations[i]
      before == snapshot.doc[op.ref] IN
  [revision |-> snapshot.revision + 1, index |-> i, ref |-> op.ref,
   operation |-> IF op.kind = "delete" THEN "delete"
                 ELSE IF before = Absent THEN "create" ELSE "update",
   actor |-> command.actor, sources |-> op.sources,
   before |-> before, after |-> op.value]

StagedAudits(snapshot, command) ==
  [i \in 1 .. Len(command.operations) |-> AuditOf(snapshot, command, i)]

ApplyAdminBatch(snapshot, command) ==
  [revision |-> snapshot.revision + 1,
   doc |-> NextDoc(snapshot.doc, command.operations),
   trail |-> snapshot.trail \o StagedAudits(snapshot, command)]

AuditId(entry) == <<entry.revision, entry.index, entry.ref>>

AuditTrailValid(snapshot) ==
  /\ \A i, j \in DOMAIN snapshot.trail :
       AuditId(snapshot.trail[i]) = AuditId(snapshot.trail[j]) => i = j
  /\ \A i \in DOMAIN snapshot.trail :
       snapshot.trail[i].revision \in 1 .. snapshot.revision

SnapshotValid(snapshot) == DocValid(snapshot.doc) /\ AuditTrailValid(snapshot)

\* A mutant: the outcome is not validated.
AcceptsUnvalidated(snapshot, command) ==
  /\ command.expected = snapshot.revision
  /\ command.operations # <<>>
  /\ FailingOperations(snapshot.doc, command.operations) = {}

Accepts(snapshot, command) ==
  /\ command.expected = snapshot.revision
  /\ command.operations # <<>>
  /\ FailingOperations(snapshot.doc, command.operations) = {}
  /\ SnapshotValid(ApplyAdminBatch(snapshot, command))

\* What applyAdminBatch throws: the first check that fails, in code order.
BatchError(snapshot, command) ==
  LET failing == FailingOperations(snapshot.doc, command.operations) IN
  IF Accepts(snapshot, command) THEN OK
  ELSE IF command.expected # snapshot.revision THEN RevisionConflict
  ELSE IF command.operations = <<>> THEN InvalidOperation
  ELSE IF failing # {}
  THEN OperationError(snapshot.doc, command.operations, Min(failing))
  ELSE InvalidData
=============================================================================
