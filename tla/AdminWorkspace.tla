---------------------------- MODULE AdminWorkspace ---------------------------
(***************************************************************************)
(* One administrator at work: the contents a company can get to by         *)
(* accepted batches, one after the other.  Concurrency is AdminCommit's    *)
(* business; here the question is what the validation rules let through,   *)
(* and whether AdminBatch computes what the loop of applyAdminBatch does.  *)
(***************************************************************************)
EXTENDS AdminBatch

CONSTANT InitialDocs

ASSUME InitialDocsAssumption == InitialDocs \subseteq Docs

VARIABLE doc        \* the company's rows, Absent before it has any

Admin == CHOOSE s \in Subjects : TRUE
Stored(d) == [revision |-> 0, doc |-> d, trail |-> <<>>]
Ask(operations) == [expected |-> 0, actor |-> Admin, operations |-> operations]

CompanyInit == doc = Absent

\* createAdminDataSnapshot refuses a content that breaks a rule.
CreateCompany(d) ==
  /\ doc = Absent
  /\ DocValid(d)
  /\ doc' = d

\* commitAdminBatch with nobody else around.
CommitBatch(operations) ==
  /\ doc # Absent
  /\ Accepts(Stored(doc), Ask(operations))
  /\ doc' = NextDoc(doc, operations)

CompanyNext ==
  \/ \E d \in InitialDocs : CreateCompany(d)
  \/ \E operations \in Batches : CommitBatch(operations)

CompanySpec == CompanyInit /\ [][CompanyNext]_doc

-----------------------------------------------------------------------------
(* The loop of applyAdminBatch, operation by operation. *)

\* The loop's body for operation i: `loop` is the mutable copy with the audit
\* entries staged so far, and what was thrown, which ends the loop.
LoopBody(loop, operations, i) ==
  LET op == operations[i]
      before == loop.doc[op.ref]
      failed(code) == [loop EXCEPT !.error = code]
      done(operation) ==
        [error |-> OK,
         doc |-> [loop.doc EXCEPT ![op.ref] = op.value],
         staged |-> Append(loop.staged,
                      [revision |-> 1, index |-> i, ref |-> op.ref,
                       operation |-> operation, actor |-> Admin,
                       sources |-> op.sources,
                       before |-> before, after |-> op.value])]
  IN IF loop.error # OK THEN loop
     ELSE IF op.sources = {} THEN failed(InvalidOperation)
     ELSE IF op.kind = "save" /\ op.value \in EventValue
               /\ ~ EventRuntimeValid(op.value)
     THEN failed(InvalidData)
     ELSE IF op.kind = "delete" /\ ~ Deletable(op.ref)
     THEN failed(InvalidOperation)
     ELSE IF \E j \in 1 .. i - 1 : operations[j].ref = op.ref
     THEN failed(DuplicateOperation)
     ELSE IF op.kind = "delete"
     THEN IF before = Absent THEN failed(DeleteTargetNotFound)
          ELSE done("delete")
     ELSE IF op.ref = <<"housing_company", ForeignCompany>>
     THEN failed(InvalidOperation)
     ELSE done(IF before = Absent THEN "create" ELSE "update")

Loop(d, operations) ==
  LET after[i \in 0 .. Len(operations)] ==
        IF i = 0 THEN [error |-> OK, doc |-> d, staged |-> <<>>]
        ELSE LoopBody(after[i - 1], operations, i)
  IN after[Len(operations)]

-----------------------------------------------------------------------------
(* Properties. *)

\* The order of the loop does not show: applying the operations one by one,
\* each on the outcome of those before, accepts the same batches, refuses the
\* others with the same error, and gives the same content and audit entries.
BatchIsItsLoop ==
  doc # Absent =>
    \A operations \in Batches :
      LET loop == Loop(doc, operations)
          error == BatchError(Stored(doc), Ask(operations))
          result == ApplyAdminBatch(Stored(doc), Ask(operations)) IN
      IF operations = <<>> THEN error = InvalidOperation
      ELSE IF loop.error # OK THEN error = loop.error
      ELSE /\ error = IF DocValid(loop.doc) THEN OK ELSE InvalidData
           /\ result.doc = loop.doc
           /\ result.trail = loop.staged

\* "Manual drafts cannot retain broken evidence references that would fail
\* only after approval": a suggested event of a stored snapshot can be
\* approved as it stands.
ApprovalNeverFails ==
  \A e \in Events :
    LET event == doc[BuildingEvent(e)] IN
    event # Absent /\ event.status = "suggested" =>
      DocValid([doc EXCEPT ![BuildingEvent(e)].status = "approved"])

Cancelled(d, ref) ==
  ref[1] = "building_event" /\ d[ref] # Absent /\ d[ref].status = "cancelled"

\* No batch, however it mixes saves and deletes, leaves a row naming another
\* that is gone - the evidence of cancelled events apart.
LiveReferencesResolve ==
  \A ref \in Refs :
    \A named \in References(doc, ref) :
      Has(doc, named) \/ (Cancelled(doc, ref) /\ named[1] = "cost_evidence")

\* Whatever batches have built a company up, its drafts can be approved as
\* they stand and no live row names one that is gone.
LiveRowsStand == doc # Absent => ApprovalNeverFails /\ LiveReferencesResolve

\* What the comment on deleteOperation says: "validateAdminDataSnapshot
\* rejects the batch if any reference would be left dangling"
\* (src/admin/applyAdminBatch.ts:355-356).  An accepted batch of deletes
\* leaves no row that names a row it deleted.
DeletesLeaveNoDanglingReference ==
  doc # Absent =>
    \A operations \in Batches :
      (/\ \A i \in DOMAIN operations : operations[i].kind = "delete"
       /\ Accepts(Stored(doc), Ask(operations))) =>
         LET after == NextDoc(doc, operations) IN
         \A i \in DOMAIN operations, ref \in Refs :
           operations[i].ref \notin References(after, ref)

\* The invariant of the proofs: what is stored is a content, and a valid one.
CompanyValid == doc # Absent => doc \in Docs /\ DocValid(doc)
=============================================================================
