--------------------------- MODULE WorkspaceProofs ---------------------------
(***************************************************************************)
(* Theorems about the workspace: its rules, its deletions, its imports,    *)
(* its statement and its session, each for itself and then side by side.   *)
(*                                                                         *)
(* Rules.  What is stored is a content that breaks no rule, and of such a  *)
(* content the approval of a draft is one too and the rows that are named  *)
(* are there.  Of the loop of applyAdminBatch, Progress says how far it is *)
(* after i operations: as far as the batch of the first i is.              *)
(*                                                                         *)
(* Deletions.  The rows that go are closed under the cascade, since a      *)
(* round that adds nothing comes before the rows are used up; so no row    *)
(* that stays names one that goes, once it is cleared, and what stays      *)
(* breaks no rule.  Every row that goes but the target was put in the      *)
(* queue by another that goes, which it names however it is cleared.       *)
(*                                                                         *)
(* Imports and the statement.  What the tab was last shown is what is      *)
(* stored, if nobody has saved since, and so is what the forms and the     *)
(* preview have been made of.                                              *)
(*                                                                         *)
(* Sessions.  That a refresh is shared is kept by one variable,            *)
(* authRefreshPromise, and that its token is good by another, state.auth;  *)
(* the answers come when both may have changed.  SharedInv says that the   *)
(* promise is there just as long as a refresh is, GoodInv what is known of *)
(* the tokens: the one of a refresh, and the one of the session unless the *)
(* service has granted it a new one the tab has yet to hear of.  A sign-in *)
(* meanwhile is another session, and a reload tells whose refresh it cut   *)
(* off.                                                                    *)
(***************************************************************************)
EXTENDS Workspace, AdminBatchProofs, SetLemmas, FiniteSetTheorems, SequenceTheorems,
        TLAPS

-----------------------------------------------------------------------------
(* Rules: what a valid content is good for. *)

\* A reference is of one type, and its type tells what it is made of.
LEMMA RefShapes ==
  ASSUME NEW ref \in Refs
  PROVE  \/ ref \in PlainRefs /\ ref[1] \notin LinkedTypes
         \/ ref = CompanyRef
         \/ \E a \in Assets : ref = Asset(a)
         \/ \E o \in Observations : ref = Observation(o)
         \/ \E c \in Evidence : ref = CostEvidence(c)
         \/ \E c \in Evidence : ref = PriceLevelConfirmation(c)
         \/ \E e \in Events : ref = BuildingEvent(e)
         \/ \E k \in Accounts : ref = FinancialAccount(k)
         \/ \E k \in Accounts, y \in Years : ref = FinancialEntry(k, y)
BY PlainAssumption DEF Refs

\* The types of the shapes, and the parts.
LEMMA RefParts ==
  /\ CompanyRef[1] = "housing_company"
  /\ \A x : /\ Asset(x)[1] = "asset" /\ Asset(x)[2] = x
            /\ Observation(x)[1] = "observation" /\ Observation(x)[2] = x
            /\ CostEvidence(x)[1] = "cost_evidence" /\ CostEvidence(x)[2] = x
            /\ PriceLevelConfirmation(x)[1] = "price_level_confirmation"
            /\ PriceLevelConfirmation(x)[2] = x
            /\ BuildingEvent(x)[1] = "building_event" /\ BuildingEvent(x)[2] = x
            /\ FinancialAccount(x)[1] = "financial_account"
            /\ FinancialAccount(x)[2] = x
  /\ \A k, y : /\ FinancialEntry(k, y)[1] = "financial_entry"
               /\ FinancialEntry(k, y)[2] = <<k, y>>
BY DEF CompanyRef, Asset, Observation, CostEvidence, PriceLevelConfirmation,
   BuildingEvent, FinancialAccount, FinancialEntry

\* A row of a linked type says what its type says.
LEMMA RowTypes ==
  ASSUME NEW d \in Docs
  PROVE  /\ \A a \in Assets : Has(d, Asset(a)) => d[Asset(a)] \in AssetValue
         /\ \A o \in Observations :
              Has(d, Observation(o)) => d[Observation(o)] \in ObservationValue
         /\ \A c \in Evidence :
              Has(d, CostEvidence(c)) => d[CostEvidence(c)] \in CostEvidenceValue
         /\ \A e \in Events :
              Has(d, BuildingEvent(e)) => d[BuildingEvent(e)] \in EventValue
BY DEF Docs, Refs, Has, ValuesOf, Asset, Observation, CostEvidence, BuildingEvent

\* Approving a draft breaks no rule: it was checked as if it had been.
LEMMA DraftsCanBeApproved ==
  ASSUME NEW d \in Docs, DocValid(d), NEW e \in Events,
         d[BuildingEvent(e)] # Absent, d[BuildingEvent(e)].status = "suggested"
  PROVE  DocValid([d EXCEPT ![BuildingEvent(e)].status = "approved"])
<1> DEFINE ref == BuildingEvent(e)
           draft == d[ref]
           approved == [draft EXCEPT !.status = "approved"]
           after == [d EXCEPT ![ref] = approved]
<1>1. ref \in Refs /\ draft \in EventValue
  BY RowTypes DEF Refs, Has
<1>2. /\ approved \in EventValue /\ approved.status = "approved"
      /\ approved.asset = draft.asset /\ approved.rows = draft.rows
      /\ approved.observations = draft.observations
  BY <1>1 DEF EventValue, EventStatuses
<1>3. approved # Absent
  BY <1>2, NoValueAssumption DEF Values
<1>4. /\ after[ref] = approved
      /\ \A r \in Refs \ {ref} : after[r] = d[r]
      /\ DOMAIN d = Refs
  BY <1>1 DEF Docs
<1>5. \A r \in Refs : Has(after, r) <=> Has(d, r)
  BY <1>3, <1>4 DEF Has
<1> HIDE DEF ref, draft, approved, after
<1>6. \A r \in Refs : r[1] # "building_event" => after[r] = d[r]
  BY <1>4 DEF ref, BuildingEvent
<1>7. /\ CompanyRef \in Refs
      /\ \A a \in Assets : Asset(a) \in Refs /\ after[Asset(a)] = d[Asset(a)]
      /\ \A o \in Observations :
           Observation(o) \in Refs /\ after[Observation(o)] = d[Observation(o)]
      /\ \A c \in Evidence :
           /\ CostEvidence(c) \in Refs /\ PriceLevelConfirmation(c) \in Refs
           /\ after[CostEvidence(c)] = d[CostEvidence(c)]
      /\ \A x \in Events : BuildingEvent(x) \in Refs
      /\ \A k \in Accounts : FinancialAccount(k) \in Refs
      /\ \A k \in Accounts, y \in Years : FinancialEntry(k, y) \in Refs
  <2>1. /\ CompanyRef \in Refs
        /\ \A a \in Assets : Asset(a) \in Refs
        /\ \A o \in Observations : Observation(o) \in Refs
        /\ \A c \in Evidence :
             CostEvidence(c) \in Refs /\ PriceLevelConfirmation(c) \in Refs
        /\ \A x \in Events : BuildingEvent(x) \in Refs
        /\ \A k \in Accounts : FinancialAccount(k) \in Refs
        /\ \A k \in Accounts, y \in Years : FinancialEntry(k, y) \in Refs
    BY DEF Refs
  <2> QED
    BY <1>6, <2>1 DEF Asset, Observation, CostEvidence
<1>8. HousingCompanyValid(after) /\ ObservationsValid(after)
  <2>1. HousingCompanyValid(after)
    BY <1>5, <1>7 DEF DocValid, HousingCompanyValid
  <2>2. ASSUME NEW o \in Observations, Has(after, Observation(o))
        PROVE  Has(after, Asset(after[Observation(o)].asset))
    <3>1. Has(d, Observation(o)) /\ after[Observation(o)] = d[Observation(o)]
      BY <2>2, <1>5, <1>7
    <3>2. d[Observation(o)].asset \in Assets
      BY <3>1, RowTypes DEF ObservationValue
    <3> QED
      BY <3>1, <3>2, <1>5, <1>7 DEF DocValid, ObservationsValid
  <2> QED
    BY <2>1, <2>2 DEF ObservationsValid
<1>9. CostEvidenceValid(after)
  <2> SUFFICES ASSUME NEW c \in Evidence, d[CostEvidence(c)] # Absent
               PROVE  LET value == d[CostEvidence(c)] IN
                      /\ value.asset # Absent => Has(after, Asset(value.asset))
                      /\ value.event # Absent =>
                           Has(after, BuildingEvent(value.event))
    BY <1>7 DEF CostEvidenceValid
  <2>1. d[CostEvidence(c)] \in CostEvidenceValue
    BY RowTypes DEF Has
  <2> QED
    BY <2>1, <1>5, <1>7 DEF DocValid, CostEvidenceValid, CostEvidenceValue
<1>10. PriceLevelConfirmationsValid(after) /\ FinancialEntriesValid(after)
  BY <1>5, <1>7 DEF DocValid, PriceLevelConfirmationsValid, FinancialEntriesValid
<1>11. EventsValid(after)
  <2> SUFFICES ASSUME NEW x \in Events, after[BuildingEvent(x)] # Absent
               PROVE  /\ EventRuntimeValid(after[BuildingEvent(x)])
                      /\ EventObservationsValid(after, after[BuildingEvent(x)])
                      /\ EventBaseValid(after, after[BuildingEvent(x)])
                      /\ EventEvidenceValid(after, x, after[BuildingEvent(x)])
    BY DEF EventsValid
  <2> DEFINE was == d[BuildingEvent(x)]
             now_ == after[BuildingEvent(x)]
  <2>1. Has(d, BuildingEvent(x)) /\ was \in EventValue
    BY <1>5, <1>7, RowTypes DEF Has
  <2>2. /\ now_.asset = was.asset /\ now_.rows = was.rows
        /\ now_.observations = was.observations
        /\ \/ now_.status = was.status
           \/ was.status = "suggested" /\ now_.status = "approved"
    BY <1>2, <1>4, <1>7 DEF ref, draft
  <2>3. /\ EventRuntimeValid(was) /\ EventObservationsValid(d, was)
        /\ EventBaseValid(d, was) /\ EventEvidenceValid(d, x, was)
    BY <2>1 DEF DocValid, EventsValid, Has
  <2>4. /\ was.asset \in Assets /\ was.observations \subseteq Observations
        /\ \A row \in was.rows : row.evidence \in Evidence
    BY <2>1 DEF EventValue, ScheduleRow
  <2> HIDE DEF was, now_
  <2>5. EventRuntimeValid(now_)
    BY <2>2, <2>3 DEF EventRuntimeValid
  <2>6. EventObservationsValid(after, now_)
    BY <1>5, <1>7, <2>2, <2>3, <2>4 DEF EventObservationsValid
  <2>7. EventBaseValid(after, now_)
    BY <1>5, <1>7, <2>2, <2>3, <2>4 DEF EventBaseValid
  <2>8. EventEvidenceValid(after, x, now_)
    <3> SUFFICES ASSUME now_.status # "cancelled", NEW row \in now_.rows
                 PROVE  /\ Has(after, CostEvidence(row.evidence))
                        /\ EvidenceOwned(after[CostEvidence(row.evidence)], x, now_)
                        /\ RowAmountValid(after, now_, row)
      BY DEF EventEvidenceValid
    <3>1. was.status # "cancelled" /\ row \in was.rows /\ row.evidence \in Evidence
      BY <2>2, <2>4
    <3>2. /\ Has(d, CostEvidence(row.evidence))
          /\ EvidenceOwned(d[CostEvidence(row.evidence)], x, was)
          /\ RowAmountValid(d, was, row)
      BY <2>3, <3>1 DEF EventEvidenceValid
    <3>3. Has(after, CostEvidence(row.evidence))
      BY <1>5, <1>7, <3>1, <3>2
    <3>4. EvidenceOwned(after[CostEvidence(row.evidence)], x, now_)
      BY <1>7, <2>2, <3>1, <3>2 DEF EvidenceOwned
    <3>5. RowAmountValid(after, now_, row)
      BY <1>5, <1>7, <2>2, <3>1, <3>2 DEF RowAmountValid
    <3> QED
      BY <3>3, <3>4, <3>5
  <2> QED
    BY <2>5, <2>6, <2>7, <2>8 DEF now_
<1>12. DocValid(after)
  BY <1>8, <1>9, <1>10, <1>11 DEF DocValid
<1> QED
  BY <1>12 DEF after, approved, draft, ref

\* A row that a row names is there, but for the evidence of cancelled events.
LEMMA NamedRowsAreThere ==
  ASSUME NEW d \in Docs, DocValid(d), NEW ref \in Refs,
         NEW named \in References(d, ref)
  PROVE  Has(d, named) \/ (Cancelled(d, ref) /\ named[1] = "cost_evidence")
<1>1. Has(d, ref) /\ d[ref] # Absent
  BY DEF References, Has
<1>2. ref[1] \in {"observation", "cost_evidence", "price_level_confirmation",
                 "financial_entry", "building_event"}
  BY DEF References
<1>3. ASSUME NEW o \in Observations, ref = Observation(o)
      PROVE  Has(d, named)
  BY <1>1, <1>3, RefParts DEF References, DocValid, ObservationsValid
<1>4. ASSUME NEW c \in Evidence, ref = CostEvidence(c)
      PROVE  Has(d, named)
  <2>1. \/ named = Asset(d[ref].asset) /\ d[ref].asset # Absent
        \/ named = BuildingEvent(d[ref].event) /\ d[ref].event # Absent
    BY <1>1, <1>4, RefParts DEF References
  <2> QED
    BY <1>1, <1>4, <2>1 DEF DocValid, CostEvidenceValid
<1>5. ASSUME NEW c \in Evidence, ref = PriceLevelConfirmation(c)
      PROVE  Has(d, named)
  BY <1>1, <1>5, RefParts DEF References, DocValid, PriceLevelConfirmationsValid
<1>6. ASSUME NEW k \in Accounts, NEW y \in Years, ref = FinancialEntry(k, y)
      PROVE  Has(d, named)
  <2>1. named = FinancialAccount(k)
    BY <1>1, <1>6, RefParts DEF References
  <2> QED
    BY <1>1, <1>6, <2>1 DEF DocValid, FinancialEntriesValid
<1>7. ASSUME NEW e \in Events, ref = BuildingEvent(e)
      PROVE  Has(d, named) \/ (Cancelled(d, ref) /\ named[1] = "cost_evidence")
  <2>1. /\ ref[1] = "building_event"
        /\ EventObservationsValid(d, d[ref]) /\ EventBaseValid(d, d[ref])
        /\ EventEvidenceValid(d, e, d[ref])
    BY <1>1, <1>7, RefParts DEF DocValid, EventsValid
  <2>2. \/ named = Asset(d[ref].asset)
        \/ \E o \in d[ref].observations : named = Observation(o)
        \/ \E row \in d[ref].rows : named = CostEvidence(row.evidence)
    BY <1>1, <2>1 DEF References
  <2> QED
    BY <1>1, <2>1, <2>2, RefParts
       DEF EventObservationsValid, EventBaseValid, EventEvidenceValid, Cancelled
<1> QED
  BY <1>2, <1>3, <1>4, <1>5, <1>6, <1>7, RefShapes, RefParts DEF LinkedTypes

\* A batch that is accepted leaves a content that breaks no rule.
LEMMA AcceptedIsValid ==
  ASSUME NEW d \in Docs, NEW operations \in Seq(Operation),
         Accepts(Stored(d), Ask(operations))
  PROVE  /\ NextDoc(d, operations) \in Docs
         /\ DocValid(NextDoc(d, operations))
<1>1. FailingOperations(d, operations) = {}
  BY DEF Accepts, Stored, Ask
<1>2. DocValid(NextDoc(d, operations))
  BY DEF Accepts, Stored, Ask, SnapshotValid, ApplyAdminBatch
<1> QED
  BY <1>1, <1>2, NextDocType

\* The first batch of a trail: an entry for each operation, in their order.
LEMMA FirstAudits ==
  ASSUME NEW d, NEW operations, NEW S, operations \in Seq(S)
  PROVE  LET result == ApplyAdminBatch(Stored(d), Ask(operations)) IN
         /\ result.trail = StagedAudits(Stored(d), Ask(operations))
         /\ AuditTrailValid(result)
<1> DEFINE n == Len(operations)
           staged == StagedAudits(Stored(d), Ask(operations))
           result == ApplyAdminBatch(Stored(d), Ask(operations))
           T == {AuditOf(Stored(d), Ask(operations), j) : j \in 1 .. n}
<1>1. /\ n \in Nat /\ Ask(operations).operations = operations
      /\ staged = [i \in 1 .. n |-> AuditOf(Stored(d), Ask(operations), i)]
  BY DEF Ask, StagedAudits
<1>2. staged \in Seq(T)
  BY <1>1
<1>3. result.trail = <<>> \o staged /\ result.revision = 1
  BY DEF ApplyAdminBatch, Stored
<1>4. result.trail = staged
  <2> HIDE DEF staged, T
  <2> QED
    BY <1>2, <1>3, ConcatEmptySeq
<1>5. /\ DOMAIN result.trail = 1 .. n
      /\ \A j \in 1 .. n : /\ result.trail[j].revision = 1
                          /\ result.trail[j].index = j
  BY <1>1, <1>4 DEF AuditOf, Stored
<1>6. \A i, j \in DOMAIN result.trail :
        AuditId(result.trail[i]) = AuditId(result.trail[j]) => i = j
  BY <1>5 DEF AuditId
<1> QED
  BY <1>3, <1>4, <1>5, <1>6 DEF AuditTrailValid

\* A company's rows are a content that breaks no rule, with the first as with
\* every batch that follows.
LEMMA CompanyStep ==
  ASSUME CompanyValid, [CompanyNext]_doc
  PROVE  CompanyValid'
<1>1. ASSUME NEW d \in InitialDocs, CreateCompany(d) PROVE CompanyValid'
  BY <1>1, InitialDocsAssumption DEF CreateCompany, CompanyValid
<1>2. ASSUME NEW operations \in Batches, CommitBatch(operations)
      PROVE  CompanyValid'
  BY <1>2, BatchesAssumption, AcceptedIsValid DEF CommitBatch, CompanyValid
<1>3. CASE UNCHANGED doc
  BY <1>3 DEF CompanyValid
<1> QED
  BY <1>1, <1>2, <1>3 DEF CompanyNext

LEMMA ValidRowsStand == CompanyValid => LiveRowsStand
<1> SUFFICES ASSUME doc # Absent, doc \in Docs, DocValid(doc)
             PROVE  ApprovalNeverFails /\ LiveReferencesResolve
  BY DEF CompanyValid, LiveRowsStand
<1> QED
  BY DraftsCanBeApproved, NamedRowsAreThere
     DEF ApprovalNeverFails, LiveReferencesResolve

LEMMA CompanyInvariance == CompanySpec => []CompanyValid
<1>1. CompanyInit => CompanyValid
  BY DEF CompanyInit, CompanyValid
<1> QED
  BY <1>1, CompanyStep, PTL DEF CompanySpec

\* Whatever batches an administrator has built a company up with, its drafts
\* can be approved as they stand, and no row names one that is gone but a
\* cancelled event its evidence (validateAdminDataSnapshot).
THEOREM RowsStand == CompanySpec => []LiveRowsStand
BY CompanyInvariance, ValidRowsStand, PTL

-----------------------------------------------------------------------------
(* Rules: the loop and the batch. *)

LEMMA LoopIs ==
  ASSUME NEW d, NEW operations, NEW n \in Nat, n = Len(operations), NEW g,
         g = [i \in 0 .. n |-> g[i]],
         g[0] = [error |-> OK, doc |-> d, staged |-> <<>>],
         \A i \in 1 .. n : g[i] = LoopBody(g[i - 1], operations, i)
  PROVE  Loop(d, operations) = g[n]
<1> DEFINE start == [error |-> OK, doc |-> d, staged |-> <<>>]
           Unfolds(f) == f = [i \in 0 .. n |->
                                IF i = 0 THEN start
                                ELSE LoopBody(f[i - 1], operations, i)]
           after == CHOOSE f : Unfolds(f)
<1>1. Unfolds(g)
  <2> DEFINE F(i) == IF i = 0 THEN start ELSE LoopBody(g[i - 1], operations, i)
  <2>1. ASSUME NEW i \in 0 .. n PROVE g[i] = F(i)
    <3>1. CASE i = 0
      BY <3>1
    <3>2. CASE i # 0
      <4>1. i \in 1 .. n
        BY <3>2
      <4> QED
        BY <3>2, <4>1
    <3> QED
      BY <3>1, <3>2
  <2>2. g = [i \in 0 .. n |-> F(i)]
    <3> HIDE DEF F
    <3> QED
      BY <2>1
  <2> QED
    BY <2>2
<1>2. Unfolds(after)
  <2> HIDE DEF Unfolds
  <2> QED
    BY <1>1
<1>3. after = g
  <2> DEFINE Wrong == {i \in 0 .. n : after[i] # g[i]}
  <2>1. CASE Wrong # {}
    <3>1. PICK i \in Wrong : \A j \in Wrong : i <= j
      <4> HIDE DEF Wrong
      <4>1. Wrong \in SUBSET Nat
        BY DEF Wrong
      <4> QED
        BY <2>1, <4>1, LeastNatural
    <3>2. i \in 0 .. n /\ after[i] # g[i]
      OBVIOUS
    <3> HIDE DEF after
    <3>3. i # 0
      BY <1>2, <3>2
    <3>4. i - 1 \in 0 .. n /\ i - 1 \notin Wrong
      BY <3>1, <3>2, <3>3
    <3>5. after[i - 1] = g[i - 1]
      BY <3>4
    <3>6. after[i] = LoopBody(after[i - 1], operations, i)
      <4> DEFINE F(j) == IF j = 0 THEN start ELSE LoopBody(after[j - 1], operations, j)
      <4>1. after = [j \in 0 .. n |-> F(j)]
        BY <1>2
      <4>2. after[i] = F(i)
        <5> HIDE DEF F
        <5> QED
          BY <3>2, <4>1
      <4> QED
        BY <3>3, <4>2
    <3>7. g[i] = LoopBody(g[i - 1], operations, i)
      <4>1. i \in 1 .. n
        BY <3>2, <3>3
      <4> HIDE DEF Wrong
      <4> QED
        BY <4>1
    <3> QED
      BY <3>2, <3>5, <3>6, <3>7
  <2>2. CASE Wrong = {}
    <3>1. \A i \in 0 .. n : after[i] = g[i]
      BY <2>2
    <3> HIDE DEF after, Wrong
    <3>2. after = [i \in 0 .. n |-> after[i]]
      <4> DEFINE F(i) == IF i = 0 THEN start ELSE LoopBody(after[i - 1], operations, i)
      <4>1. after = [i \in 0 .. n |-> F(i)]
        BY <1>2
      <4> HIDE DEF F
      <4> QED
        BY <4>1
    <3> QED
      BY <3>1, <3>2
  <2> QED
    BY <2>1, <2>2
<1>4. Loop(d, operations) = after[n]
  BY DEF Loop
<1> QED
  BY <1>3, <1>4

\* The first i operations of a batch, and how far the loop gets with them if
\* none of them fails.
Prefix(operations, i) == [j \in 1 .. i |-> operations[j]]

Staged(d, operations, i) ==
  [j \in 1 .. i |-> AuditOf(Stored(d), Ask(operations), j)]

Progress(d, operations, i) ==
  [error |-> OK, doc |-> NextDoc(d, Prefix(operations, i)),
   staged |-> Staged(d, operations, i)]

\* An operation of a prefix fails as it does in the batch.
LEMMA PrefixErrors ==
  ASSUME NEW d, NEW operations, NEW n \in Nat, DOMAIN operations = 1 .. n,
         NEW i \in 0 .. n, NEW j \in 1 .. i
  PROVE  OperationError(d, Prefix(operations, i), j) =
           OperationError(d, operations, j)
<1>1. \A k \in 1 .. j : Prefix(operations, i)[k] = operations[k]
  BY DEF Prefix
<1>2. (\E k \in 1 .. j - 1 : Prefix(operations, i)[k].ref = operations[j].ref)
        <=> \E k \in 1 .. j - 1 : operations[k].ref = operations[j].ref
  BY <1>1
<1>3. Prefix(operations, i)[j] = operations[j]
  BY <1>1
<1> HIDE DEF Prefix
<1> QED
  BY <1>2, <1>3 DEF OperationError

\* An operation of a prefix that raises nothing writes a row of its own.
LEMMA NextPrefix ==
  ASSUME NEW d \in Docs, NEW operations \in Seq(Operation),
         NEW n \in Nat, n = Len(operations), NEW i \in 1 .. n,
         \A j \in 1 .. i : OperationError(d, operations, j) = OK
  PROVE  LET op == operations[i]
             before == NextDoc(d, Prefix(operations, i - 1)) IN
         /\ before[op.ref] = d[op.ref]
         /\ NextDoc(d, Prefix(operations, i)) =
              [before EXCEPT ![op.ref] = op.value]
<1> DEFINE op == operations[i]
           before == NextDoc(d, Prefix(operations, i - 1))
           after == NextDoc(d, Prefix(operations, i))
<1>0. DOMAIN operations = 1 .. n
  OBVIOUS
<1>1. /\ DOMAIN Prefix(operations, i) = 1 .. i
      /\ DOMAIN Prefix(operations, i - 1) = 1 .. i - 1
      /\ \A j \in 1 .. i : Prefix(operations, i)[j] = operations[j]
      /\ \A j \in 1 .. i - 1 : Prefix(operations, i - 1)[j] = operations[j]
      /\ i \in Nat /\ i - 1 \in Nat /\ i - 1 \in 0 .. n /\ i \in 0 .. n
  BY DEF Prefix
<1>2. /\ FailingOperations(d, Prefix(operations, i)) = {}
      /\ FailingOperations(d, Prefix(operations, i - 1)) = {}
  BY <1>0, <1>1, PrefixErrors DEF FailingOperations
<1>3. op.ref \in Refs /\ \A j \in 1 .. i - 1 : operations[j].ref # op.ref
  <2>1. OperationError(d, operations, i) = OK
    OBVIOUS
  <2> QED
    BY <2>1 DEF OperationError, OK, InvalidOperation, InvalidData,
       DuplicateOperation, DeleteTargetNotFound
<1>4. before[op.ref] = d[op.ref]
  BY <1>1, <1>3, NextDocKept
<1>5. after[op.ref] = op.value
  BY <1>1, <1>2, <1>3, NextDocSaved
<1>6. ASSUME NEW ref \in Refs, ref # op.ref
      PROVE  after[ref] = before[ref]
  <2>1. CASE \E j \in 1 .. i - 1 : operations[j].ref = ref
    <3>1. PICK j \in 1 .. i - 1 : operations[j].ref = ref
      BY <2>1
    <3>2. j \in 1 .. i
      BY <1>1
    <3>3. /\ Prefix(operations, i)[j].ref = ref
          /\ Prefix(operations, i - 1)[j].ref = ref
      BY <1>1, <3>1, <3>2
    <3>4. after[ref] = Prefix(operations, i)[j].value
      BY <1>1, <1>2, <3>2, <3>3, NextDocSaved
    <3>5. before[ref] = Prefix(operations, i - 1)[j].value
      BY <1>1, <1>2, <3>3, NextDocSaved
    <3> QED
      BY <1>1, <3>2, <3>4, <3>5
  <2>2. CASE \A j \in 1 .. i - 1 : operations[j].ref # ref
    <3>1. \A j \in 1 .. i - 1 : Prefix(operations, i - 1)[j].ref # ref
      BY <1>1, <2>2
    <3>2. \A j \in 1 .. i : Prefix(operations, i)[j].ref # ref
      BY <1>1, <1>6, <2>2
    <3>3. after[ref] = d[ref]
      BY <1>1, <3>2, NextDocKept
    <3>4. before[ref] = d[ref]
      BY <1>1, <3>1, NextDocKept
    <3> QED
      BY <3>3, <3>4
  <2> QED
    BY <2>1, <2>2
<1>7. /\ after = [ref \in Refs |-> after[ref]]
      /\ before = [ref \in Refs |-> before[ref]]
  BY DEF NextDoc
<1> HIDE DEF after, before, op
<1>8. after = [before EXCEPT ![op.ref] = op.value]
  BY <1>3, <1>5, <1>6, <1>7
<1> QED
  BY <1>4, <1>8 DEF after, before, op

\* The audit entries staged for one operation more.
LEMMA StagedNext ==
  ASSUME NEW d, NEW operations, NEW i \in Nat, i # 0
  PROVE  Append(Staged(d, operations, i - 1),
                AuditOf(Stored(d), Ask(operations), i)) = Staged(d, operations, i)
<1> DEFINE a(j) == AuditOf(Stored(d), Ask(operations), j)
           S == {a(j) : j \in Nat}
           s == [j \in 1 .. i - 1 |-> a(j)]
           t == [j \in 1 .. i |-> a(j)]
<1> HIDE DEF a
<1>1. /\ s \in Seq(S) /\ Len(s) = i - 1 /\ a(i) \in S
      /\ t \in Seq(S) /\ Len(t) = i
  OBVIOUS
<1>2. \A j \in 1 .. i - 1 : s[j] = a(j)
  OBVIOUS
<1>3. \A j \in 1 .. i : t[j] = a(j)
  OBVIOUS
<1> HIDE DEF s, t, S
<1>4. /\ Append(s, a(i)) \in Seq(S) /\ Len(Append(s, a(i))) = i
      /\ \A j \in 1 .. i - 1 : Append(s, a(i))[j] = s[j]
      /\ Append(s, a(i))[i] = a(i)
  BY <1>1, AppendProperties
<1>5. \A j \in 1 .. i : Append(s, a(i))[j] = t[j]
  BY <1>2, <1>3, <1>4
<1>6. Append(s, a(i)) = t
  BY <1>1, <1>4, <1>5, SeqEqual
<1> QED
  BY <1>6 DEF s, t, a, Staged

\* What an operation writes says of what type its row is.
LEMMA EventsByTheirValues ==
  ASSUME NEW op \in Operation, op.kind = "save"
  PROVE  op.value \in EventValue <=> op.ref[1] = "building_event"
<1>1. op.value \in ValuesOf(op.ref[1])
  BY DEF Operation
<1>2. CASE op.ref[1] = "building_event"
  BY <1>1, <1>2 DEF ValuesOf
<1>3. CASE op.ref[1] # "building_event"
  <2>1. op.value \in AssetValue \cup ObservationValue \cup CostEvidenceValue
                       \cup PlainValue
    BY <1>1, <1>3 DEF ValuesOf
  <2>2. DOMAIN op.value \in {{"active"}, {"asset"}, {"note"},
                             {"asset", "event", "status", "level2026"}}
    BY <2>1 DEF AssetValue, ObservationValue, CostEvidenceValue, PlainValue
  <2>3. "rows" \notin DOMAIN op.value
    BY <2>2
  <2>4. \A v \in EventValue : "rows" \in DOMAIN v
    BY DEF EventValue
  <2> QED
    BY <1>3, <2>3, <2>4
<1> QED
  BY <1>2, <1>3

\* What an operation names is a row of the company or another company.
LEMMA TargetShapes ==
  ASSUME NEW op \in Operation
  PROVE  /\ op.ref \notin Refs <=> op.ref = <<"housing_company", ForeignCompany>>
         /\ Deletable(op.ref) => op.ref \in Refs
<1>1. op.ref \in Refs \cup {<<"housing_company", ForeignCompany>>}
  BY DEF Operation, Targets
<1>2. <<"housing_company", ForeignCompany>> \notin Refs
  <2>1. <<"housing_company", ForeignCompany>> \notin PlainRefs
    BY PlainAssumption DEF LinkedTypes
  <2> QED
    BY <2>1, ForeignAssumption
       DEF Refs, CompanyRef, Asset, Observation, CostEvidence,
           PriceLevelConfirmation, BuildingEvent, FinancialAccount, FinancialEntry
<1> QED
  BY <1>1, <1>2 DEF Deletable

\* The loop's body does to what the operations before have left what is said
\* of the operation in terms of what was there before the batch.
LEMMA BodyGoesOn ==
  ASSUME NEW d \in Docs, NEW operations \in Seq(Operation),
         NEW n \in Nat, n = Len(operations), NEW i \in 1 .. n,
         \A j \in 1 .. i - 1 : OperationError(d, operations, j) = OK
  PROVE  LoopBody(Progress(d, operations, i - 1), operations, i) =
           LET error == OperationError(d, operations, i) IN
           IF error = OK THEN Progress(d, operations, i)
           ELSE [Progress(d, operations, i - 1) EXCEPT !.error = error]
<1> DEFINE op == operations[i]
           before == NextDoc(d, Prefix(operations, i - 1))
           loop == Progress(d, operations, i - 1)
           error == OperationError(d, operations, i)
           again == \E j \in 1 .. i - 1 : operations[j].ref = op.ref
<1>1. /\ op \in Operation
      /\ op.ref \notin Refs <=> op.ref = <<"housing_company", ForeignCompany>>
      /\ Deletable(op.ref) => op.ref \in Refs
      /\ op.kind = "save" =>
           (op.value \in EventValue <=> op.ref[1] = "building_event")
      /\ op.kind \in {"save", "delete"}
  <2>1. op \in Operation
    OBVIOUS
  <2>2. op.kind \in {"save", "delete"}
    BY <2>1 DEF Operation
  <2> HIDE DEF op
  <2> QED
    BY <2>1, <2>2, TargetShapes, EventsByTheirValues
<1>2. /\ loop.error = OK /\ loop.doc = before
      /\ loop.staged = Staged(d, operations, i - 1)
      /\ loop = [error |-> OK, doc |-> before,
                 staged |-> Staged(d, operations, i - 1)]
  BY DEF Progress
<1>3. op.ref \in Refs /\ ~ again => before[op.ref] = d[op.ref]
  <2> SUFFICES ASSUME op.ref \in Refs, ~ again PROVE before[op.ref] = d[op.ref]
    OBVIOUS
  <2>1. /\ DOMAIN Prefix(operations, i - 1) = 1 .. i - 1
        /\ \A j \in 1 .. i - 1 : Prefix(operations, i - 1)[j].ref # op.ref
    BY DEF Prefix
  <2> QED
    BY <2>1, NextDocKept
<1>4. CASE error # OK
  <2>1. LoopBody(loop, operations, i) = [loop EXCEPT !.error = error]
    <3> HIDE DEF before, loop
    <3> QED
      BY <1>1, <1>2, <1>3, <1>4 DEF LoopBody, OperationError, Has
  <2> QED
    BY <1>4, <2>1
<1>5. CASE error = OK
  <2>1. /\ op.ref \in Refs /\ ~ again
        /\ op.kind = "delete" => d[op.ref] # Absent
    BY <1>5 DEF OperationError, OK, InvalidOperation, InvalidData,
       DuplicateOperation, DeleteTargetNotFound, Has
  <2>2. before[op.ref] = d[op.ref]
    BY <1>3, <2>1
  <2>3. LoopBody(loop, operations, i) =
          [error |-> OK, doc |-> [before EXCEPT ![op.ref] = op.value],
           staged |-> Append(loop.staged, AuditOf(Stored(d), Ask(operations), i))]
    <3>1. AuditOf(Stored(d), Ask(operations), i) =
            [revision |-> 1, index |-> i, ref |-> op.ref,
             operation |-> IF op.kind = "delete" THEN "delete"
                           ELSE IF d[op.ref] = Absent THEN "create" ELSE "update",
             actor |-> Admin, sources |-> op.sources,
             before |-> d[op.ref], after |-> op.value]
      BY DEF AuditOf, Stored, Ask
    <3> HIDE DEF before, loop
    <3> QED
      BY <1>1, <1>2, <1>5, <2>1, <2>2, <3>1
         DEF LoopBody, OperationError, Has, OK, InvalidOperation, InvalidData,
             DuplicateOperation, DeleteTargetNotFound
  <2>4. \A j \in 1 .. i : OperationError(d, operations, j) = OK
    BY <1>5
  <2>5. NextDoc(d, Prefix(operations, i)) = [before EXCEPT ![op.ref] = op.value]
    BY <2>4, NextPrefix
  <2>6. Append(loop.staged, AuditOf(Stored(d), Ask(operations), i)) =
          Staged(d, operations, i)
    BY <1>2, StagedNext
  <2> QED
    BY <1>5, <2>3, <2>5, <2>6 DEF Progress
<1> QED
  BY <1>4, <1>5

\* The loop goes on to the end or stops at the first operation that fails.
LEMMA LoopEnds ==
  ASSUME NEW d \in Docs, NEW operations \in Seq(Operation),
         NEW n \in Nat, n = Len(operations)
  PROVE  LET failing == FailingOperations(d, operations)
             first == Min(failing) IN
         /\ failing # {} => first \in failing /\ first \in 1 .. n
         /\ Loop(d, operations) =
              IF failing = {} THEN Progress(d, operations, n)
              ELSE [Progress(d, operations, first - 1)
                      EXCEPT !.error = OperationError(d, operations, first)]
<1> DEFINE failing == FailingOperations(d, operations)
           first == Min(failing)
           stopped == [Progress(d, operations, first - 1)
                         EXCEPT !.error = OperationError(d, operations, first)]
           G(i) == IF failing = {} THEN Progress(d, operations, i)
                   ELSE IF i < first THEN Progress(d, operations, i)
                   ELSE stopped
           g == [i \in 0 .. n |-> G(i)]
<1>1. failing = {i \in 1 .. n : OperationError(d, operations, i) # OK}
  BY DEF FailingOperations
<1>2. failing # {} =>
        first \in failing /\ first \in 1 .. n /\ \A i \in failing : first <= i
  <2>1. failing \in SUBSET Int /\ \A i \in failing : i >= 1
    BY <1>1
  <2>2. failing # {} => first \in failing /\ \A i \in failing : first <= i
    <3> HIDE DEF failing
    <3> QED
      BY <2>1, MinOfBounded
  <2> QED
    BY <1>1, <2>2
<1> HIDE DEF failing, first
<1>3. G(0) = [error |-> OK, doc |-> d, staged |-> <<>>]
  <2>1. Progress(d, operations, 0) = [error |-> OK, doc |-> d, staged |-> <<>>]
    <3>1. DOMAIN Prefix(operations, 0) = 1 .. 0
      BY DEF Prefix
    <3>2. \A ref \in Refs : NextDoc(d, Prefix(operations, 0))[ref] = d[ref]
      BY <3>1, NextDocKept
    <3>3. NextDoc(d, Prefix(operations, 0)) = d
      BY <3>2 DEF NextDoc, Docs
    <3>4. Staged(d, operations, 0) = <<>>
      BY DEF Staged
    <3> QED
      BY <3>3, <3>4 DEF Progress
  <2>2. failing # {} => 0 < first
    BY <1>2
  <2> QED
    BY <2>1, <2>2
<1>4. ASSUME NEW i \in 1 .. n
      PROVE  G(i) = LoopBody(G(i - 1), operations, i)
  <2>1. CASE failing = {} \/ i < first
    <3>1. /\ \A j \in 1 .. i - 1 : OperationError(d, operations, j) = OK
          /\ OperationError(d, operations, i) = OK
      BY <1>1, <1>2, <2>1
    <3>2. LoopBody(Progress(d, operations, i - 1), operations, i) =
            Progress(d, operations, i)
      BY <3>1, BodyGoesOn
    <3>3. /\ G(i) = Progress(d, operations, i)
          /\ G(i - 1) = Progress(d, operations, i - 1)
      BY <1>2, <2>1
    <3> QED
      BY <3>2, <3>3
  <2>2. CASE failing # {} /\ i = first
    <3>1. /\ \A j \in 1 .. i - 1 : OperationError(d, operations, j) = OK
          /\ OperationError(d, operations, i) # OK
      BY <1>1, <1>2, <2>2
    <3>2. LoopBody(Progress(d, operations, i - 1), operations, i) = stopped
      BY <2>2, <3>1, BodyGoesOn
    <3>3. G(i) = stopped /\ G(i - 1) = Progress(d, operations, i - 1)
      BY <1>2, <2>2
    <3> QED
      BY <3>2, <3>3
  <2>3. CASE failing # {} /\ i > first
    <3>1. G(i) = stopped /\ G(i - 1) = stopped
      BY <1>2, <2>3
    <3>2. stopped.error = OperationError(d, operations, first)
      BY DEF Progress
    <3>3. stopped.error # OK
      BY <1>1, <1>2, <2>3, <3>2
    <3> HIDE DEF stopped, G
    <3>4. LoopBody(stopped, operations, i) = stopped
      BY <3>3 DEF LoopBody
    <3> QED
      BY <3>1, <3>4
  <2> QED
    BY <1>2, <2>1, <2>2, <2>3
<1> HIDE DEF G
<1>5. Loop(d, operations) = g[n]
  <2>1. g = [i \in 0 .. n |-> g[i]]
    OBVIOUS
  <2>2. g[0] = [error |-> OK, doc |-> d, staged |-> <<>>]
    BY <1>3
  <2>3. \A i \in 1 .. n : g[i] = LoopBody(g[i - 1], operations, i)
    BY <1>4
  <2> HIDE DEF g
  <2> QED
    BY <2>1, <2>2, <2>3, LoopIs
<1>6. g[n] = G(n)
  OBVIOUS
<1>7. G(n) = IF failing = {} THEN Progress(d, operations, n) ELSE stopped
  BY <1>2 DEF G
<1> QED
  BY <1>2, <1>5, <1>6, <1>7 DEF failing, first

\* Applied to a stored content the loop and the batch come to the same.
LEMMA BatchAndLoopAgree ==
  ASSUME NEW d \in Docs, NEW operations \in Seq(Operation)
  PROVE  LET loop == Loop(d, operations)
             error == BatchError(Stored(d), Ask(operations))
             result == ApplyAdminBatch(Stored(d), Ask(operations)) IN
         IF operations = <<>> THEN error = InvalidOperation
         ELSE IF loop.error # OK THEN error = loop.error
         ELSE /\ error = IF DocValid(loop.doc) THEN OK ELSE InvalidData
              /\ result.doc = loop.doc
              /\ result.trail = loop.staged
<1> DEFINE n == Len(operations)
           failing == FailingOperations(d, operations)
           loop == Loop(d, operations)
           error == BatchError(Stored(d), Ask(operations))
           result == ApplyAdminBatch(Stored(d), Ask(operations))
<1>1. /\ Stored(d).revision = 0 /\ Stored(d).doc = d /\ Stored(d).trail = <<>>
      /\ Ask(operations).expected = 0 /\ Ask(operations).operations = operations
      /\ Ask(operations).actor = Admin
  BY DEF Stored, Ask
<1>2. error = IF Accepts(Stored(d), Ask(operations)) THEN OK
              ELSE IF operations = <<>> THEN InvalidOperation
              ELSE IF failing # {} THEN OperationError(d, operations, Min(failing))
              ELSE InvalidData
  BY <1>1 DEF BatchError
<1>3. Accepts(Stored(d), Ask(operations)) <=>
        operations # <<>> /\ failing = {} /\ SnapshotValid(result)
  BY <1>1 DEF Accepts
<1>4. CASE operations = <<>>
  BY <1>2, <1>3, <1>4
<1>5. CASE operations # <<>> /\ failing # {}
  <2>1. /\ Min(failing) \in failing
        /\ loop = [Progress(d, operations, Min(failing) - 1)
                     EXCEPT !.error = OperationError(d, operations, Min(failing))]
    <3>1. n \in Nat
      OBVIOUS
    <3> QED
      BY <1>5, <3>1, LoopEnds
  <2>2. loop.error = OperationError(d, operations, Min(failing))
    BY <2>1 DEF Progress
  <2>3. loop.error # OK
    BY <2>1, <2>2 DEF FailingOperations
  <2> QED
    BY <1>2, <1>3, <1>5, <2>2, <2>3
<1>6. CASE operations # <<>> /\ failing = {}
  <2>1. n \in Nat /\ DOMAIN operations = 1 .. n
    OBVIOUS
  <2>2. loop = Progress(d, operations, n)
    BY <1>6, <2>1, LoopEnds
  <2>3. Prefix(operations, n) = operations
    BY <2>1 DEF Prefix
  <2>4. /\ loop.error = OK /\ loop.doc = NextDoc(d, operations)
        /\ loop.staged = Staged(d, operations, n)
    BY <2>2, <2>3 DEF Progress
  <2>5. result.doc = loop.doc
    BY <1>1, <2>4 DEF ApplyAdminBatch
  <2>6. result.trail = Staged(d, operations, n) /\ AuditTrailValid(result)
    <3>1. StagedAudits(Stored(d), Ask(operations)) = Staged(d, operations, n)
      BY <1>1 DEF StagedAudits, Staged
    <3> QED
      BY <3>1, FirstAudits
  <2>7. SnapshotValid(result) <=> DocValid(loop.doc)
    BY <2>5, <2>6 DEF SnapshotValid
  <2> QED
    BY <1>2, <1>3, <1>6, <2>4, <2>5, <2>6, <2>7
<1> QED
  BY <1>4, <1>5, <1>6

\* For any stored content and any batch, the loop of applyAdminBatch and the
\* batch as it is modelled agree.
LEMMA BatchesAreTheirLoops == CompanyValid => BatchIsItsLoop
BY BatchAndLoopAgree, BatchesAssumption DEF CompanyValid, BatchIsItsLoop

\* A batch does what the loop of applyAdminBatch does, operation by operation,
\* whatever has been stored before it.
THEOREM LoopsAreBatches == CompanySpec => []BatchIsItsLoop
BY CompanyInvariance, BatchesAreTheirLoops, PTL

-----------------------------------------------------------------------------
(* Deletions: the rows that go. *)

\* SetToSeq lists the elements of a finite set, each of them once.
LEMMA SetToSeqLists ==
  ASSUME NEW S, IsFiniteSet(S)
  PROVE  /\ SetToSeq(S) \in Seq(S)
         /\ Len(SetToSeq(S)) = Cardinality(S)
         /\ Cardinality(S) \in Nat
         /\ \A x \in S : \E i \in 1 .. Cardinality(S) : SetToSeq(S)[i] = x
         /\ \A i, j \in 1 .. Cardinality(S) :
              SetToSeq(S)[i] = SetToSeq(S)[j] => i = j
<1> DEFINE n == Cardinality(S)
           f == SetToSeq(S)
<1>1. n \in Nat /\ ExistsBijection(1 .. n, S)
  BY FS_CardinalityType
<1>2. \E g \in [1 .. n -> S] : IsInjective(g)
  BY <1>1 DEF ExistsBijection, Bijection, Injection
<1>3. f \in [1 .. n -> S] /\ IsInjective(f)
  BY <1>2 DEF SetToSeq
<1>4. f \in Injection(1 .. n, S)
  BY <1>3 DEF Injection
<1>5. Cardinality(1 .. n) = n
  <2>1. Cardinality(1 .. n) = IF 1 > n THEN 0 ELSE n - 1 + 1
    BY <1>1, FS_Interval
  <2> QED
    BY <1>1, <2>1
<1>6. f \in Surjection(1 .. n, S)
  BY <1>4, <1>5, FS_Injection
<1> HIDE DEF f
<1>7. /\ f \in [1 .. n -> S]
      /\ \A i, j \in 1 .. n : f[i] = f[j] => i = j
      /\ \A x \in S : \E i \in 1 .. n : f[i] = x
  BY <1>3, <1>6 DEF IsInjective, Surjection
<1>8. f \in Seq(S) /\ Len(f) = n
  BY <1>1, <1>7
<1> QED
  BY <1>1, <1>7, <1>8 DEF f

\* A function that is iterated from a start can be tabulated.
LEMMA Iterates ==
  ASSUME NEW V, NEW start \in V, NEW F \in [V -> V], NEW n \in Nat
  PROVE  \E f \in [0 .. n -> V] :
           f[0] = start /\ \A i \in 1 .. n : f[i] = F[f[i - 1]]
<1> DEFINE Table(f, k) == /\ f \in [0 .. k -> V] /\ f[0] = start
                          /\ \A i \in 1 .. k : f[i] = F[f[i - 1]]
           S == {k \in 0 .. n : \E f : Table(f, k)}
<1>1. 0 \in S
  <2>1. PICK z : z = [i \in 0 .. 0 |-> start]
    OBVIOUS
  <2>2. z \in [0 .. 0 -> V] /\ z[0] = start
    BY <2>1
  <2>3. \A i \in 1 .. 0 : z[i] = F[z[i - 1]]
    OBVIOUS
  <2>4. Table(z, 0)
    BY <2>2, <2>3
  <2> QED
    BY <2>4
<1>2. ASSUME NEW k \in 1 .. n, k - 1 \in S PROVE k \in S
  <2>1. PICK f : Table(f, k - 1)
    BY <1>2
  <2>2. f[k - 1] \in V
    BY <2>1
  <2>3. PICK g : g = [i \in 0 .. k |-> IF i = k THEN F[f[k - 1]] ELSE f[i]]
    OBVIOUS
  <2>4. /\ g \in [0 .. k -> V] /\ g[k] = F[f[k - 1]]
        /\ \A i \in 0 .. k - 1 : g[i] = f[i]
    BY <2>1, <2>2, <2>3
  <2>5. ASSUME NEW i \in 1 .. k PROVE g[i] = F[g[i - 1]]
    <3>1. CASE i = k
      BY <2>4, <3>1
    <3>2. CASE i # k
      <4>1. i \in 1 .. k - 1 /\ i \in 0 .. k - 1 /\ i - 1 \in 0 .. k - 1
        BY <3>2
      <4>2. f[i] = F[f[i - 1]]
        BY <2>1, <4>1
      <4> QED
        BY <2>4, <4>1, <4>2
    <3> QED
      BY <3>1, <3>2
  <2>6. Table(g, k)
    BY <2>1, <2>4, <2>5
  <2> QED
    BY <2>6
<1>3. 0 .. n \subseteq S
  <2> HIDE DEF S
  <2> QED
    BY <1>1, <1>2, UpTo
<1>4. n \in S
  BY <1>3
<1> QED
  BY <1>4

\* The rows that are put in the queue are rows, and never the company's.
LEMMA CascadeRows ==
  ASSUME NEW d, NEW ref
  PROVE  /\ Cascade(d, ref) \subseteq Rows(d)
         /\ \A r \in Cascade(d, ref) : r[1] # "housing_company"
<1>1. CASE ref[1] \notin {"asset", "cost_evidence", "financial_account"}
  BY <1>1 DEF Cascade
<1>2. CASE ref[1] = "asset"
  BY <1>2 DEF Cascade, OfType
<1>3. CASE ref[1] = "cost_evidence"
  BY <1>3 DEF Cascade, OfType
<1>4. CASE ref[1] = "financial_account"
  BY <1>4 DEF Cascade, OfType
<1> QED
  BY <1>1, <1>2, <1>3, <1>4

\* One round of the queue.
Round(d, refs) == refs \cup UNION {Cascade(d, ref) : ref \in refs}

LEMMA RoundRows ==
  ASSUME NEW d, NEW refs \in SUBSET Rows(d)
  PROVE  Round(d, refs) \in SUBSET Rows(d) /\ refs \subseteq Round(d, refs)
BY CascadeRows DEF Round

\* Deletes is what n rounds reach from the target, n the number of rows.
LEMMA DeletesReached ==
  ASSUME NEW d, NEW target \in Rows(d), NEW n \in Nat, n = Cardinality(Rows(d))
  PROVE  \E f \in [0 .. n -> SUBSET Rows(d)] :
           /\ f[0] = {target}
           /\ \A i \in 1 .. n : f[i] = Round(d, f[i - 1])
           /\ Deletes(d, target) = f[n]
<1> DEFINE V == SUBSET Rows(d)
           F == [refs \in V |-> Round(d, refs)]
           Unfolds(f) == f = [i \in 0 .. n |->
                                IF i = 0 THEN {target}
                                ELSE f[i - 1]
                                       \cup UNION {Cascade(d, ref) : ref \in f[i - 1]}]
           reached == CHOOSE f : Unfolds(f)
<1>0. /\ {target} \in V /\ F \in [V -> V]
      /\ \A refs \in V : F[refs] = Round(d, refs)
  BY RoundRows
<1> HIDE DEF V, F
<1>1. PICK g \in [0 .. n -> V] :
        g[0] = {target} /\ \A i \in 1 .. n : g[i] = F[g[i - 1]]
  <2>1. PICK start : start = {target}
    OBVIOUS
  <2>2. start \in V /\ F \in [V -> V]
    BY <1>0, <2>1
  <2>3. \E g \in [0 .. n -> V] :
          g[0] = start /\ \A i \in 1 .. n : g[i] = F[g[i - 1]]
    BY <2>2, Iterates
  <2> QED
    BY <2>1, <2>3
<1>2. Unfolds(g)
  <2>1. ASSUME NEW i \in 1 .. n
        PROVE  g[i] = g[i - 1] \cup UNION {Cascade(d, ref) : ref \in g[i - 1]}
    <3>1. g[i - 1] \in V /\ g[i] = F[g[i - 1]]
      <4>1. i - 1 \in 0 .. n
        OBVIOUS
      <4> QED
        BY <1>1, <4>1
    <3>2. g[i] = Round(d, g[i - 1])
      BY <1>0, <3>1
    <3> QED
      BY <3>2 DEF Round
  <2>2. g = [i \in 0 .. n |-> g[i]]
    BY <1>1
  <2>3. \A i \in 0 .. n : i # 0 => i \in 1 .. n
    OBVIOUS
  <2> QED
    BY <1>1, <2>1, <2>2, <2>3
<1>3. Unfolds(reached)
  <2> HIDE DEF Unfolds
  <2> QED
    BY <1>2
<1>4. Deletes(d, target) = reached[n]
  BY DEF Deletes
<1> HIDE DEF reached
<1>5. /\ reached[0] = {target}
      /\ \A i \in 1 .. n : reached[i] = Round(d, reached[i - 1])
      /\ reached = [i \in 0 .. n |-> reached[i]]
  <2> DEFINE R(i) == IF i = 0 THEN {target}
                     ELSE reached[i - 1]
                            \cup UNION {Cascade(d, ref) : ref \in reached[i - 1]}
  <2>1. reached = [i \in 0 .. n |-> R(i)]
    BY <1>3
  <2>2. /\ reached = [i \in 0 .. n |-> reached[i]]
        /\ \A i \in 0 .. n : reached[i] = R(i)
    <3> HIDE DEF R
    <3> QED
      BY <2>1
  <2>3. reached[0] = {target}
    <3>1. 0 \in 0 .. n
      OBVIOUS
    <3> QED
      BY <2>2, <3>1
  <2>4. ASSUME NEW i \in 1 .. n PROVE reached[i] = Round(d, reached[i - 1])
    <3>1. i \in 0 .. n /\ i # 0
      OBVIOUS
    <3>2. reached[i] = R(i)
      BY <2>2, <3>1
    <3> QED
      BY <3>1, <3>2 DEF Round
  <2> QED
    BY <2>2, <2>3, <2>4
<1>6. \A i \in 0 .. n : reached[i] \in V
  <2> DEFINE S == {i \in 0 .. n : reached[i] \in V}
  <2>1. 0 \in S
    <3>1. 0 \in 0 .. n /\ reached[0] \in V
      BY <1>0, <1>5
    <3> QED
      BY <3>1
  <2>2. ASSUME NEW i \in 1 .. n, i - 1 \in S PROVE i \in S
    <3>1. i \in 0 .. n
      OBVIOUS
    <3>2. reached[i - 1] \in V
      BY <2>2
    <3>3. reached[i] = Round(d, reached[i - 1])
      BY <1>5
    <3>4. reached[i] \in V
      BY ONLY <3>2, <3>3, RoundRows DEF V
    <3> QED
      BY <3>1, <3>4
  <2>3. 0 .. n \subseteq S
    <3> HIDE DEF S
    <3> QED
      BY <2>1, <2>2, UpTo
  <2> QED
    BY <2>3
<1>7. reached \in [0 .. n -> SUBSET Rows(d)]
  BY <1>5, <1>6 DEF V
<1> QED
  BY <1>4, <1>5, <1>7

\* What goes are rows, the target among them; with a row everything that it puts
\* in the queue; and nothing but the target that no other row has put there.
LEMMA DeletesClosed ==
  ASSUME NEW d, IsFiniteSet(Rows(d)), NEW target \in Rows(d)
  PROVE  /\ Deletes(d, target) \subseteq Rows(d)
         /\ target \in Deletes(d, target)
         /\ \A ref \in Deletes(d, target) :
              Cascade(d, ref) \subseteq Deletes(d, target)
         /\ \A r \in Deletes(d, target) :
              r = target \/ \E c \in Deletes(d, target) : r \in Cascade(d, c)
<1> DEFINE n == Cardinality(Rows(d))
           Caused(refs) == \A r \in refs :
                             r = target \/ \E c \in refs : r \in Cascade(d, c)
<1>1. n \in Nat
  BY FS_CardinalityType
<1>2. PICK f \in [0 .. n -> SUBSET Rows(d)] :
        /\ f[0] = {target}
        /\ \A i \in 1 .. n : f[i] = Round(d, f[i - 1])
        /\ Deletes(d, target) = f[n]
  BY <1>1, DeletesReached
<1>3. \A i \in 0 .. n :
        target \in f[i] /\ Caused(f[i]) /\ IsFiniteSet(f[i])
          /\ Cardinality(f[i]) \in Nat
  <2> DEFINE S == {i \in 0 .. n : target \in f[i] /\ Caused(f[i])}
  <2>1. 0 \in S
    BY <1>1, <1>2
  <2>2. ASSUME NEW i \in 1 .. n, i - 1 \in S PROVE i \in S
    <3>1. i \in 0 .. n /\ f[i] = Round(d, f[i - 1])
      BY <1>2
    <3>2. target \in f[i - 1] /\ Caused(f[i - 1])
      BY <2>2
    <3>3. target \in Round(d, f[i - 1]) /\ Caused(Round(d, f[i - 1]))
      BY <3>2 DEF Round
    <3> QED
      BY <3>1, <3>3
  <2>3. 0 .. n \subseteq S
    <3> HIDE DEF S
    <3> QED
      BY <1>1, <2>1, <2>2, UpTo
  <2>4. \A i \in 0 .. n : IsFiniteSet(f[i]) /\ Cardinality(f[i]) \in Nat
    BY <1>2, FS_Subset, FS_CardinalityType
  <2> QED
    BY <2>3, <2>4
<1>4. Round(d, f[n]) = f[n]
  <2> DEFINE S == {i \in 0 .. n : \/ Round(d, f[i]) = f[i]
                                \/ Cardinality(f[i]) >= i + 1}
  <2>1. 0 \in S
    <3>1. Cardinality(f[0]) = 1
      BY <1>2, FS_Singleton
    <3> QED
      BY <1>1, <3>1
  <2>2. ASSUME NEW i \in 1 .. n, i - 1 \in S PROVE i \in S
    <3>1. f[i] = Round(d, f[i - 1]) /\ f[i - 1] \in SUBSET Rows(d)
      BY <1>2, <2>2
    <3>2. CASE Round(d, f[i - 1]) = f[i - 1]
      BY <3>1, <3>2
    <3>3. CASE Round(d, f[i - 1]) # f[i - 1]
      <4>1. Cardinality(f[i - 1]) >= i
        BY <2>2, <3>3
      <4>2. f[i - 1] \subseteq f[i] /\ f[i - 1] # f[i]
        BY <3>1, <3>3, RoundRows
      <4>3. /\ Cardinality(f[i - 1]) <= Cardinality(f[i])
            /\ Cardinality(f[i - 1]) # Cardinality(f[i])
        BY <1>3, <4>2, FS_Subset
      <4>4. /\ Cardinality(f[i - 1]) \in Nat /\ Cardinality(f[i]) \in Nat
            /\ i \in Nat
        BY <1>1, <1>3
      <4>5. Cardinality(f[i]) >= i + 1
        BY <4>1, <4>3, <4>4
      <4> QED
        BY <4>5
    <3> QED
      BY <3>2, <3>3
  <2>3. n \in S
    <3>1. 0 .. n \subseteq S
      <4> HIDE DEF S
      <4> QED
        BY <1>1, <2>1, <2>2, UpTo
    <3> QED
      BY <1>1, <3>1
  <2>4. Cardinality(f[n]) <= n
    BY <1>1, <1>2, FS_Subset
  <2> QED
    BY <1>1, <1>3, <2>3, <2>4
<1> QED
  BY <1>1, <1>2, <1>3, <1>4 DEF Round

-----------------------------------------------------------------------------
(* Deletions: the rows that stay. *)

\* What is cleared of a row, and what is not.
LEMMA ClearedFacts ==
  ASSUME NEW d \in Docs, NEW ref \in Rows(d), NEW g
  PROVE  LET was == d[ref]
             is == Cleared(d, g, ref) IN
         /\ is \in ValuesOf(ref[1]) /\ is \in Values /\ is # Absent
         /\ ref[1] = "building_event" =>
              /\ was \in EventValue
              /\ is.status = was.status /\ is.asset = was.asset
              /\ is.rows = was.rows
              /\ is.observations = {o \in was.observations : Observation(o) \notin g}
         /\ ref[1] = "cost_evidence" =>
              /\ was \in CostEvidenceValue
              /\ is.asset = was.asset /\ is.status = was.status
              /\ is.level2026 = was.level2026
              /\ is.event = IF BuildingEvent(was.event) \in g THEN Absent
                            ELSE was.event
         /\ ref[1] \notin {"building_event", "cost_evidence"} => is = was
<1> DEFINE was == d[ref]
           is == Cleared(d, g, ref)
<1>1. /\ was \in ValuesOf(ref[1]) /\ was \in Values /\ was # Absent
  BY DEF Rows, Has, Docs
<1>2. CASE ref[1] = "building_event"
  <2>1. was \in EventValue
    BY <1>1, <1>2 DEF ValuesOf
  <2>2. is = [was EXCEPT !.observations =
                {o \in was.observations : Observation(o) \notin g}]
    BY <1>2 DEF Cleared
  <2>3. /\ is.status = was.status /\ is.asset = was.asset
        /\ is.rows = was.rows
        /\ is.observations = {o \in was.observations : Observation(o) \notin g}
        /\ is \in EventValue
    <3> HIDE DEF is, was
    <3> QED
      BY <2>1, <2>2 DEF EventValue
  <2>4. is \in ValuesOf(ref[1]) /\ is \in Values /\ is # Absent
    BY <1>2, <2>3, NoValueAssumption DEF ValuesOf, Values
  <2> QED
    BY <1>2, <2>1, <2>3, <2>4
<1>3. CASE ref[1] = "cost_evidence"
  <2>1. was \in CostEvidenceValue
    BY <1>1, <1>3 DEF ValuesOf
  <2>2. is = [was EXCEPT !.event =
                IF BuildingEvent(was.event) \in g THEN Absent ELSE was.event]
    BY <1>3 DEF Cleared
  <2>3. /\ is.asset = was.asset /\ is.status = was.status
        /\ is.level2026 = was.level2026
        /\ is.event = IF BuildingEvent(was.event) \in g THEN Absent
                      ELSE was.event
        /\ is \in CostEvidenceValue
    <3> HIDE DEF is, was
    <3> QED
      BY <2>1, <2>2 DEF CostEvidenceValue
  <2>4. is \in ValuesOf(ref[1]) /\ is \in Values /\ is # Absent
    BY <1>3, <2>3, NoValueAssumption DEF ValuesOf, Values
  <2> QED
    BY <1>3, <2>1, <2>3, <2>4
<1>4. CASE ref[1] \notin {"building_event", "cost_evidence"}
  <2>1. is = was
    BY <1>4 DEF Cleared
  <2> QED
    BY <1>1, <1>4, <2>1
<1> QED
  BY <1>2, <1>3, <1>4

\* What can put a row in the queue, by the types of the two.
LEMMA CascadeCases ==
  ASSUME NEW d, NEW ref, NEW r \in Cascade(d, ref)
  PROVE  /\ r \in Rows(d)
         /\ \/ /\ ref[1] = "asset" /\ d[r].asset = ref[2]
               /\ r[1] \in {"observation", "building_event", "cost_evidence"}
            \/ /\ ref[1] = "cost_evidence" /\ r[1] = "building_event"
               /\ EventCitesEvidence(d[r], ref[2])
            \/ /\ ref[1] = "cost_evidence" /\ r[1] = "price_level_confirmation"
               /\ r[2] = ref[2]
            \/ /\ ref[1] = "financial_account" /\ r[1] = "financial_entry"
               /\ r[2][1] = ref[2]
<1>1. CASE ref[1] \notin {"asset", "cost_evidence", "financial_account"}
  BY <1>1 DEF Cascade
<1>2. CASE ref[1] = "asset"
  BY <1>2 DEF Cascade, OfType
<1>3. CASE ref[1] = "cost_evidence"
  BY <1>3 DEF Cascade, OfType
<1>4. CASE ref[1] = "financial_account"
  BY <1>4 DEF Cascade, OfType
<1> QED
  BY <1>1, <1>2, <1>3, <1>4

\* A row that another puts in the queue names it, however it is cleared.
LEMMA CausesAreNamed ==
  ASSUME NEW d \in Docs, NEW ref \in Refs, NEW r \in Cascade(d, ref),
         NEW g, NEW after, after[r] = Cleared(d, g, r)
  PROVE  ref \in References(after, r)
<1>1. r \in Rows(d) /\ r \in Refs
  BY CascadeCases DEF Rows
<1>2. after[r] # Absent
  BY <1>1, ClearedFacts
<1>3. CASE ref[1] = "asset"
  <2>1. /\ d[r].asset = ref[2]
        /\ r[1] \in {"observation", "building_event", "cost_evidence"}
    BY <1>3, CascadeCases
  <2>2. ref = Asset(ref[2]) /\ ref[2] \in Assets
    BY <1>3, RefShapes, RefParts DEF LinkedTypes
  <2>3. after[r].asset = ref[2]
    BY <1>1, <2>1, ClearedFacts
  <2>4. ref[2] # Absent /\ Asset(ref[2]) \notin {Asset(Absent), BuildingEvent(Absent)}
    BY <2>2, AbsentAssumption, RefParts
  <2> QED
    BY <1>2, <2>1, <2>2, <2>3, <2>4 DEF References
<1>4. CASE ref[1] = "cost_evidence"
  <2>1. ref = CostEvidence(ref[2])
    BY <1>4, RefShapes, RefParts DEF LinkedTypes
  <2>2. CASE r[1] = "building_event"
    <3>1. EventCitesEvidence(d[r], ref[2])
      BY <1>4, <2>2, CascadeCases
    <3>2. \E row \in after[r].rows : row.evidence = ref[2]
      BY <1>1, <2>2, <3>1, ClearedFacts DEF EventCitesEvidence
    <3> QED
      BY <1>2, <2>1, <2>2, <3>2 DEF References
  <2>3. CASE r[1] # "building_event"
    <3>1. r[1] = "price_level_confirmation" /\ r[2] = ref[2]
      BY <1>4, <2>3, CascadeCases
    <3> QED
      BY <1>2, <2>1, <3>1 DEF References
  <2> QED
    BY <2>2, <2>3
<1>5. CASE ref[1] = "financial_account"
  <2>1. ref = FinancialAccount(ref[2])
    BY <1>5, RefShapes, RefParts DEF LinkedTypes
  <2>2. r[1] = "financial_entry" /\ r[2][1] = ref[2]
    BY <1>5, CascadeCases
  <2> QED
    BY <1>2, <2>1, <2>2 DEF References
<1> QED
  BY <1>3, <1>4, <1>5, CascadeCases

\* A row that still names one that goes, cleared as it is, goes with it.
LEMMA NamesLeftAreCauses ==
  ASSUME NEW d \in Docs, NEW r \in Rows(d), NEW g, NEW after,
         after[r] = Cleared(d, g, r), NEW named \in References(after, r), named \in g
  PROVE  r \in Cascade(d, named)
<1>1. after[r] # Absent /\ r \in OfType(d, r[1])
  BY ClearedFacts DEF OfType
<1>2. r[1] \in {"observation", "cost_evidence", "price_level_confirmation",
               "financial_entry", "building_event"}
  BY <1>1 DEF References
<1>3. CASE r[1] = "observation"
  <2>1. named = Asset(d[r].asset)
    BY <1>1, <1>3, ClearedFacts DEF References
  <2>2. named[1] = "asset" /\ named[2] = d[r].asset
    BY <2>1, RefParts
  <2> QED
    BY <1>1, <1>3, <2>2 DEF Cascade
<1>4. CASE r[1] = "cost_evidence"
  <2>1. named = Asset(d[r].asset)
    <3>1. /\ after[r].asset = d[r].asset
          /\ after[r].event = IF BuildingEvent(d[r].event) \in g THEN Absent
                              ELSE d[r].event
      BY <1>4, ClearedFacts
    <3>2. \/ named = Asset(after[r].asset)
          \/ named = BuildingEvent(after[r].event) /\ after[r].event # Absent
      BY <1>1, <1>4 DEF References
    <3> QED
      BY <3>1, <3>2
  <2>2. named[1] = "asset" /\ named[2] = d[r].asset
    BY <2>1, RefParts
  <2> QED
    BY <1>1, <1>4, <2>2 DEF Cascade
<1>5. CASE r[1] = "price_level_confirmation"
  <2>1. named = CostEvidence(r[2])
    BY <1>1, <1>5 DEF References
  <2>2. named[1] = "cost_evidence" /\ named[2] = r[2]
    BY <2>1, RefParts
  <2> QED
    BY <1>1, <1>5, <2>2 DEF Cascade
<1>6. CASE r[1] = "financial_entry"
  <2>1. named = FinancialAccount(r[2][1])
    BY <1>1, <1>6 DEF References
  <2>2. named[1] = "financial_account" /\ named[2] = r[2][1]
    BY <2>1, RefParts
  <2> QED
    BY <1>1, <1>6, <2>2 DEF Cascade
<1>7. CASE r[1] = "building_event"
  <2>1. /\ after[r].asset = d[r].asset /\ after[r].rows = d[r].rows
        /\ after[r].observations = {o \in d[r].observations : Observation(o) \notin g}
    BY <1>7, ClearedFacts
  <2>2. \/ named = Asset(d[r].asset)
        \/ \E o \in after[r].observations : named = Observation(o)
        \/ \E row \in d[r].rows : named = CostEvidence(row.evidence)
    BY <1>1, <1>7, <2>1 DEF References
  <2>3. \A o \in after[r].observations : named # Observation(o)
    BY <2>1
  <2>4. CASE named = Asset(d[r].asset)
    <3>1. named[1] = "asset" /\ named[2] = d[r].asset
      BY <2>4, RefParts
    <3> QED
      BY <1>1, <1>7, <3>1 DEF Cascade
  <2>5. ASSUME NEW row \in d[r].rows, named = CostEvidence(row.evidence)
        PROVE  r \in Cascade(d, named)
    <3>1. named[1] = "cost_evidence" /\ named[2] = row.evidence
      BY <2>5, RefParts
    <3>2. EventCitesEvidence(d[r], named[2])
      BY <2>5, <3>1 DEF EventCitesEvidence
    <3> QED
      BY <1>1, <1>7, <3>1, <3>2 DEF Cascade
  <2> QED
    BY <2>2, <2>3, <2>4, <2>5
<1> QED
  BY <1>2, <1>3, <1>4, <1>5, <1>6, <1>7

\* What stays when rows go: the others, cleared.
Survivors(d, gone, after) ==
  \A ref \in Refs : after[ref] = IF ref \in Rows(d) \ gone
                                THEN Cleared(d, gone, ref) ELSE Absent

\* The rows that go are more than the company's and whole: a row goes with what
\* it cannot do without, and a confirmation only with its evidence.
Whole(d, gone) ==
  /\ gone \subseteq Rows(d) /\ CompanyRef \notin gone
  /\ \A ref \in gone : Cascade(d, ref) \subseteq gone
  /\ \A c \in Evidence :
       PriceLevelConfirmation(c) \in gone => CostEvidence(c) \in gone

\* What stays names nothing that goes.
LEMMA SurvivorsNameSurvivors ==
  ASSUME NEW d \in Docs, NEW gone, NEW after, Whole(d, gone),
         Survivors(d, gone, after)
  PROVE  NothingNames(after, gone)
<1> SUFFICES ASSUME NEW ref \in Refs, NEW named \in References(after, ref),
                    named \in gone
             PROVE  FALSE
  BY DEF NothingNames
<1>1. after[ref] # Absent
  BY DEF References
<1>2. ref \in Rows(d) \ gone /\ after[ref] = Cleared(d, gone, ref)
  BY <1>1 DEF Survivors
<1>3. ref \in Cascade(d, named)
  BY <1>2, NamesLeftAreCauses
<1> QED
  BY <1>2, <1>3 DEF Whole

\* What stays breaks no rule.
LEMMA SurvivorsAreValid ==
  ASSUME NEW d \in Docs, DocValid(d), NEW gone, NEW after, Whole(d, gone),
         Survivors(d, gone, after)
  PROVE  DocValid(after)
<1>1. \A ref \in Refs : Has(after, ref) <=> Has(d, ref) /\ ref \notin gone
  BY ClearedFacts DEF Survivors, Has, Rows
<1>2. \A ref \in Refs : Has(after, ref) =>
        ref \in Rows(d) /\ after[ref] = Cleared(d, gone, ref) /\ after[ref] # Absent
  BY <1>1 DEF Survivors, Rows, Has
<1>3. ASSUME NEW ref \in Refs, Has(after, ref), NEW named \in References(after, ref),
             Has(d, named), named \in Refs
      PROVE  Has(after, named)
  BY <1>1, <1>3, SurvivorsNameSurvivors DEF NothingNames
<1>4. /\ CompanyRef \in Refs
      /\ \A a \in Assets : Asset(a) \in Refs
      /\ \A o \in Observations : Observation(o) \in Refs
      /\ \A c \in Evidence :
           CostEvidence(c) \in Refs /\ PriceLevelConfirmation(c) \in Refs
      /\ \A x \in Events : BuildingEvent(x) \in Refs
      /\ \A k \in Accounts : FinancialAccount(k) \in Refs
      /\ \A k \in Accounts, y \in Years : FinancialEntry(k, y) \in Refs
  BY DEF Refs
<1>5. HousingCompanyValid(after)
  BY <1>1, <1>4 DEF Whole, DocValid, HousingCompanyValid
<1>6. ObservationsValid(after)
  <2> SUFFICES ASSUME NEW o \in Observations, Has(after, Observation(o))
               PROVE  Has(after, Asset(after[Observation(o)].asset))
    BY DEF ObservationsValid
  <2>1. Has(d, Observation(o)) /\ Observation(o) \in Rows(d)
    BY <1>1, <1>4 DEF Rows
  <2>2. after[Observation(o)] = d[Observation(o)]
    BY <1>2, <1>4, <2>1, ClearedFacts, RefParts
  <2>3. d[Observation(o)].asset \in Assets
    BY <2>1, RowTypes DEF ObservationValue
  <2>4. Has(d, Asset(d[Observation(o)].asset))
    BY <2>1 DEF DocValid, ObservationsValid
  <2>5. Asset(after[Observation(o)].asset) \in References(after, Observation(o))
    BY <1>2, <1>4, RefParts DEF References
  <2> QED
    BY <1>3, <1>4, <2>2, <2>3, <2>4, <2>5
<1>7. CostEvidenceValid(after)
  <2> SUFFICES ASSUME NEW c \in Evidence, after[CostEvidence(c)] # Absent
               PROVE  LET value == after[CostEvidence(c)] IN
                      /\ value.asset # Absent => Has(after, Asset(value.asset))
                      /\ value.event # Absent =>
                           Has(after, BuildingEvent(value.event))
    BY DEF CostEvidenceValid
  <2> DEFINE ref == CostEvidence(c)
  <2>1. /\ ref \in Refs /\ Has(after, ref) /\ Has(d, ref) /\ ref \in Rows(d)
        /\ ref[1] = "cost_evidence" /\ after[ref] = Cleared(d, gone, ref)
    BY <1>1, <1>2, <1>4, RefParts DEF Has
  <2>2. /\ after[ref].asset = d[ref].asset
        /\ after[ref].event = IF BuildingEvent(d[ref].event) \in gone THEN Absent
                              ELSE d[ref].event
        /\ d[ref].asset \in Assets \cup {Absent}
        /\ d[ref].event \in Events \cup {Absent}
    BY <2>1, ClearedFacts DEF CostEvidenceValue
  <2>3. /\ d[ref].asset # Absent => Has(d, Asset(d[ref].asset))
        /\ d[ref].event # Absent => Has(d, BuildingEvent(d[ref].event))
    BY <2>1 DEF DocValid, CostEvidenceValid, Has
  <2> HIDE DEF ref
  <2>4. ASSUME after[ref].asset # Absent PROVE Has(after, Asset(after[ref].asset))
    <3>1. Asset(after[ref].asset) \in References(after, ref)
      <4>1. after[ref].asset \in Assets
        BY <2>2, <2>4
      <4>2. Asset(after[ref].asset) \notin {Asset(Absent), BuildingEvent(Absent)}
        BY <2>4, RefParts
      <4> QED
        BY <1>2, <2>1, <4>2 DEF References
    <3> QED
      BY <1>3, <1>4, <2>1, <2>2, <2>3, <2>4, <3>1
  <2>5. ASSUME after[ref].event # Absent
        PROVE  Has(after, BuildingEvent(after[ref].event))
    BY <1>1, <1>4, <2>2, <2>3, <2>5
  <2> QED
    BY <2>4, <2>5 DEF ref
<1>8. PriceLevelConfirmationsValid(after)
  <2> SUFFICES ASSUME NEW c \in Evidence, Has(after, PriceLevelConfirmation(c))
               PROVE  Has(after, CostEvidence(c))
    BY DEF PriceLevelConfirmationsValid
  <2>1. Has(d, CostEvidence(c))
    BY <1>1, <1>4 DEF DocValid, PriceLevelConfirmationsValid
  <2>2. CostEvidence(c) \in References(after, PriceLevelConfirmation(c))
    BY <1>2, <1>4, RefParts DEF References
  <2> QED
    BY <1>3, <1>4, <2>1, <2>2
<1>9. FinancialEntriesValid(after)
  <2> SUFFICES ASSUME NEW k \in Accounts, NEW y \in Years,
                      Has(after, FinancialEntry(k, y))
               PROVE  Has(after, FinancialAccount(k))
    BY DEF FinancialEntriesValid
  <2>1. Has(d, FinancialAccount(k))
    BY <1>1, <1>4 DEF DocValid, FinancialEntriesValid
  <2>2. FinancialAccount(k) \in References(after, FinancialEntry(k, y))
    BY <1>2, <1>4, RefParts DEF References
  <2> QED
    BY <1>3, <1>4, <2>1, <2>2
<1>10. EventsValid(after)
  <2> SUFFICES ASSUME NEW e \in Events, after[BuildingEvent(e)] # Absent
               PROVE  /\ EventRuntimeValid(after[BuildingEvent(e)])
                      /\ EventObservationsValid(after, after[BuildingEvent(e)])
                      /\ EventBaseValid(after, after[BuildingEvent(e)])
                      /\ EventEvidenceValid(after, e, after[BuildingEvent(e)])
    BY DEF EventsValid
  <2> DEFINE ref == BuildingEvent(e)
             was == d[ref]
             is == after[ref]
  <2>1. /\ ref \in Refs /\ Has(after, ref) /\ Has(d, ref) /\ ref \in Rows(d)
        /\ ref[1] = "building_event" /\ is = Cleared(d, gone, ref) /\ is # Absent
    BY <1>1, <1>2, <1>4, RefParts DEF Has
  <2>2. /\ was \in EventValue
        /\ is.status = was.status /\ is.asset = was.asset /\ is.rows = was.rows
        /\ is.observations = {o \in was.observations : Observation(o) \notin gone}
    BY <2>1, ClearedFacts
  <2>3. /\ EventRuntimeValid(was) /\ EventObservationsValid(d, was)
        /\ EventBaseValid(d, was) /\ EventEvidenceValid(d, e, was)
    BY <2>1 DEF DocValid, EventsValid, Has
  <2>4. /\ was.asset \in Assets /\ was.observations \subseteq Observations
        /\ \A row \in was.rows : row.evidence \in Evidence
    BY <2>2 DEF EventValue, ScheduleRow
  <2>5. /\ Asset(is.asset) \in References(after, ref)
        /\ \A row \in is.rows : CostEvidence(row.evidence) \in References(after, ref)
    BY <2>1 DEF References
  <2> HIDE DEF was, is
  <2>6. EventRuntimeValid(is)
    BY <2>2, <2>3 DEF EventRuntimeValid
  <2>7. EventObservationsValid(after, is)
    <3> SUFFICES ASSUME NEW o \in is.observations
                 PROVE  /\ Has(after, Observation(o))
                        /\ after[Observation(o)].asset = is.asset
      BY DEF EventObservationsValid
    <3>1. o \in Observations /\ Observation(o) \notin gone /\ o \in was.observations
      BY <2>2, <2>4
    <3>2. Has(d, Observation(o)) /\ d[Observation(o)].asset = was.asset
      BY <2>3, <3>1 DEF EventObservationsValid
    <3>3. Has(after, Observation(o))
      BY <1>1, <1>4, <3>1, <3>2
    <3>4. after[Observation(o)] = d[Observation(o)]
      BY <1>2, <1>4, <3>1, <3>3, ClearedFacts, RefParts
    <3> QED
      BY <2>2, <3>2, <3>3, <3>4
  <2>8. EventBaseValid(after, is)
    <3>1. /\ Has(d, Asset(was.asset))
          /\ was.status \in {"suggested", "approved"} => d[Asset(was.asset)].active
      BY <2>3 DEF EventBaseValid
    <3>2. Has(after, Asset(is.asset))
      BY <1>3, <1>4, <2>1, <2>2, <2>4, <2>5, <3>1
    <3>3. after[Asset(was.asset)] = d[Asset(was.asset)]
      BY <1>2, <1>4, <2>2, <2>4, <3>2, ClearedFacts, RefParts
    <3> QED
      BY <2>2, <3>1, <3>2, <3>3 DEF EventBaseValid
  <2>9. EventEvidenceValid(after, e, is)
    <3> SUFFICES ASSUME is.status # "cancelled", NEW row \in is.rows
                 PROVE  /\ Has(after, CostEvidence(row.evidence))
                        /\ EvidenceOwned(after[CostEvidence(row.evidence)], e, is)
                        /\ RowAmountValid(after, is, row)
      BY DEF EventEvidenceValid
    <3> DEFINE c == row.evidence
    <3>1. was.status # "cancelled" /\ row \in was.rows /\ c \in Evidence
      BY <2>2, <2>4
    <3>2. /\ Has(d, CostEvidence(c))
          /\ EvidenceOwned(d[CostEvidence(c)], e, was)
          /\ RowAmountValid(d, was, row)
      BY <2>3, <3>1 DEF EventEvidenceValid
    <3>3. Has(after, CostEvidence(c))
      BY <1>3, <1>4, <2>1, <2>5, <3>1, <3>2
    <3>4. /\ after[CostEvidence(c)].asset = d[CostEvidence(c)].asset
          /\ after[CostEvidence(c)].status = d[CostEvidence(c)].status
          /\ after[CostEvidence(c)].level2026 = d[CostEvidence(c)].level2026
          /\ after[CostEvidence(c)].event \in {d[CostEvidence(c)].event, Absent}
      BY <1>2, <1>4, <3>1, <3>3, ClearedFacts, RefParts
    <3>5. EvidenceOwned(after[CostEvidence(c)], e, is)
      BY <2>2, <3>2, <3>4 DEF EvidenceOwned
    <3>6. Has(d, PriceLevelConfirmation(c)) => Has(after, PriceLevelConfirmation(c))
      BY <1>1, <1>4, <3>1, <3>3 DEF Whole
    <3>7. RowAmountValid(after, is, row)
      BY <2>2, <3>2, <3>4, <3>6 DEF RowAmountValid
    <3> QED
      BY <3>3, <3>5, <3>7
  <2> QED
    BY <2>6, <2>7, <2>8, <2>9 DEF is, ref
<1> QED
  BY <1>5, <1>6, <1>7, <1>8, <1>9, <1>10 DEF DocValid

\* What a deletion takes with it is whole.
LEMMA DeletesWhole ==
  ASSUME NEW d \in Docs, IsFiniteSet(Rows(d)), NEW target \in Rows(d),
         target[1] \in Offered
  PROVE  Whole(d, Deletes(d, target)) /\ target \in Deletes(d, target)
<1> DEFINE gone == Deletes(d, target)
<1>1. /\ gone \subseteq Rows(d) /\ target \in gone
      /\ \A ref \in gone : Cascade(d, ref) \subseteq gone
      /\ \A r \in gone : r = target \/ \E c \in gone : r \in Cascade(d, c)
  BY DeletesClosed
<1> HIDE DEF gone
<1>2. CompanyRef \notin gone
  BY <1>1, OfferedAssumption, CascadeRows, RefParts
<1>3. ASSUME NEW c \in Evidence, PriceLevelConfirmation(c) \in gone
      PROVE  CostEvidence(c) \in gone
  <2> DEFINE r == PriceLevelConfirmation(c)
  <2>1. r[1] = "price_level_confirmation" /\ r[2] = c
    BY RefParts
  <2>2. PICK cause \in gone : r \in Cascade(d, cause)
    BY <1>1, <1>3, <2>1, OfferedAssumption
  <2>3. cause[1] = "cost_evidence" /\ cause[2] = c
    BY <2>1, <2>2, CascadeCases
  <2>4. cause \in Refs
    BY <1>1 DEF Rows
  <2>5. cause = CostEvidence(c)
    BY <2>3, <2>4, RefShapes, RefParts DEF LinkedTypes
  <2> QED
    BY <2>5
<1> QED
  BY <1>1, <1>2, <1>3 DEF Whole, gone

-----------------------------------------------------------------------------
(* Deletions: the operations. *)

SaveOf(d, gone, ref) ==
  [kind |-> "save", ref |-> ref, value |-> Cleared(d, gone, ref),
   sources |-> {Source}]

DeleteOf(ref) ==
  [kind |-> "delete", ref |-> ref, value |-> Absent, sources |-> {Source}]

\* No more things are made of a finite set.
LEMMA ImageIsFinite ==
  ASSUME NEW S, IsFiniteSet(S), NEW T, NEW f \in [S -> T],
         \A y \in T : \E x \in S : f[x] = y
  PROVE  IsFiniteSet(T)
<1>1. f \in Surjection(S, T)
  BY DEF Surjection
<1> QED
  BY <1>1, FS_Surjection

\* The operations of a plan: each row that stays and is rewritten is saved,
\* each row that goes is deleted, and none is named twice.
LEMMA PlannedOperations ==
  ASSUME NEW d, IsFiniteSet(Rows(d)), NEW target,
         NEW gone, gone = Deletes(d, target), gone \subseteq Rows(d)
  PROVE  LET operations == DeletionOperations(d, target)
             rewritten == Updates(d, gone) IN
         \E n \in Nat :
           /\ Len(operations) = n /\ DOMAIN operations = 1 .. n
           /\ \E S : operations \in Seq(S)
           /\ \A i \in 1 .. n :
                \/ \E ref \in rewritten : operations[i] = SaveOf(d, gone, ref)
                \/ \E ref \in gone : operations[i] = DeleteOf(ref)
           /\ \A ref \in rewritten :
                \E i \in 1 .. n : operations[i] = SaveOf(d, gone, ref)
           /\ \A ref \in gone : \E i \in 1 .. n : operations[i] = DeleteOf(ref)
           /\ \A i, j \in 1 .. n : operations[i].ref = operations[j].ref => i = j
<1> DEFINE rewritten == Updates(d, gone)
           saves == {SaveOf(d, gone, ref) : ref \in rewritten}
           deletes == {DeleteOf(ref) : ref \in gone}
           s == SetToSeq(saves)
           t == SetToSeq(deletes)
           S == saves \cup deletes
<1>1. IsFiniteSet(saves)
  <2>1. IsFiniteSet(rewritten)
    <3>1. rewritten \in SUBSET Rows(d)
      BY DEF Updates
    <3> HIDE DEF rewritten
    <3> QED
      BY <3>1, FS_Subset
  <2> HIDE DEF rewritten
  <2>2. PICK f : f = [ref \in rewritten |-> SaveOf(d, gone, ref)]
    OBVIOUS
  <2>3. f \in [rewritten -> saves] /\ \A op \in saves : \E ref \in rewritten : f[ref] = op
    BY <2>2
  <2> HIDE DEF saves
  <2> QED
    BY <2>1, <2>3, ImageIsFinite
<1>2. IsFiniteSet(deletes)
  <2>1. IsFiniteSet(gone)
    BY FS_Subset
  <2>2. PICK f : f = [ref \in gone |-> DeleteOf(ref)]
    OBVIOUS
  <2>3. f \in [gone -> deletes] /\ \A op \in deletes : \E ref \in gone : f[ref] = op
    BY <2>2
  <2> HIDE DEF deletes
  <2> QED
    BY <2>1, <2>3, ImageIsFinite
<1>3. DeletionOperations(d, target) = s \o t
  BY DEF DeletionOperations, SaveOf, DeleteOf
<1>4. rewritten \cap gone = {}
  BY DEF Updates
<1>5. /\ \A ref : SaveOf(d, gone, ref).ref = ref /\ DeleteOf(ref).ref = ref
      /\ \A op \in saves : op.ref \in rewritten /\ op = SaveOf(d, gone, op.ref)
      /\ \A op \in deletes : op.ref \in gone /\ op = DeleteOf(op.ref)
  BY DEF SaveOf, DeleteOf
<1> DEFINE a == Cardinality(saves)
           b == Cardinality(deletes)
<1>6. /\ s \in Seq(saves) /\ Len(s) = a /\ a \in Nat
      /\ \A x \in saves : \E i \in 1 .. a : s[i] = x
      /\ \A i, j \in 1 .. a : s[i] = s[j] => i = j
  <2> HIDE DEF saves
  <2> QED
    BY <1>1, SetToSeqLists
<1>7. /\ t \in Seq(deletes) /\ Len(t) = b /\ b \in Nat
      /\ \A x \in deletes : \E i \in 1 .. b : t[i] = x
      /\ \A i, j \in 1 .. b : t[i] = t[j] => i = j
  <2> HIDE DEF deletes
  <2> QED
    BY <1>2, SetToSeqLists
<1> HIDE DEF s, t, saves, deletes, a, b, rewritten
<1>8. s \in Seq(S) /\ t \in Seq(S)
  <2>1. saves \subseteq S /\ deletes \subseteq S
    OBVIOUS
  <2> HIDE DEF S
  <2> QED
    BY <1>6, <1>7, <2>1
<1> DEFINE u == s \o t
           n == a + b
<1>9. /\ u \in Seq(S) /\ Len(u) = n
      /\ \A k \in 1 .. a : u[k] = s[k]
      /\ \A k \in 1 .. b : u[a + k] = t[k]
  <2> HIDE DEF S
  <2>1. /\ s \o t \in Seq(S)
        /\ Len(s \o t) = Len(s) + Len(t)
        /\ \A k \in 1 .. Len(s) : (s \o t)[k] = s[k]
        /\ \A k \in 1 .. Len(t) : (s \o t)[Len(s) + k] = t[k]
    BY <1>8, ConcatElements
  <2> QED
    BY <1>6, <1>7, <2>1
<1> HIDE DEF u
<1>10. n \in Nat /\ DOMAIN u = 1 .. n
  BY <1>6, <1>7, <1>9
<1>11. \A i \in 1 .. n : \/ i \in 1 .. a
                         \/ i - a \in 1 .. b /\ a + (i - a) = i
  BY <1>6, <1>7
<1>12. ASSUME NEW i \in 1 .. n
       PROVE  \/ /\ i \in 1 .. a /\ u[i] = s[i] /\ u[i] \in saves
              \/ /\ i - a \in 1 .. b /\ u[i] = t[i - a] /\ u[i] \in deletes
  <2>1. CASE i \in 1 .. a
    <3>1. s[i] \in saves
      BY <1>6, <2>1
    <3> QED
      BY <1>9, <2>1, <3>1
  <2>2. CASE i - a \in 1 .. b /\ a + (i - a) = i
    <3>1. t[i - a] \in deletes
      BY <1>7, <2>2
    <3>2. u[a + (i - a)] = t[i - a]
      BY <1>9, <2>2
    <3> QED
      BY <2>2, <3>1, <3>2
  <2> QED
    BY <1>11, <2>1, <2>2
<1>13. \A i \in 1 .. n : \/ \E ref \in rewritten : u[i] = SaveOf(d, gone, ref)
                        \/ \E ref \in gone : u[i] = DeleteOf(ref)
  BY <1>5, <1>12
<1>14. ASSUME NEW ref \in rewritten
       PROVE  \E i \in 1 .. n : u[i] = SaveOf(d, gone, ref)
  <2>1. SaveOf(d, gone, ref) \in saves
    BY DEF saves
  <2>2. PICK i \in 1 .. a : s[i] = SaveOf(d, gone, ref)
    BY <1>6, <2>1
  <2>3. i \in 1 .. n
    BY <1>6, <1>7
  <2> QED
    BY <1>9, <2>2, <2>3
<1>15. ASSUME NEW ref \in gone
       PROVE  \E i \in 1 .. n : u[i] = DeleteOf(ref)
  <2>1. DeleteOf(ref) \in deletes
    BY DEF deletes
  <2>2. PICK i \in 1 .. b : t[i] = DeleteOf(ref)
    BY <1>7, <2>1
  <2>3. a + i \in 1 .. n
    BY <1>6, <1>7
  <2> QED
    BY <1>9, <2>2, <2>3
<1>16. ASSUME NEW i \in 1 .. n, NEW j \in 1 .. n, u[i].ref = u[j].ref
       PROVE  i = j
  <2>1. CASE i \in 1 .. a /\ u[i] = s[i] /\ u[i] \in saves
    <3>1. u[j] \in saves /\ u[j] = u[i]
      BY <1>4, <1>5, <1>12, <1>16, <2>1
    <3>2. j \in 1 .. a /\ u[j] = s[j]
      BY <1>4, <1>5, <1>12, <3>1
    <3> QED
      BY <1>6, <2>1, <3>1, <3>2
  <2>2. CASE i - a \in 1 .. b /\ u[i] = t[i - a] /\ u[i] \in deletes
    <3>1. u[j] \in deletes /\ u[j] = u[i]
      BY <1>4, <1>5, <1>12, <1>16, <2>2
    <3>2. j - a \in 1 .. b /\ u[j] = t[j - a]
      BY <1>4, <1>5, <1>12, <3>1
    <3>3. i - a = j - a
      BY <1>7, <2>2, <3>1, <3>2
    <3> QED
      BY <1>6, <3>3
  <2> QED
    BY <1>12, <2>1, <2>2
<1>17. \E S0 : u \in Seq(S0)
  BY <1>9
<1> HIDE DEF n
<1>18. \E m \in Nat :
         /\ Len(u) = m /\ DOMAIN u = 1 .. m
         /\ \E S0 : u \in Seq(S0)
         /\ \A i \in 1 .. m :
              \/ \E ref \in rewritten : u[i] = SaveOf(d, gone, ref)
              \/ \E ref \in gone : u[i] = DeleteOf(ref)
         /\ \A ref \in rewritten :
              \E i \in 1 .. m : u[i] = SaveOf(d, gone, ref)
         /\ \A ref \in gone : \E i \in 1 .. m : u[i] = DeleteOf(ref)
         /\ \A i, j \in 1 .. m : u[i].ref = u[j].ref => i = j
  BY <1>9, <1>10, <1>13, <1>14, <1>15, <1>16, <1>17
<1>19. DeletionOperations(d, target) = u
  BY <1>3 DEF u
<1> QED
  BY <1>18, <1>19 DEF rewritten

\* A row that is rewritten names one that goes.
LEMMA RewrittenNames ==
  ASSUME NEW d \in Docs, NEW r \in Rows(d), NEW g, Cleared(d, g, r) # d[r]
  PROVE  \E named \in References(d, r) : named \in g
<1>1. d[r] # Absent /\ r[1] \in {"building_event", "cost_evidence"}
  BY ClearedFacts DEF Rows, Has
<1>2. CASE r[1] = "building_event"
  <2>1. /\ d[r] \in EventValue
        /\ Cleared(d, g, r) = [d[r] EXCEPT !.observations =
              {o \in d[r].observations : Observation(o) \notin g}]
    BY <1>2, ClearedFacts DEF Cleared
  <2>2. \E o \in d[r].observations : Observation(o) \in g
    <3> SUFFICES ASSUME \A o \in d[r].observations : Observation(o) \notin g
                 PROVE  FALSE
      OBVIOUS
    <3>1. {o \in d[r].observations : Observation(o) \notin g} = d[r].observations
      OBVIOUS
    <3>2. [d[r] EXCEPT !.observations = d[r].observations] = d[r]
      BY <2>1 DEF EventValue
    <3> QED
      BY <2>1, <3>1, <3>2
  <2> QED
    BY <1>1, <1>2, <2>2 DEF References
<1>3. CASE r[1] = "cost_evidence"
  <2>1. /\ d[r] \in CostEvidenceValue
        /\ Cleared(d, g, r) = [d[r] EXCEPT !.event =
              IF BuildingEvent(d[r].event) \in g THEN Absent ELSE d[r].event]
    BY <1>3, ClearedFacts DEF Cleared
  <2>2. BuildingEvent(d[r].event) \in g /\ d[r].event # Absent
    <3>1. [d[r] EXCEPT !.event = d[r].event] = d[r]
      BY <2>1 DEF CostEvidenceValue
    <3> QED
      BY <2>1, <3>1
  <2>3. BuildingEvent(d[r].event) \notin {Asset(Absent), BuildingEvent(Absent)}
    BY <2>2, RefParts
  <2> QED
    BY <1>1, <1>3, <2>2, <2>3 DEF References
<1> QED
  BY <1>1, <1>2, <1>3

\* The batch of a plan is accepted, and leaves what stays.
LEMMA PlanIsAccepted ==
  ASSUME NEW d \in Docs, DocValid(d), IsFiniteSet(Rows(d)),
         NEW target \in Rows(d), target[1] \in Offered,
         NEW operations, operations = DeletionOperations(d, target),
         NEW gone, gone = Deletes(d, target)
  PROVE  /\ operations \in Seq(Operation)
         /\ Accepts(Stored(d), Ask(operations))
         /\ Survivors(d, gone, NextDoc(d, operations))
         /\ Removed(operations) = gone
<1> DEFINE rewritten == Updates(d, gone)
<1>1. /\ Whole(d, gone) /\ target \in gone
      /\ gone \subseteq Rows(d) /\ CompanyRef \notin gone
  BY DeletesWhole DEF Whole
<1>2. PICK n \in Nat :
        /\ Len(operations) = n /\ DOMAIN operations = 1 .. n
        /\ \E S : operations \in Seq(S)
        /\ \A i \in 1 .. n :
             \/ \E ref \in rewritten : operations[i] = SaveOf(d, gone, ref)
             \/ \E ref \in gone : operations[i] = DeleteOf(ref)
        /\ \A ref \in rewritten :
             \E i \in 1 .. n : operations[i] = SaveOf(d, gone, ref)
        /\ \A ref \in gone : \E i \in 1 .. n : operations[i] = DeleteOf(ref)
        /\ \A i, j \in 1 .. n : operations[i].ref = operations[j].ref => i = j
  BY <1>1, PlannedOperations
<1>3. /\ rewritten \subseteq Rows(d) \ gone
      /\ \A ref \in Rows(d) \ gone : ref \notin rewritten =>
           Cleared(d, gone, ref) = d[ref]
      /\ Rows(d) \subseteq Refs
  BY DEF Updates, Rows
<1> HIDE DEF rewritten
<1>4. ASSUME NEW ref \in rewritten
      PROVE  SaveOf(d, gone, ref) \in Operation
  <2>1. ref \in Rows(d) /\ ref \in Targets
    BY <1>3 DEF Targets
  <2>2. /\ Cleared(d, gone, ref) \in ValuesOf(ref[1])
        /\ Cleared(d, gone, ref) \in Values
    BY <2>1, ClearedFacts
  <2>3. Source \in Sources
    BY SourcesAssumption DEF Source
  <2> QED
    BY <2>1, <2>2, <2>3 DEF SaveOf, Operation
<1>5. ASSUME NEW ref \in gone
      PROVE  DeleteOf(ref) \in Operation
  <2>1. ref \in Targets
    BY <1>1, <1>3 DEF Targets
  <2>2. Source \in Sources
    BY SourcesAssumption DEF Source
  <2> QED
    BY <2>1, <2>2 DEF DeleteOf, Operation
<1>6. \A i \in 1 .. n : operations[i] \in Operation
  BY <1>2, <1>4, <1>5
<1>7. operations \in Seq(Operation)
  BY <1>2, <1>6
<1>8. ASSUME NEW i \in 1 .. n
      PROVE  OperationError(d, operations, i) = OK
  <2>1. \A j \in 1 .. i - 1 : operations[j].ref # operations[i].ref
    BY <1>2
  <2>2. ASSUME NEW ref \in rewritten, operations[i] = SaveOf(d, gone, ref)
        PROVE  OperationError(d, operations, i) = OK
    <3>1. /\ operations[i].kind = "save" /\ operations[i].ref = ref
          /\ operations[i].value = Cleared(d, gone, ref)
          /\ operations[i].sources # {}
      BY <2>2 DEF SaveOf
    <3>2. ref \in Refs /\ ref \in Rows(d)
      BY <1>3
    <3>3. ref[1] = "building_event" => EventRuntimeValid(Cleared(d, gone, ref))
      <4> SUFFICES ASSUME ref[1] = "building_event"
                   PROVE  EventRuntimeValid(Cleared(d, gone, ref))
        OBVIOUS
      <4>1. PICK e \in Events : ref = BuildingEvent(e)
        BY <3>2, RefShapes, RefParts DEF LinkedTypes
      <4>2. EventRuntimeValid(d[ref])
        BY <3>2, <4>1 DEF Rows, Has, DocValid, EventsValid
      <4> QED
        BY <3>2, <4>2, ClearedFacts DEF EventRuntimeValid
    <3> QED
      BY <2>1, <3>1, <3>2, <3>3 DEF OperationError
  <2>3. ASSUME NEW ref \in gone, operations[i] = DeleteOf(ref)
        PROVE  OperationError(d, operations, i) = OK
    <3>1. /\ operations[i].kind = "delete" /\ operations[i].ref = ref
          /\ operations[i].sources # {}
      BY <2>3 DEF DeleteOf
    <3>2. ref \in Refs /\ Has(d, ref)
      BY <1>1, <1>3 DEF Rows
    <3>3. Deletable(ref)
      BY <1>1, <3>2, RefShapes, RefParts DEF Deletable, LinkedTypes
    <3> QED
      BY <2>1, <3>1, <3>2, <3>3 DEF OperationError
  <2> QED
    BY <1>2, <2>2, <2>3
<1>9. FailingOperations(d, operations) = {}
  BY <1>2, <1>8 DEF FailingOperations
<1>10. Survivors(d, gone, NextDoc(d, operations))
  <2> SUFFICES ASSUME NEW ref \in Refs
               PROVE  NextDoc(d, operations)[ref] =
                        IF ref \in Rows(d) \ gone THEN Cleared(d, gone, ref) ELSE Absent
    BY DEF Survivors
  <2>1. CASE ref \in gone
    <3>1. PICK i \in 1 .. n : operations[i] = DeleteOf(ref)
      BY <1>2, <2>1
    <3>2. NextDoc(d, operations)[ref] = Absent
      BY <1>2, <1>9, <3>1, NextDocSaved DEF DeleteOf
    <3> QED
      BY <2>1, <3>2
  <2>2. CASE ref \in rewritten
    <3>1. PICK i \in 1 .. n : operations[i] = SaveOf(d, gone, ref)
      BY <1>2, <2>2
    <3>2. NextDoc(d, operations)[ref] = Cleared(d, gone, ref)
      BY <1>2, <1>9, <3>1, NextDocSaved DEF SaveOf
    <3> QED
      BY <1>3, <2>2, <3>2
  <2>3. CASE ref \notin gone /\ ref \notin rewritten
    <3>1. \A i \in 1 .. n : operations[i].ref # ref
      BY <1>2, <2>3 DEF SaveOf, DeleteOf
    <3>2. NextDoc(d, operations)[ref] = d[ref]
      BY <1>2, <3>1, NextDocKept
    <3>3. ref \notin Rows(d) => d[ref] = Absent
      BY DEF Rows, Has
    <3> QED
      BY <1>3, <2>3, <3>2, <3>3
  <2> QED
    BY <2>1, <2>2, <2>3
<1>11. DocValid(NextDoc(d, operations))
  BY <1>1, <1>10, SurvivorsAreValid
<1>12. Removed(operations) = gone
  <2>1. ASSUME NEW i \in 1 .. n, operations[i].kind = "delete"
        PROVE  operations[i].ref \in gone
    BY <1>2, <2>1 DEF SaveOf, DeleteOf
  <2>2. ASSUME NEW ref \in gone
        PROVE  \E i \in 1 .. n :
                 operations[i].kind = "delete" /\ operations[i].ref = ref
    <3>1. PICK i \in 1 .. n : operations[i] = DeleteOf(ref)
      BY <1>2, <2>2
    <3> QED
      BY <3>1 DEF DeleteOf
  <2> QED
    BY <1>2, <2>1, <2>2 DEF Removed
<1>13. Accepts(Stored(d), Ask(operations))
  <2>1. operations # <<>>
    <3>1. \E i \in 1 .. n : operations[i] = DeleteOf(target)
      BY <1>1, <1>2
    <3> QED
      BY <1>2, <3>1
  <2>2. AuditTrailValid(ApplyAdminBatch(Stored(d), Ask(operations)))
    BY <1>7, FirstAudits
  <2>3. /\ Stored(d).revision = 0 /\ Stored(d).doc = d
        /\ Ask(operations).expected = 0 /\ Ask(operations).operations = operations
    BY DEF Stored, Ask
  <2>4. ApplyAdminBatch(Stored(d), Ask(operations)).doc = NextDoc(d, operations)
    BY <2>3 DEF ApplyAdminBatch
  <2> QED
    BY <1>9, <1>11, <2>1, <2>2, <2>3, <2>4 DEF Accepts, SnapshotValid
<1> QED
  BY <1>7, <1>10, <1>12, <1>13

\* What operation i would leave of its row if it were gentler, and the plan
\* with that instead.
Kept(d, gone, operations, i) ==
  IF operations[i].kind = "save" THEN d[operations[i].ref]
  ELSE Cleared(d, gone \ {operations[i].ref}, operations[i].ref)

Gentler(d, gone, operations, i) ==
  [operations EXCEPT ![i].kind = "save",
                     ![i].value = Kept(d, gone, operations, i)]

\* Without one of a plan's operations but the deletion of the target, a row
\* would be left that names one that goes.
LEMMA PlanIsNeeded ==
  ASSUME NEW d \in Docs, IsFiniteSet(Rows(d)), NEW target \in Rows(d),
         target[1] \in Offered,
         NEW operations, operations = DeletionOperations(d, target),
         NEW gone, gone = Deletes(d, target),
         NEW i \in DOMAIN operations, operations[i].ref # target
  PROVE  LET gentler == Gentler(d, gone, operations, i) IN
         ~ NothingNames(NextDoc(d, gentler), Removed(gentler))
<1> DEFINE rewritten == Updates(d, gone)
           r == operations[i].ref
           kept == Kept(d, gone, operations, i)
           gentler == Gentler(d, gone, operations, i)
<1>1. gone \subseteq Rows(d) /\ Rows(d) \subseteq Refs
  BY DeletesClosed DEF Rows
<1>2. PICK n \in Nat :
        /\ DOMAIN operations = 1 .. n
        /\ \A j \in 1 .. n :
             \/ \E ref \in rewritten : operations[j] = SaveOf(d, gone, ref)
             \/ \E ref \in gone : operations[j] = DeleteOf(ref)
        /\ \A ref \in gone : \E j \in 1 .. n : operations[j] = DeleteOf(ref)
        /\ \A j, k \in 1 .. n : operations[j].ref = operations[k].ref => j = k
  BY <1>1, PlannedOperations
<1>3. \/ /\ r \in rewritten /\ operations[i] = SaveOf(d, gone, r)
      \/ /\ r \in gone /\ operations[i] = DeleteOf(r)
  BY <1>2 DEF SaveOf, DeleteOf
<1>4. rewritten \subseteq Rows(d) \ gone
      /\ \A ref \in rewritten : Cleared(d, gone, ref) # d[ref]
  BY DEF Updates
<1> HIDE DEF rewritten, kept, gentler
<1>5. /\ DOMAIN gentler = 1 .. n
      /\ gentler[i].ref = r /\ gentler[i].kind = "save"
      /\ gentler[i].value = kept
      /\ \A j \in 1 .. n : j # i => gentler[j] = operations[j]
  <2>1. PICK op : op = operations[i]
    OBVIOUS
  <2>2. gentler = [operations EXCEPT ![i] =
                     [op EXCEPT !.kind = "save", !.value = kept]]
    BY <1>2, <2>1 DEF gentler, Gentler, kept
  <2>3. gentler[i] = [op EXCEPT !.kind = "save", !.value = kept]
    BY <1>2, <2>2
  <2>4. op = SaveOf(d, gone, r) \/ op = DeleteOf(r)
    BY <1>3, <2>1
  <2>5. /\ gentler[i].ref = r /\ gentler[i].kind = "save"
        /\ gentler[i].value = kept
    BY <2>1, <2>3, <2>4 DEF SaveOf, DeleteOf
  <2> QED
    BY <1>2, <2>2, <2>5
<1>6. NextDoc(d, gentler)[r] = kept
  <2>1. r \in Refs
    BY <1>1, <1>3, <1>4
  <2>2. Target(gentler, r) = {i}
    BY <1>2, <1>5 DEF Target
  <2> QED
    BY <1>5, <2>1, <2>2 DEF NextDoc
<1>7. gone \ {r} \subseteq Removed(gentler)
  <2> SUFFICES ASSUME NEW ref \in gone, ref # r
               PROVE  ref \in Removed(gentler)
    OBVIOUS
  <2>1. PICK j \in 1 .. n : operations[j] = DeleteOf(ref)
    BY <1>2
  <2>2. j # i /\ gentler[j].kind = "delete" /\ gentler[j].ref = ref
    BY <1>5, <2>1 DEF DeleteOf
  <2> QED
    BY <1>5, <2>2 DEF Removed
<1>8. \E named \in References(NextDoc(d, gentler), r) : named \in gone \ {r}
  <2>1. CASE r \in rewritten /\ operations[i] = SaveOf(d, gone, r)
    <3>1. kept = d[r]
      BY <2>1 DEF SaveOf, kept, Kept
    <3>2. PICK named \in References(d, r) : named \in gone
      BY <1>4, <2>1, RewrittenNames
    <3>3. named \in References(NextDoc(d, gentler), r)
      BY <1>6, <3>1, <3>2 DEF References
    <3> QED
      BY <1>4, <2>1, <3>2, <3>3
  <2>2. CASE r \in gone /\ operations[i] = DeleteOf(r)
    <3>1. kept = Cleared(d, gone \ {r}, r)
      BY <2>2 DEF DeleteOf, kept, Kept
    <3>2. PICK c \in gone : r \in Cascade(d, c)
      BY <2>2, DeletesClosed
    <3>3. c # r
      BY <3>2, CascadeCases
    <3>4. c \in References(NextDoc(d, gentler), r)
      BY <1>1, <1>6, <3>1, <3>2, CausesAreNamed
    <3> QED
      BY <3>2, <3>3, <3>4
  <2> QED
    BY <1>3, <2>1, <2>2
<1>9. r \in Refs
  BY <1>1, <1>3, <1>4
<1> QED
  BY <1>7, <1>8, <1>9 DEF NothingNames, gentler

LEMMA PlansOfTheRowsAreExact == DeletionInv => PlansAreExact
<1> SUFFICES ASSUME DeletionInv, plan # NoPlan
             PROVE  /\ Accepts(Stored(doc), Ask(plan.operations))
                    /\ NothingNames(NextDoc(doc, plan.operations),
                                    Removed(plan.operations))
                    /\ NothingGoesWithoutNeed
  BY DEF PlansAreExact, PlansAreSaved, PlansLeaveNothingDangling,
         NothingGoesWithoutNeed
<1>1. doc \in Docs /\ DocValid(doc) /\ IsFiniteSet(Rows(doc))
  BY DEF DeletionInv, CompanyValid
<1>2. PICK target \in Rows(doc) :
        /\ target[1] \in Offered
        /\ plan = [target |-> target,
                   operations |-> DeletionOperations(doc, target)]
  BY DEF DeletionInv
<1>3. PICK operations : operations = DeletionOperations(doc, target)
  OBVIOUS
<1>4. PICK gone : gone = Deletes(doc, target)
  OBVIOUS
<1>5. plan.operations = operations /\ plan.target = target
  BY <1>2, <1>3
<1>6. /\ Accepts(Stored(doc), Ask(operations))
      /\ Survivors(doc, gone, NextDoc(doc, operations))
      /\ Removed(operations) = gone
  BY <1>1, <1>2, <1>3, <1>4, PlanIsAccepted
<1>7. NothingNames(NextDoc(doc, operations), gone)
  BY <1>1, <1>2, <1>4, <1>6, DeletesWhole, SurvivorsNameSurvivors
<1>8. NothingGoesWithoutNeed
  <2>1. ASSUME NEW i \in DOMAIN operations, operations[i].ref # target
        PROVE  LET gentler == Gentler(doc, gone, operations, i) IN
               ~ NothingNames(NextDoc(doc, gentler), Removed(gentler))
    BY <1>1, <1>2, <1>3, <1>4, <2>1, PlanIsNeeded
  <2> QED
    BY <1>5, <1>6, <2>1 DEF NothingGoesWithoutNeed, Gentler, Kept
<1> QED
  BY <1>5, <1>6, <1>7, <1>8

-----------------------------------------------------------------------------
(* Deletions: the rows and the plan, step by step. *)

\* A batch names finitely many rows.
LEMMA BatchesKeepRowsFinite ==
  ASSUME NEW d, IsFiniteSet(Rows(d)), NEW S, NEW operations \in Seq(S)
  PROVE  IsFiniteSet(Rows(NextDoc(d, operations)))
<1> DEFINE n == Len(operations)
           T == {operations[i].ref : i \in 1 .. n}
           f == [i \in 1 .. n |-> operations[i].ref]
<1>1. n \in Nat /\ DOMAIN operations = 1 .. n
  OBVIOUS
<1>2. IsFiniteSet(1 .. n)
  BY <1>1, FS_Interval
<1>3. f \in [1 .. n -> T] /\ \A y \in T : \E x \in 1 .. n : f[x] = y
  OBVIOUS
<1>4. IsFiniteSet(T)
  <2> HIDE DEF f, T
  <2> QED
    BY <1>2, <1>3, ImageIsFinite
<1>5. Rows(NextDoc(d, operations)) \subseteq Rows(d) \cup T
  <2> SUFFICES ASSUME NEW ref \in Refs, NextDoc(d, operations)[ref] # Absent,
                      ref \notin T
               PROVE  d[ref] # Absent
    BY DEF Rows, Has
  <2>1. \A i \in 1 .. n : operations[i].ref # ref
    OBVIOUS
  <2> QED
    BY <1>1, <2>1, NextDocKept
<1>6. IsFiniteSet(Rows(d) \cup T)
  BY <1>4, FS_Union
<1> QED
  BY <1>5, <1>6, FS_Subset

LEMMA DeletionBegins == DeletionInit => DeletionInv
BY DEF DeletionInit, CompanyInit, DeletionInv, CompanyValid

\* A batch that is accepted leaves finitely many rows that break no rule.
LEMMA CommitKeepsRows ==
  ASSUME CompanyValid, doc # Absent => IsFiniteSet(Rows(doc)),
         NEW operations \in Seq(Operation), CommitBatch(operations)
  PROVE  CompanyValid' /\ (doc' # Absent => IsFiniteSet(Rows(doc')))
<1>1. /\ doc \in Docs /\ IsFiniteSet(Rows(doc)) /\ doc # Absent
      /\ Accepts(Stored(doc), Ask(operations))
      /\ doc' = NextDoc(doc, operations)
  BY DEF CompanyValid, CommitBatch
<1>2. NextDoc(doc, operations) \in Docs /\ DocValid(NextDoc(doc, operations))
  BY <1>1, AcceptedIsValid
<1>3. IsFiniteSet(Rows(NextDoc(doc, operations)))
  BY <1>1, BatchesKeepRowsFinite
<1> QED
  BY <1>1, <1>2, <1>3 DEF CompanyValid

LEMMA DeletionStep ==
  ASSUME DeletionInv, [DeletionNext]_deletionVars
  PROVE  DeletionInv'
<1>1. ASSUME NEW d \in Furnished, CreateCompany(d), UNCHANGED plan
      PROVE  DeletionInv'
  <2>1. /\ doc = Absent /\ doc' = d /\ DocValid(d) /\ d \in Docs
        /\ IsFiniteSet(Rows(d)) /\ plan = NoPlan
    BY <1>1, FurnishedAssumption, RowsAssumption DEF CreateCompany, DeletionInv
  <2> QED
    BY <1>1, <2>1 DEF DeletionInv, CompanyValid
<1>2. ASSUME NEW operations \in Edits, SaveMeanwhile(operations)
      PROVE  DeletionInv'
  <2>1. operations \in Seq(Operation) /\ plan' = NoPlan
    BY <1>2, EditsAssumption DEF SaveMeanwhile
  <2>2. CompanyValid' /\ (doc' # Absent => IsFiniteSet(Rows(doc')))
    BY <1>2, <2>1, CommitKeepsRows DEF SaveMeanwhile, DeletionInv
  <2> QED
    BY <2>1, <2>2 DEF DeletionInv, NoPlan
<1>3. ASSUME NEW target \in Refs, OpenDeleteConfirmation(target)
      PROVE  DeletionInv'
  BY <1>3 DEF OpenDeleteConfirmation, DeletionInv, CompanyValid
<1>4. CASE CancelDeletion
  BY <1>4 DEF CancelDeletion, DeletionInv, CompanyValid, NoPlan
<1>5. CASE SubmitDeletion
  <2>1. /\ doc \in Docs /\ DocValid(doc) /\ IsFiniteSet(Rows(doc))
        /\ CommitBatch(plan.operations) /\ plan' = NoPlan
    BY <1>5 DEF SubmitDeletion, DeletionInv, CompanyValid
  <2>2. PICK target \in Rows(doc) :
          /\ target[1] \in Offered
          /\ plan = [target |-> target,
                     operations |-> DeletionOperations(doc, target)]
    BY <1>5 DEF SubmitDeletion, DeletionInv
  <2>3. PICK operations : operations = DeletionOperations(doc, target)
    OBVIOUS
  <2>4. operations \in Seq(Operation)
    <3>1. PICK gone : gone = Deletes(doc, target)
      OBVIOUS
    <3> QED
      BY <2>1, <2>2, <2>3, <3>1, PlanIsAccepted
  <2>5. CommitBatch(operations)
    BY <2>1, <2>2, <2>3
  <2>6. CompanyValid' /\ (doc' # Absent => IsFiniteSet(Rows(doc')))
    BY <2>4, <2>5, CommitKeepsRows DEF DeletionInv
  <2> QED
    BY <2>1, <2>6 DEF DeletionInv, NoPlan
<1>6. CASE UNCHANGED deletionVars
  BY <1>6 DEF deletionVars, DeletionInv, CompanyValid
<1> QED
  BY <1>1, <1>2, <1>3, <1>4, <1>5, <1>6 DEF DeletionNext

\* The server saves what the browser planned; nothing is left that names a row
\* that went; and no row goes, or is rewritten, that need not be.
THEOREM PlansAreWhatHasToGo == DeletionSpec => []PlansAreExact
<1>1. DeletionSpec => []DeletionInv
  BY DeletionBegins, DeletionStep, PTL DEF DeletionSpec
<1> QED
  BY <1>1, PlansOfTheRowsAreExact, PTL

-----------------------------------------------------------------------------
(* Imports: what a text writes. *)

Forms == {"finance", "balance"} \cup GroupTypes

\* A text has lines of its form.
LEMMA LineTypes ==
  ASSUME NEW paste \in Pastes
  PROVE  /\ paste.form \in Forms
         /\ paste.form = "finance" => LinesOf(paste) \subseteq FinanceLine
         /\ paste.form \in GroupTypes => LinesOf(paste) \subseteq GroupLine
         /\ paste.form = "balance" =>
              LinesOf(paste) \subseteq BalanceLine /\ paste.sheet \in Sheets
         /\ paste.lines # <<>> => LinesOf(paste) # {}
<1>1. paste \in Texts
  BY PastesAssumption
<1>2. ASSUME NEW S, paste.lines \in Seq(S)
      PROVE  /\ LinesOf(paste) \subseteq S
             /\ paste.lines # <<>> => LinesOf(paste) # {}
  <2>1. paste.lines # <<>> => 1 \in DOMAIN paste.lines
    BY <1>2
  <2>2. \A i \in DOMAIN paste.lines : paste.lines[i] \in S
    BY <1>2
  <2> QED
    BY <2>1, <2>2 DEF LinesOf
<1>3. CASE paste \in [form : {"finance"}, lines : Seq(FinanceLine)]
  <2>1. paste.form = "finance" /\ paste.lines \in Seq(FinanceLine)
    BY <1>3
  <2>2. /\ LinesOf(paste) \subseteq FinanceLine
        /\ paste.lines # <<>> => LinesOf(paste) # {}
    BY <1>2, <2>1
  <2> QED
    BY <2>1, <2>2 DEF Forms, GroupTypes
<1>4. CASE paste \in [form : GroupTypes, lines : Seq(GroupLine)]
  <2>1. paste.form \in GroupTypes /\ paste.lines \in Seq(GroupLine)
    BY <1>4
  <2>2. /\ LinesOf(paste) \subseteq GroupLine
        /\ paste.lines # <<>> => LinesOf(paste) # {}
    BY <1>2, <2>1
  <2> QED
    BY <2>1, <2>2 DEF Forms, GroupTypes
<1>5. CASE paste \in [form : {"balance"}, sheet : Sheets, lines : Seq(BalanceLine)]
  <2>1. /\ paste.form = "balance" /\ paste.sheet \in Sheets
        /\ paste.lines \in Seq(BalanceLine)
    BY <1>5
  <2>2. /\ LinesOf(paste) \subseteq BalanceLine
        /\ paste.lines # <<>> => LinesOf(paste) # {}
    BY <1>2, <2>1
  <2> QED
    BY <2>1, <2>2 DEF Forms, GroupTypes
<1> QED
  BY <1>1, <1>3, <1>4, <1>5 DEF Texts

\* The types of row are told apart by the kind of their reference.
LEMMA CellTypes ==
  /\ \A k \in Accounts, y \in Years :
       /\ FinancialEntry(k, y) \in Cells
       /\ FiguresOf(FinancialEntry(k, y)) = EntryFigures
       /\ FinancialEntry(k, y)[1] = "financial_entry"
  /\ \A t \in GroupTypes, g \in Groups, y \in Years :
       /\ GroupRow(t, g, y) \in Cells
       /\ FiguresOf(GroupRow(t, g, y)) = GroupFigures
       /\ GroupRow(t, g, y)[1] = t
  /\ \A b \in Sheets :
       /\ Sheet(b) \in Cells
       /\ FiguresOf(Sheet(b)) = SheetFigures
       /\ Sheet(b)[1] = "balance_sheet_snapshot"
  /\ "balance_sheet_snapshot" \notin GroupTypes
  /\ "financial_entry" \notin GroupTypes
BY DEF Cells, FiguresOf, FinancialEntry, GroupRow, Sheet, GroupTypes

\* A text without errors writes rows of its form, with amounts in them.
LEMMA WrittenFinance ==
  ASSUME NEW paste \in Pastes, Sendable(paste), paste.form = "finance",
         NEW cell \in Written(paste)
  PROVE  /\ cell \in Cells /\ cell[1] = "financial_entry"
         /\ FiguresFor(paste, cell) \in EntryFigures
         /\ FiguresOf(cell) = EntryFigures
<1>1. LinesOf(paste) \subseteq FinanceLine
  BY LineTypes
<1>2. PICK line \in LinesOf(paste) : CellOf(paste, line) = cell
  BY DEF Written
<1>3. cell = FinancialEntry(line.account, line.year)
  BY <1>2 DEF CellOf, GroupTypes
<1>4. line.account \in Accounts /\ line.year \in Years
  BY <1>1 DEF FinanceLine
<1>5. TheLine(paste, cell) \in LinesOf(paste)
  BY <1>2 DEF TheLine
<1>6. \A l \in LinesOf(paste) : l.figures \in EntryFigures
  BY DEF Sendable, HasErrors, FinanceErrors
<1>7. FiguresFor(paste, cell) = TheLine(paste, cell).figures
  BY DEF FiguresFor, EntryValue
<1> QED
  BY <1>3, <1>4, <1>5, <1>6, <1>7, CellTypes

LEMMA WrittenGroup ==
  ASSUME NEW paste \in Pastes, Sendable(paste), paste.form \in GroupTypes,
         NEW cell \in Written(paste)
  PROVE  /\ cell \in Cells /\ cell[1] = paste.form
         /\ FiguresFor(paste, cell) \in GroupFigures
         /\ FiguresOf(cell) = GroupFigures
<1>1. LinesOf(paste) \subseteq GroupLine
  BY LineTypes
<1>2. PICK line \in LinesOf(paste) : CellOf(paste, line) = cell
  BY DEF Written
<1>3. cell = GroupRow(paste.form, line.group, line.year)
  BY <1>2 DEF CellOf, GroupTypes
<1>4. line.group \in Groups /\ line.year \in Years
  BY <1>1 DEF GroupLine
<1>5. TheLine(paste, cell) \in LinesOf(paste)
  BY <1>2 DEF TheLine
<1>6. \A l \in LinesOf(paste) : l.amount \in Amounts
  BY DEF Sendable, HasErrors, GroupBudgetErrors, GroupActualErrors,
         NumberMissing, GroupTypes
<1>7. FiguresFor(paste, cell) = [f \in {"amount"} |-> TheLine(paste, cell).amount]
  BY DEF FiguresFor, GroupBudgetValue, GroupActualValue, GroupTypes
<1>8. FiguresFor(paste, cell) \in GroupFigures
  BY <1>5, <1>6, <1>7 DEF GroupFigures
<1> QED
  BY <1>3, <1>4, <1>8, CellTypes

LEMMA WrittenBalance ==
  ASSUME NEW paste \in Pastes, Sendable(paste), paste.form = "balance"
  PROVE  /\ Written(paste) = {Sheet(paste.sheet)}
         /\ SheetValue(paste) \in
              [{line.item : line \in LinesOf(paste)} -> Amounts]
         /\ FiguresFor(paste, Sheet(paste.sheet)) = SheetValue(paste)
         /\ {line.item : line \in LinesOf(paste)} \subseteq Items
         /\ SheetValue(paste) \in SheetFigures
<1>1. LinesOf(paste) \subseteq BalanceLine
  BY LineTypes
<1>2. LinesOf(paste) # {}
  BY LineTypes DEF Sendable
<1>3. \A line : CellOf(paste, line) = Sheet(paste.sheet)
  BY DEF CellOf, GroupTypes
<1>4. \A l \in LinesOf(paste) : l.amount \in Amounts
  BY DEF Sendable, HasErrors, BalanceErrors, NumberMissing
<1>5. ASSUME NEW i \in {line.item : line \in LinesOf(paste)}
      PROVE  (CHOOSE line \in LinesOf(paste) : line.item = i).amount \in Amounts
  BY <1>4
<1>6. SheetValue(paste) \in [{line.item : line \in LinesOf(paste)} -> Amounts]
  BY <1>5 DEF SheetValue
<1>7. {line.item : line \in LinesOf(paste)} \subseteq Items
  BY <1>1 DEF BalanceLine
<1>8. Written(paste) = {Sheet(paste.sheet)}
  BY <1>2, <1>3 DEF Written
<1>9. FiguresFor(paste, Sheet(paste.sheet)) = SheetValue(paste)
  BY DEF FiguresFor
<1>10. SheetValue(paste) \in SheetFigures
  BY <1>6, <1>7 DEF SheetFigures
<1> QED
  BY <1>6, <1>7, <1>8, <1>9, <1>10

LEMMA WrittenTypes ==
  ASSUME NEW paste \in Pastes, Sendable(paste), NEW cell \in Written(paste)
  PROVE  cell \in Cells /\ FiguresFor(paste, cell) \in FiguresOf(cell)
<1>1. CASE paste.form = "balance"
  <2>1. paste.sheet \in Sheets
    BY <1>1, LineTypes
  <2>2. /\ cell = Sheet(paste.sheet)
        /\ FiguresFor(paste, cell) \in SheetFigures
    BY <1>1, WrittenBalance
  <2>3. cell \in Cells /\ FiguresOf(cell) = SheetFigures
    BY <2>1, <2>2, CellTypes
  <2> QED
    BY <2>2, <2>3
<1>2. CASE paste.form = "finance"
  BY <1>2, WrittenFinance
<1>3. CASE paste.form \in GroupTypes
  BY <1>3, WrittenGroup
<1> QED
  BY <1>1, <1>2, <1>3, LineTypes DEF Forms

-----------------------------------------------------------------------------
(* Imports: the books stay books. *)

LEMMA LedgerTypes ==
  ASSUME NEW ledger \in Ledgers
  PROVE  /\ ledger.accounts \in [Accounts -> Groups \cup {Absent}]
         /\ ledger.rows \in [Cells -> ImportedRow \cup {Absent}]
         /\ \A cell \in Filled(ledger) :
              /\ ledger.rows[cell] \in ImportedRow
              /\ ledger.rows[cell].figures \in FiguresOf(cell)
              /\ ledger.rows[cell].sources \in SourceSets
BY DEF Ledgers, Filled, ImportedRow

LEMMA LedgerMade ==
  ASSUME NEW accounts \in [Accounts -> Groups \cup {Absent}],
         NEW rows,
         rows = [cell \in Cells |-> rows[cell]],
         \A cell \in Cells :
           \/ rows[cell] = Absent
           \/ /\ rows[cell] \in ImportedRow
              /\ rows[cell].figures \in FiguresOf(cell)
  PROVE  [accounts |-> accounts, rows |-> rows] \in Ledgers
<1>1. rows \in [Cells -> ImportedRow \cup {Absent}]
  OBVIOUS
<1> QED
  BY <1>1 DEF Ledgers

LEMMA EmptyLedgerType == EmptyLedger \in Ledgers
BY DEF EmptyLedger, Ledgers

LEMMA RowMade ==
  ASSUME NEW cell \in Cells, NEW figures \in FiguresOf(cell),
         NEW sources \in SourceSets
  PROVE  /\ [figures |-> figures, sources |-> sources] \in ImportedRow
         /\ [figures |-> figures, sources |-> sources] # Absent
BY NoRowsAssumption DEF ImportedRow

LEMMA GroupGivenTypes ==
  ASSUME NEW paste \in Pastes, NEW k
  PROVE  GroupGiven(paste, k) \subseteq Groups
<1>1. CASE paste.form = "finance"
  BY <1>1, LineTypes DEF GroupGiven, FinanceLine
<1>2. CASE paste.form # "finance"
  BY <1>2 DEF GroupGiven
<1> QED
  BY <1>1, <1>2

LEMMA ImportedType ==
  ASSUME NEW ledger \in Ledgers, NEW paste \in Pastes, Sendable(paste),
         NEW sources \in SourceSets
  PROVE  Imported(ledger, paste, sources) \in Ledgers
<1> DEFINE accounts == [k \in Accounts |->
                          IF GroupGiven(paste, k) = {} THEN ledger.accounts[k]
                          ELSE CHOOSE g \in GroupGiven(paste, k) : TRUE]
           rows == [cell \in Cells |->
                      IF cell \notin Written(paste) THEN ledger.rows[cell]
                      ELSE [figures |-> FiguresFor(paste, cell),
                            sources |-> sources]]
<1>1. accounts \in [Accounts -> Groups \cup {Absent}]
  BY LedgerTypes, GroupGivenTypes
<1>2. ASSUME NEW cell \in Cells
      PROVE  \/ rows[cell] = Absent
             \/ /\ rows[cell] \in ImportedRow
                /\ rows[cell].figures \in FiguresOf(cell)
  <2>1. CASE cell \notin Written(paste)
    BY <2>1, LedgerTypes DEF Filled
  <2>2. CASE cell \in Written(paste)
    BY <2>2, WrittenTypes, RowMade
  <2> QED
    BY <2>1, <2>2
<1>3. Imported(ledger, paste, sources) = [accounts |-> accounts, rows |-> rows]
  BY DEF Imported
<1>4. rows = [cell \in Cells |-> rows[cell]]
  OBVIOUS
<1> HIDE DEF accounts, rows
<1> QED
  BY <1>1, <1>2, <1>3, <1>4, LedgerMade

LEMMA ImportDeletedType ==
  ASSUME NEW ledger \in Ledgers, NEW sources
  PROVE  ImportDeleted(ledger, sources) \in Ledgers
<1> DEFINE gone == ImportRows(ledger, sources)
           accounts == [k \in Accounts |->
                          IF k \in EmptiedAccounts(ledger, gone) THEN Absent
                          ELSE ledger.accounts[k]]
           rows == [cell \in Cells |->
                      IF cell \in gone THEN Absent ELSE ledger.rows[cell]]
<1>1. accounts \in [Accounts -> Groups \cup {Absent}]
  BY LedgerTypes
<1>2. ASSUME NEW cell \in Cells
      PROVE  \/ rows[cell] = Absent
             \/ /\ rows[cell] \in ImportedRow
                /\ rows[cell].figures \in FiguresOf(cell)
  BY LedgerTypes DEF Filled
<1>3. ImportDeleted(ledger, sources) = [accounts |-> accounts, rows |-> rows]
  BY DEF ImportDeleted
<1>4. rows = [cell \in Cells |-> rows[cell]]
  OBVIOUS
<1> HIDE DEF accounts, rows
<1> QED
  BY <1>1, <1>2, <1>3, <1>4, LedgerMade

-----------------------------------------------------------------------------
(* Imports: the invariant. *)

LEMMA ImportsBegin == ImportsInit => ImportsInv
<1> SUFFICES ASSUME ImportsInit PROVE ImportsInv
  OBVIOUS
<1>1. ImportsTypeOK
  BY BooksBoundAssumption DEF ImportsInit, ImportsTypeOK
<1> QED
  BY <1>1 DEF ImportsInit, ImportsInv

\* Somebody else saves: the tab falls behind.
LEMMA OthersKeepImports ==
  ASSUME ImportsInv, NEW ledger \in Ledgers, SaveBooks(ledger),
         UNCHANGED <<booksShown, booksSeen, text, warned, previewed>>
  PROVE  ImportsInv'
<1>1. /\ books' = ledger /\ booksRevision' = booksRevision + 1
      /\ booksRevision < MaxBooksRevision /\ LedgerValid(books')
  BY DEF SaveBooks
<1>2. /\ booksRevision \in Nat /\ booksSeen \in Nat /\ booksSeen <= booksRevision
      /\ previewed \in 0 .. booksSeen
  BY DEF ImportsInv, ImportsTypeOK
<1>3. books' # Absent
  BY <1>1, NoRowsAssumption
<1>4. ImportsTypeOK'
  BY <1>1, <1>2, BooksBoundAssumption DEF ImportsInv, ImportsTypeOK
<1>5. Known' = Known
  BY DEF Known
<1>6. previewed' = booksSeen' /\ text' # NoText => warned' = Warnings(text', Known')
  BY <1>5 DEF ImportsInv
<1> QED
  BY <1>1, <1>2, <1>3, <1>4, <1>6 DEF ImportsInv

\* The tab saves, and shows what it has saved.
LEMMA SendKeepsImports ==
  ASSUME ImportsInv, NEW ledger \in Ledgers, SendOperations(ledger),
         \/ UNCHANGED <<text, warned, previewed>>
         \/ text' = NoText /\ warned' = {} /\ previewed' = 0
  PROVE  ImportsInv'
<1>1. /\ books' = ledger /\ booksRevision' = booksRevision + 1
      /\ booksRevision < MaxBooksRevision /\ LedgerValid(books')
      /\ booksShown' = books' /\ booksSeen' = booksRevision'
  BY DEF SendOperations, SaveBooks
<1>2. /\ booksRevision \in Nat /\ booksSeen \in Nat /\ booksSeen <= booksRevision
      /\ previewed \in 0 .. booksSeen
  BY DEF ImportsInv, ImportsTypeOK
<1>3. books' # Absent
  BY <1>1, NoRowsAssumption
<1>4. ImportsTypeOK'
  BY <1>1, <1>2, BooksBoundAssumption DEF ImportsInv, ImportsTypeOK
<1>5. previewed' # booksSeen'
  BY <1>1, <1>2
<1> QED
  BY <1>1, <1>2, <1>3, <1>4, <1>5 DEF ImportsInv

LEMMA ReloadKeepsImports ==
  ASSUME ImportsInv, ReloadBooks
  PROVE  ImportsInv'
<1> USE DEF ReloadBooks
<1>1. /\ booksRevision \in Nat /\ booksSeen \in Nat /\ booksSeen <= booksRevision
      /\ previewed \in 0 .. booksSeen
  BY DEF ImportsInv, ImportsTypeOK
<1>2. ImportsTypeOK'
  BY <1>1 DEF ImportsInv, ImportsTypeOK
<1>3. previewed' # booksSeen'
  BY <1>1
<1>4. LedgerValid(books)' <=> LedgerValid(books)
  BY DEF LedgerValid, EntriesOf, Filled
<1> QED
  BY <1>1, <1>2, <1>3, <1>4 DEF ImportsInv

LEMMA PreviewKeepsImports ==
  ASSUME ImportsInv, NEW paste \in Pastes, NEW drops, Preview(paste, drops),
         ~ HasErrors(paste) => drops = Warnings(paste, Known)
  PROVE  ImportsInv'
<1> USE DEF Preview
<1>1. /\ booksRevision \in Nat /\ booksSeen \in Nat /\ booksSeen <= booksRevision
  BY DEF ImportsInv, ImportsTypeOK
<1>2. ImportsTypeOK'
  BY <1>1 DEF ImportsInv, ImportsTypeOK
<1>3. LedgerValid(books)' <=> LedgerValid(books)
  BY DEF LedgerValid, EntriesOf, Filled
<1>4. Known' = Known
  BY DEF Known
<1>5. warned' = Warnings(text', Known')
  BY <1>4 DEF Warnings
<1> QED
  BY <1>1, <1>2, <1>3, <1>5 DEF ImportsInv

LEMMA SubmitKeepsImports ==
  ASSUME ImportsInv, NEW sources \in SourceSets, SubmitText(sources)
  PROVE  ImportsInv'
<1>1. text \in Pastes
  BY DEF ImportsInv, ImportsTypeOK, SubmitText, Sendable, NoText
<1>2. books \in Ledgers
  BY DEF ImportsInv, ImportsTypeOK, SubmitText, SendOperations
<1>3. Imported(books, text, sources) \in Ledgers
  BY <1>1, <1>2, ImportedType DEF SubmitText
<1> QED
  BY <1>3, SendKeepsImports DEF SubmitText

LEMMA ImportsStep == ImportsInv /\ [ImportsNext]_importVars => ImportsInv'
<1> SUFFICES ASSUME ImportsInv, [ImportsNext]_importVars PROVE ImportsInv'
  OBVIOUS
<1>1. {books, booksShown} \subseteq Ledgers \cup {Absent}
  BY DEF ImportsInv, ImportsTypeOK
<1>2. CASE CreateBooks
  BY <1>2, EmptyLedgerType, OthersKeepImports DEF CreateBooks
<1>3. CASE OthersImport
  <2>1. books \in Ledgers
    BY <1>1, <1>3 DEF OthersImport
  <2>2. CASE \E paste \in Pastes, sources \in SourceSets :
               Sendable(paste) /\ SaveBooks(Imported(books, paste, sources))
    <3>1. PICK ledger \in Ledgers : SaveBooks(ledger)
      BY <2>1, <2>2, ImportedType
    <3> QED
      BY <1>3, <3>1, OthersKeepImports DEF OthersImport
  <2>3. CASE \E sources \in DataImports(books) :
               SaveBooks(ImportDeleted(books, sources))
    <3>1. PICK ledger \in Ledgers : SaveBooks(ledger)
      BY <2>1, <2>3, ImportDeletedType
    <3> QED
      BY <1>3, <3>1, OthersKeepImports DEF OthersImport
  <2> QED
    BY <1>3, <2>2, <2>3 DEF OthersImport
<1>4. CASE ReloadBooks
  BY <1>4, ReloadKeepsImports
<1>5. ASSUME NEW paste \in Pastes, UpdateFinanceImportPreview(paste)
      PROVE  ImportsInv'
  BY <1>5, PreviewKeepsImports DEF UpdateFinanceImportPreview, Warnings
<1>6. ASSUME NEW paste \in Pastes, UpdateGroupBudgetImportPreview(paste)
      PROVE  ImportsInv'
  BY <1>6, PreviewKeepsImports DEF UpdateGroupBudgetImportPreview, Warnings
<1>7. ASSUME NEW paste \in Pastes, UpdateGroupActualImportPreview(paste)
      PROVE  ImportsInv'
  BY <1>7, PreviewKeepsImports DEF UpdateGroupActualImportPreview, Warnings
<1>8. ASSUME NEW paste \in Pastes, UpdateBalanceImportPreview(paste)
      PROVE  ImportsInv'
  BY <1>8, PreviewKeepsImports DEF UpdateBalanceImportPreview, Warnings
<1>9. ASSUME NEW sources \in SourceSets, SubmitImport(sources)
      PROVE  ImportsInv'
  BY <1>9, SubmitKeepsImports DEF SubmitImport, SubmitFinanceImport,
     SubmitGroupBudgetImport, SubmitGroupActualImport, SubmitBalanceImport
<1>10. ASSUME NEW sources \in SourceSets, DeleteImport(sources)
       PROVE  ImportsInv'
  <2>1. ImportDeleted(booksShown, sources) \in Ledgers
    BY <1>1, <1>10, ImportDeletedType DEF DeleteImport
  <2> QED
    BY <1>10, <2>1, SendKeepsImports DEF DeleteImport
<1>11. CASE UNCHANGED importVars
  <2> USE <1>11 DEF importVars
  <2>1. ImportsTypeOK'
    BY DEF ImportsInv, ImportsTypeOK
  <2>2. LedgerValid(books)' <=> LedgerValid(books)
    BY DEF LedgerValid, EntriesOf, Filled
  <2>3. Known' = Known
    BY DEF Known
  <2> QED
    BY <2>1, <2>2, <2>3 DEF ImportsInv
<1> QED
  BY <1>2, <1>3, <1>4, <1>5, <1>6, <1>7, <1>8, <1>9, <1>10, <1>11
  DEF ImportsNext

-----------------------------------------------------------------------------
(* Imports: undoing one. *)

\* What is left of the books without an import: its rows gone, the others as
\* they were, and an account gone just when all its entries are.
LEMMA WithoutImport ==
  ASSUME NEW ledger \in Ledgers, NEW sources
  PROVE  LET after == ImportDeleted(ledger, sources)
             gone == ImportRows(ledger, sources) IN
         /\ Filled(after) = Filled(ledger) \ gone
         /\ \A k : EntriesOf(after, k) = EntriesOf(ledger, k) \ gone
         /\ \A k \in Accounts :
              after.accounts[k] = IF k \in EmptiedAccounts(ledger, gone) THEN Absent
                                  ELSE ledger.accounts[k]
<1> DEFINE after == ImportDeleted(ledger, sources)
           gone == ImportRows(ledger, sources)
<1>1. after.rows = [cell \in Cells |->
                      IF cell \in gone THEN Absent ELSE ledger.rows[cell]]
  BY DEF ImportDeleted
<1>2. \A k \in Accounts :
        after.accounts[k] = IF k \in EmptiedAccounts(ledger, gone) THEN Absent
                            ELSE ledger.accounts[k]
  BY DEF ImportDeleted
<1>3. Filled(after) = Filled(ledger) \ gone
  <2> HIDE DEF after, gone
  <2> QED
    BY <1>1 DEF Filled
<1>4. \A k : EntriesOf(after, k) = EntriesOf(ledger, k) \ gone
  <2> HIDE DEF after, gone
  <2> QED
    BY <1>3 DEF EntriesOf
<1> QED
  BY <1>2, <1>3, <1>4

LEMMA ImportsUndoable ==
  ASSUME NEW ledger \in Ledgers, LedgerValid(ledger), NEW sources,
         NEW k \in Accounts
  PROVE  LET after == ImportDeleted(ledger, sources) IN
         /\ EntriesOf(after, k) # {} => after.accounts[k] # Absent
         /\ EntriesOf(ledger, k) # {} /\ EntriesOf(after, k) = {} =>
              after.accounts[k] = Absent
<1> DEFINE after == ImportDeleted(ledger, sources)
           gone == ImportRows(ledger, sources)
<1>1. EntriesOf(ledger, k) # {} => ledger.accounts[k] # Absent
  BY DEF LedgerValid
<1>2. EntriesOf(after, k) = EntriesOf(ledger, k) \ gone
  BY WithoutImport
<1>3. after.accounts[k] = IF k \in EmptiedAccounts(ledger, gone) THEN Absent
                          ELSE ledger.accounts[k]
  BY WithoutImport
<1>4. k \in EmptiedAccounts(ledger, gone) <=>
        /\ ledger.accounts[k] # Absent
        /\ EntriesOf(ledger, k) # {}
        /\ EntriesOf(ledger, k) \subseteq gone
  BY DEF EmptiedAccounts
<1> HIDE DEF after, gone
<1>5. EntriesOf(after, k) # {} => after.accounts[k] # Absent
  BY <1>1, <1>2, <1>3, <1>4
<1>6. EntriesOf(ledger, k) # {} /\ EntriesOf(after, k) = {} =>
        after.accounts[k] = Absent
  BY <1>1, <1>2, <1>3, <1>4
<1> QED
  BY <1>5, <1>6 DEF after

\* The rows of a paste are of its form.
LEMMA WrittenForms ==
  ASSUME NEW paste \in Pastes, Sendable(paste), paste.form # "balance",
         NEW cell \in Written(paste)
  PROVE  cell[1] # "balance_sheet_snapshot"
<1>1. CASE paste.form = "finance"
  BY <1>1, WrittenFinance
<1>2. CASE paste.form \in GroupTypes
  BY <1>2, WrittenGroup, CellTypes
<1> QED
  BY <1>1, <1>2, LineTypes DEF Forms

\* After a paste that overwrites nothing and has sources of its own, the rows
\* of those sources are the rows it has written.
LEMMA ImportIsThePaste ==
  ASSUME NEW ledger \in Ledgers, NEW paste \in Pastes,
         NEW sources \in SourceSets,
         Sendable(paste), paste.form # "balance",
         Written(paste) \cap Filled(ledger) = {},
         sources \notin DataImports(ledger)
  PROVE  LET next == Imported(ledger, paste, sources) IN
         /\ ImportRows(next, sources) = Written(paste)
         /\ Filled(next) = Filled(ledger) \cup Written(paste)
<1> DEFINE next == Imported(ledger, paste, sources)
<1>1. next.rows = [cell \in Cells |->
                     IF cell \notin Written(paste) THEN ledger.rows[cell]
                     ELSE [figures |-> FiguresFor(paste, cell),
                           sources |-> sources]]
  BY DEF Imported
<1>2. ImportRows(ledger, sources) = {}
  BY SourceSetsAssumption DEF DataImports
<1>3. \A cell \in Written(paste) :
        /\ cell \in Cells
        /\ cell[1] # "balance_sheet_snapshot"
        /\ [figures |-> FiguresFor(paste, cell), sources |-> sources] # Absent
  BY WrittenTypes, WrittenForms, RowMade
<1> HIDE DEF next
<1>4. \A cell \in Written(paste) :
        next.rows[cell] # Absent /\ next.rows[cell].sources = sources
  BY <1>1, <1>3
<1>5. \A cell \in Cells \ Written(paste) : next.rows[cell] = ledger.rows[cell]
  BY <1>1
<1>6. Filled(next) = Filled(ledger) \cup Written(paste)
  BY <1>3, <1>4, <1>5 DEF Filled
<1>7. \A cell \in Filled(ledger) \ Written(paste) :
        ~ (cell[1] # "balance_sheet_snapshot" /\ next.rows[cell].sources = sources)
  BY <1>2, <1>5 DEF ImportRows, Filled
<1>8. ImportRows(next, sources) = Written(paste)
  BY <1>3, <1>4, <1>6, <1>7 DEF ImportRows
<1> QED
  BY <1>6, <1>8 DEF next

LEMMA UndoLeavesTheRest ==
  ASSUME NEW ledger \in Ledgers, LedgerValid(ledger), NEW paste \in Pastes,
         NEW sources \in SourceSets,
         Sendable(paste), paste.form # "balance",
         Written(paste) \cap Filled(ledger) = {},
         sources \notin DataImports(ledger)
  PROVE  LET undone == ImportDeleted(Imported(ledger, paste, sources), sources) IN
         /\ undone.rows = ledger.rows
         /\ \A k \in Accounts :
              EntriesOf(ledger, k) # {} => undone.accounts[k] # Absent
<1> DEFINE next == Imported(ledger, paste, sources)
           undone == ImportDeleted(next, sources)
<1>1. next \in Ledgers
  BY ImportedType
<1>2. /\ ImportRows(next, sources) = Written(paste)
      /\ Filled(next) = Filled(ledger) \cup Written(paste)
  BY ImportIsThePaste
<1>3. undone.rows = [cell \in Cells |->
                       IF cell \in Written(paste) THEN Absent ELSE next.rows[cell]]
  BY <1>2 DEF ImportDeleted
<1>4. \A cell \in Cells \ Written(paste) : next.rows[cell] = ledger.rows[cell]
  BY DEF Imported
<1>5. \A cell \in Cells \cap Written(paste) : ledger.rows[cell] = Absent
  BY DEF Filled
<1>6. ledger.rows = [cell \in Cells |-> ledger.rows[cell]]
  BY LedgerTypes
<1>7. undone.rows = ledger.rows
  BY <1>3, <1>4, <1>5, <1>6
<1>8. ASSUME NEW k \in Accounts, EntriesOf(ledger, k) # {}
      PROVE  undone.accounts[k] # Absent
  <2>1. EntriesOf(next, k) \subseteq Filled(next)
    BY DEF EntriesOf
  <2>2. EntriesOf(ledger, k) \subseteq EntriesOf(next, k) \ Written(paste)
    <3> HIDE DEF next
    <3> QED
      BY <1>2 DEF EntriesOf
  <2>3. k \notin EmptiedAccounts(next, Written(paste))
    <3> HIDE DEF next
    <3> QED
      BY <1>8, <2>2 DEF EmptiedAccounts
  <2>4. undone.accounts[k] = next.accounts[k]
    BY <1>1, <1>2, <2>3, WithoutImport
  <2>5. next.accounts[k] = IF GroupGiven(paste, k) = {} THEN ledger.accounts[k]
                           ELSE CHOOSE g \in GroupGiven(paste, k) : TRUE
    BY DEF Imported
  <2>6. ledger.accounts[k] # Absent
    BY <1>8 DEF LedgerValid
  <2> HIDE DEF next, undone
  <2> QED
    BY <2>4, <2>5, <2>6, GroupGivenTypes, AmountsAssumption
<1> QED
  BY <1>7, <1>8

\* In books whose entries have their accounts, every import can be undone.
LEMMA ValidBooksAreUndone ==
  ASSUME ImportsInv
  PROVE  ImportsAreUndone
<1> SUFFICES ASSUME books # Absent PROVE ImportsCanBeUndone /\ UndoRestores
  BY DEF ImportsAreUndone
<1>1. books \in Ledgers /\ LedgerValid(books)
  BY DEF ImportsInv, ImportsTypeOK
<1>2. ImportsCanBeUndone
  BY <1>1, ImportsUndoable DEF ImportsCanBeUndone, LedgerValid
<1>3. UndoRestores
  BY <1>1, UndoLeavesTheRest DEF UndoRestores
<1> QED
  BY <1>2, <1>3

-----------------------------------------------------------------------------
(* Imports: the warnings. *)

\* An amount that is there says something.
LEMMA AmountsSpeak ==
  /\ \A figures \in GroupFigures : Says(figures) = {"amount"}
  /\ \A figures \in SheetFigures : Says(figures) = DOMAIN figures
  /\ \A figures \in SheetFigures : DOMAIN figures \subseteq Items
  /\ \A figures \in EntryFigures : Says(figures) \subseteq {"budget", "actual"}
<1>1. \A figures \in GroupFigures : Says(figures) = {"amount"}
  BY AmountsAssumption DEF GroupFigures, Says
<1>2. ASSUME NEW figures \in SheetFigures
      PROVE  Says(figures) = DOMAIN figures /\ DOMAIN figures \subseteq Items
  <2>1. PICK items \in SUBSET Items : figures \in [items -> Amounts]
    BY DEF SheetFigures
  <2> QED
    BY <2>1, AmountsAssumption DEF Says
<1>3. \A figures \in EntryFigures : Says(figures) \subseteq {"budget", "actual"}
  BY DEF EntryFigures, Says
<1> QED
  BY <1>1, <1>2, <1>3

\* What a paste leaves unsaid of the books: the figures of the rows it writes.
LEMMA LostByWriting ==
  ASSUME books \in Ledgers, NEW paste \in Pastes, Sendable(paste), NEW sources,
         books' = Imported(books, paste, sources)
  PROVE  LostFigures =
           {d \in Cells \X ({"budget", "actual", "amount"} \cup Items) :
              /\ d[1] \in Written(paste) \cap Filled(books)
              /\ d[2] \in Says(books.rows[d[1]].figures)
              /\ d[2] \notin Says(FiguresFor(paste, d[1]))}
<1>1. ASSUME NEW cell \in Cells
      PROVE  books'.rows[cell] =
               IF cell \notin Written(paste) THEN books.rows[cell]
               ELSE [figures |-> FiguresFor(paste, cell), sources |-> sources]
  BY DEF Imported
<1>2. ASSUME NEW cell \in Cells, NEW f
      PROVE  (/\ books.rows[cell] # Absent
              /\ f \in Says(books.rows[cell].figures)
              /\ f \notin Says(books'.rows[cell].figures))
             <=> (/\ cell \in Written(paste) \cap Filled(books)
                  /\ f \in Says(books.rows[cell].figures)
                  /\ f \notin Says(FiguresFor(paste, cell)))
  <2>1. CASE cell \notin Written(paste)
    BY <1>1, <2>1
  <2>2. CASE cell \in Written(paste)
    <3>0. books'.rows[cell] =
            [figures |-> FiguresFor(paste, cell), sources |-> sources]
      BY <1>1, <2>2
    <3>1. books'.rows[cell].figures = FiguresFor(paste, cell)
      BY <3>0
    <3>2. Says(books'.rows[cell].figures) = Says(FiguresFor(paste, cell))
      BY <3>1 DEF Says
    <3>3. books.rows[cell] # Absent <=> cell \in Filled(books)
      BY DEF Filled
    <3> QED
      BY <2>2, <3>2, <3>3
  <2> QED
    BY <2>1, <2>2
<1> QED
  BY <1>2 DEF LostFigures

LEMMA FinanceWarnings ==
  ASSUME books \in Ledgers, NEW paste \in Pastes, Sendable(paste), NEW sources,
         books' = Imported(books, paste, sources), paste.form = "finance"
  PROVE  LostFigures = EntryDrops(paste, books)
<1>1. \A cell \in Written(paste) :
        /\ cell \in Cells
        /\ FiguresFor(paste, cell) = EntryValue(paste, cell)
        /\ cell \in Filled(books) =>
             Says(books.rows[cell].figures) \subseteq {"budget", "actual"}
  BY WrittenFinance, LedgerTypes, AmountsSpeak DEF FiguresFor
<1>2. EntryDrops(paste, books) =
        {d \in Cells \X ({"budget", "actual", "amount"} \cup Items) :
           /\ d[1] \in Written(paste) \cap Filled(books)
           /\ d[2] \in Says(books.rows[d[1]].figures)
           /\ d[2] \notin Says(EntryValue(paste, d[1]))}
  <2>1. ASSUME NEW d \in EntryDrops(paste, books)
        PROVE  /\ d \in Cells \X ({"budget", "actual", "amount"} \cup Items)
               /\ d[1] \in Written(paste) \cap Filled(books)
               /\ d[2] \in Says(books.rows[d[1]].figures)
               /\ d[2] \notin Says(EntryValue(paste, d[1]))
    <3>1. PICK cell \in Written(paste) \cap Filled(books) :
            \E f \in Says(books.rows[cell].figures) \ Says(EntryValue(paste, cell)) :
              d = <<cell, f>>
      BY DEF EntryDrops
    <3> QED
      BY <1>1, <3>1
  <2>2. ASSUME NEW d \in Cells \X ({"budget", "actual", "amount"} \cup Items),
               d[1] \in Written(paste) \cap Filled(books),
               d[2] \in Says(books.rows[d[1]].figures),
               d[2] \notin Says(EntryValue(paste, d[1]))
        PROVE  d \in EntryDrops(paste, books)
    <3>1. d = <<d[1], d[2]>>
      OBVIOUS
    <3> QED
      BY <2>2, <3>1 DEF EntryDrops
  <2> QED
    BY <2>1, <2>2
<1> QED
  BY <1>1, <1>2, LostByWriting

LEMMA GroupWarnings ==
  ASSUME books \in Ledgers, NEW paste \in Pastes, Sendable(paste), NEW sources,
         books' = Imported(books, paste, sources), paste.form \in GroupTypes
  PROVE  LostFigures = {}
<1>1. ASSUME NEW cell \in Written(paste), cell \in Filled(books)
      PROVE  Says(books.rows[cell].figures) \subseteq Says(FiguresFor(paste, cell))
  BY <1>1, WrittenGroup, LedgerTypes, AmountsSpeak
<1> QED
  BY <1>1, LostByWriting

LEMMA BalanceWarnings ==
  ASSUME books \in Ledgers, NEW paste \in Pastes, Sendable(paste), NEW sources,
         books' = Imported(books, paste, sources), paste.form = "balance"
  PROVE  LostFigures = SheetDrops(paste, books)
<1> DEFINE cell == Sheet(paste.sheet)
           items == {line.item : line \in LinesOf(paste)}
<1>1. /\ cell \in Cells /\ FiguresOf(cell) = SheetFigures
      /\ Written(paste) = {cell}
  BY LineTypes, WrittenBalance, CellTypes
<1>2. Says(FiguresFor(paste, cell)) = items
  <2>1. /\ FiguresFor(paste, cell) \in SheetFigures
        /\ FiguresFor(paste, cell) \in [items -> Amounts]
    BY WrittenBalance
  <2> HIDE DEF items, cell
  <2> QED
    BY <2>1, AmountsSpeak
<1>3. cell \in Filled(books) =>
        /\ Says(books.rows[cell].figures) = DOMAIN books.rows[cell].figures
        /\ DOMAIN books.rows[cell].figures \subseteq Items
  BY <1>1, LedgerTypes, AmountsSpeak
<1>4. SheetDrops(paste, books) =
        IF cell \notin Filled(books) THEN {}
        ELSE {<<cell, i>> : i \in DOMAIN books.rows[cell].figures \ items}
  BY DEF SheetDrops
<1> HIDE DEF cell, items
<1>5. ASSUME NEW d \in Cells \X ({"budget", "actual", "amount"} \cup Items)
      PROVE  d \in LostFigures <=>
               /\ cell \in Filled(books)
               /\ d = <<cell, d[2]>>
               /\ d[2] \in DOMAIN books.rows[cell].figures \ items
  BY <1>1, <1>2, <1>3, LostByWriting
<1>6. LostFigures \subseteq Cells \X ({"budget", "actual", "amount"} \cup Items)
  BY DEF LostFigures
<1> QED
  BY <1>1, <1>3, <1>4, <1>5, <1>6

LEMMA WarnedOfTheLoss ==
  ASSUME ImportsInv, NEW sources \in SourceSets, SubmitImport(sources),
         previewed = booksRevision
  PROVE  LostFigures = warned
<1>1. SubmitText(sources)
  BY DEF SubmitImport, SubmitFinanceImport, SubmitGroupBudgetImport,
     SubmitGroupActualImport, SubmitBalanceImport
<1>2. /\ Sendable(text) /\ books # Absent /\ booksSeen = booksRevision
      /\ books' = Imported(books, text, sources)
  BY <1>1 DEF SubmitText, SendOperations, SaveBooks
<1>3. /\ text \in Pastes /\ text # NoText /\ books \in Ledgers
      /\ booksShown = books
  BY <1>2 DEF ImportsInv, ImportsTypeOK, Sendable, NoText
<1>4. Known = books
  BY <1>2, <1>3 DEF Known
<1>5. warned = Warnings(text, books)
  BY <1>2, <1>3, <1>4 DEF ImportsInv
<1>6. ~ HasErrors(text)
  BY <1>2 DEF Sendable
<1>7. CASE text.form = "finance"
  BY <1>2, <1>3, <1>5, <1>6, <1>7, FinanceWarnings DEF Warnings
<1>8. CASE text.form \in GroupTypes
  BY <1>2, <1>3, <1>5, <1>6, <1>8, GroupWarnings DEF Warnings, GroupTypes
<1>9. CASE text.form = "balance"
  BY <1>2, <1>3, <1>5, <1>6, <1>9, BalanceWarnings DEF Warnings
<1> QED
  BY <1>3, <1>7, <1>8, <1>9, LineTypes DEF Forms

-----------------------------------------------------------------------------
(* Imports: the theorems. *)

\* The books are books, those of the tab too, and every one of the conditions
\* above holds of them.
LEMMA ImportsInvariance == ImportsSpec => []ImportsInv
BY ImportsBegin, ImportsStep, PTL DEF ImportsSpec

\* A stored row says something, and what a row of its type can say.
THEOREM ImportsTypeCorrect == ImportsSpec => []ImportsTypeOK
<1>1. ImportsInv => ImportsTypeOK
  BY DEF ImportsInv
<1> QED
  BY <1>1, ImportsInvariance, PTL

\* Every import can be undone as a whole, and undoing one that overwrote
\* nothing leaves every row as it was (planImportDeletion).
THEOREM ImportsUndone == ImportsSpec => []ImportsAreUndone
BY ImportsInvariance, ValidBooksAreUndone, PTL

LEMMA ImportsLoseWhatWasWarned ==
  ImportsInv /\ [ImportsNext]_importVars => [WarningsAreTrue]_importVars
BY WarnedOfTheLoss DEF WarningsAreTrue

\* A paste that is sent to the workspace it was previewed in loses what its
\* preview warned of (detectFinancialImportValueDrops).
THEOREM PreviewsWarn == ImportsSpec => PreviewWarns
<1>1. ImportsInv /\ [ImportsNext]_importVars => [WarningsAreTrue]_importVars
  BY ImportsLoseWhatWasWarned
<1> QED
  BY <1>1, ImportsInvariance, PTL DEF ImportsSpec, PreviewWarns

-----------------------------------------------------------------------------
(* The statement. *)

LEMMA ShownTypes ==
  ASSUME NEW s \in Statement \cup {NoStatement}
  PROVE  /\ Shown(s) \in [Fields -> UNION {Periods, Dates, {""}}]
         /\ Shown(s)["period"] \in Periods \cup {""}
         /\ Shown(s)["handled"] \in Dates \cup {""}
         /\ s # NoStatement => \A f \in Fields : Shown(s)[f] = s[f]
<1>1. CASE s = NoStatement
  BY <1>1 DEF Shown, Fields
<1>2. CASE s # NoStatement
  <2>1. s.period \in Periods /\ s.handled \in Dates \cup {""}
    BY <1>2 DEF Statement
  <2>2. Shown(s) = [f \in Fields |-> s[f]]
    BY <1>2 DEF Shown
  <2>3. s["period"] = s.period /\ s["handled"] = s.handled
    OBVIOUS
  <2>4. Shown(s)["period"] = s.period /\ Shown(s)["handled"] = s.handled
    BY <2>2 DEF Fields
  <2>5. \A f \in Fields : Shown(s)[f] \in UNION {Periods, Dates, {""}}
    BY <2>1, <2>4 DEF Fields
  <2> QED
    BY <2>1, <2>2, <2>4, <2>5
<1> QED
  BY <1>1, <1>2

LEMMA FormFacts ==
  ASSUME StatementInv
  PROVE  /\ StatementTypeOK
         /\ statementRevision \in Nat \ {0} /\ statementSeen \in Nat \ {0}
         /\ statementRevision <= MaxStatementRevision
         /\ statementSeen <= statementRevision
<1>1. StatementTypeOK
  BY DEF StatementInv
<1>2. /\ statementRevision \in 1 .. MaxStatementRevision
      /\ statementSeen \in 1 .. statementRevision
  BY <1>1 DEF StatementTypeOK
<1> QED
  BY <1>1, <1>2, StatementBoundAssumption

\* The types of what a step may change.
LEMMA FormTypes ==
  ASSUME statement' \in Statement \cup {NoStatement},
         statementShown' \in Statement \cup {NoStatement},
         statementRevision' \in 1 .. MaxStatementRevision,
         statementSeen' \in 1 .. statementRevision',
         field' \in FieldValues,
         edited' \in [Fields -> BOOLEAN], touched' \in BOOLEAN,
         source' \in Periods \cup {"", HandWritten},
         pasted' \in StatementRows \cup {NoStatement}
  PROVE  StatementTypeOK'
BY DEF StatementTypeOK

\* A field is filled in with what is shown, the source with the period's.
LEMMA PrefillGives ==
  ASSUME StatementInv, NEW s \in Statement \cup {NoStatement}, Prefill(s),
         touched' = touched, edited' = edited
  PROVE  /\ field' \in FieldValues
         /\ \A f \in Fields : ~ edited'[f] => field'[f] = Shown(s)[f]
         /\ source' = IF touched' THEN HandWritten ELSE SourceId(field'.period)
         /\ source' \in Periods \cup {"", HandWritten}
<1>1. field \in FieldValues
  BY DEF StatementInv, StatementTypeOK
<1>2. field' = [f \in Fields |-> IF edited[f] THEN field[f] ELSE Shown(s)[f]]
  BY DEF Prefill
<1>3. \A f \in Fields : ~ edited'[f] => field'[f] = Shown(s)[f]
  BY <1>2
<1>4. /\ field'["period"] \in Periods \cup {""}
      /\ field'["handled"] \in Dates \cup {""}
  BY <1>1, <1>2, ShownTypes DEF Fields, FieldValues
<1>5. field' = [period |-> field'["period"], handled |-> field'["handled"]]
  BY <1>2 DEF Fields
<1>6. field' \in FieldValues /\ field'.period \in Periods \cup {""}
  BY <1>4, <1>5 DEF FieldValues
<1>7. source' = IF touched' THEN HandWritten ELSE SourceId(field'.period)
  BY DEF StatementInv, Prefill, Regenerated
<1>8. source' \in Periods \cup {"", HandWritten}
  BY <1>6, <1>7 DEF SourceId
<1> QED
  BY <1>3, <1>6, <1>7, <1>8

\* A saved statement is one, its source that of its period.
LEMMA SavedTypes ==
  ASSUME StatementInv, pasted \in StatementRows \ Flawed, field.period # ""
  PROVE  LET s == [rows |-> pasted, period |-> field.period,
                   handled |-> field.handled, source |-> source] IN
         /\ s \in Statement
         /\ s.source \in {SourceId(s.period), HandWritten}
BY DEF StatementInv, StatementTypeOK, FieldValues, Statement

\* The tab saves, and shows what it has saved.
LEMMA SaveKeepsForm ==
  ASSUME StatementInv, NEW s \in Statement \cup {NoStatement},
         s # NoStatement => s.source \in {SourceId(s.period), HandWritten},
         SaveStatement(s), pasted' \in StatementRows \cup {NoStatement}
  PROVE  StatementInv'
<1>1. /\ statement' = s /\ statementRevision' = statementRevision + 1
      /\ statementRevision < MaxStatementRevision
      /\ statementShown' = s /\ statementSeen' = statementRevision'
      /\ Prefill(s) /\ touched' = touched /\ edited' = edited
  BY DEF SaveStatement
<1>2. /\ StatementTypeOK /\ statementRevision \in Nat \ {0}
  BY FormFacts
<1>3. /\ field' \in FieldValues
      /\ \A f \in Fields : ~ edited'[f] => field'[f] = Shown(s)[f]
      /\ source' = IF touched' THEN HandWritten ELSE SourceId(field'.period)
      /\ source' \in Periods \cup {"", HandWritten}
  BY <1>1, PrefillGives
<1>4. StatementTypeOK'
  <2>1. /\ statementRevision' \in 1 .. MaxStatementRevision
        /\ statementSeen' \in 1 .. statementRevision'
    BY <1>1, <1>2, StatementBoundAssumption
  <2>2. edited' \in [Fields -> BOOLEAN] /\ touched' \in BOOLEAN
    BY <1>1, <1>2 DEF StatementTypeOK
  <2>3. /\ statement' \in Statement \cup {NoStatement}
        /\ statementShown' \in Statement \cup {NoStatement}
    BY <1>1
  <2> QED
    BY <1>3, <2>1, <2>2, <2>3, FormTypes
<1>5. SourceNamesItsPeriod'
  BY <1>1 DEF SourceNamesItsPeriod, SourceId
<1>6. Shown(s) = Shown(statementShown)'
  BY <1>1 DEF Shown
<1> QED
  BY <1>1, <1>3, <1>4, <1>5, <1>6 DEF StatementInv

LEMMA StatementBegins == StatementInit => StatementInv
<1> SUFFICES ASSUME StatementInit PROVE StatementInv
  OBVIOUS
<1>1. field \in FieldValues /\ edited \in [Fields -> BOOLEAN]
  BY DEF StatementInit, FieldValues, Fields
<1>2. /\ statementRevision \in 1 .. MaxStatementRevision
      /\ statementSeen \in 1 .. statementRevision
  <2>1. statementRevision = 1 /\ statementSeen = 1
    BY DEF StatementInit
  <2> QED
    BY <2>1, StatementBoundAssumption
<1>3. StatementTypeOK
  BY <1>1, <1>2 DEF StatementInit, StatementTypeOK, SourceId
<1> QED
  BY <1>3 DEF StatementInit, StatementInv, SourceNamesItsPeriod, Shown, SourceId,
              Fields

LEMMA StatementStep ==
  StatementInv /\ [StatementNext]_statementVars => StatementInv'
<1> SUFFICES ASSUME StatementInv, [StatementNext]_statementVars
             PROVE  StatementInv'
  OBVIOUS
<1>0. /\ StatementTypeOK /\ SourceNamesItsPeriod
      /\ statementRevision \in Nat \ {0} /\ statementSeen \in Nat \ {0}
      /\ statementRevision <= MaxStatementRevision
      /\ statementSeen <= statementRevision
  BY FormFacts DEF StatementInv
<1>1. CASE OthersSaveStatement
  <2>0. /\ UNCHANGED <<statementShown, field, edited, source, touched, pasted>>
        /\ \/ statement' \in {NoStatement, statement}
           \/ \E r \in StatementRows \ Flawed, p \in Periods, d \in Dates \cup {""} :
                statement' = [rows |-> r, period |-> p, handled |-> d,
                              source |-> SourceId(p)]
    <3>1. /\ formVars' = formVars
          /\ statementShown' = statementShown
      BY <1>1 DEF OthersSaveStatement
    <3>2. UNCHANGED <<field, edited, source, touched, pasted>>
      BY <3>1 DEF formVars
    <3>3. \/ statement' \in {NoStatement, statement}
          \/ \E r \in StatementRows \ Flawed, p \in Periods, d \in Dates \cup {""} :
                statement' = [rows |-> r, period |-> p, handled |-> d,
                              source |-> SourceId(p)]
      BY <1>1 DEF OthersSaveStatement
    <3> QED
      BY <3>1, <3>2, <3>3
  <2>1. /\ statementRevision < MaxStatementRevision
        /\ statementRevision' = statementRevision + 1
        /\ statementSeen' = statementSeen
    BY <1>1 DEF OthersSaveStatement
  <2>2. ASSUME statement' \in {NoStatement, statement}
        PROVE  statement' \in Statement \cup {NoStatement} /\ SourceNamesItsPeriod'
    BY <1>0, <2>2 DEF StatementTypeOK, SourceNamesItsPeriod
  <2>3. ASSUME NEW r \in StatementRows \ Flawed, NEW p \in Periods,
               NEW d \in Dates \cup {""},
               statement' = [rows |-> r, period |-> p, handled |-> d,
                             source |-> SourceId(p)]
        PROVE  statement' \in Statement \cup {NoStatement} /\ SourceNamesItsPeriod'
    BY <2>3 DEF Statement, SourceId, SourceNamesItsPeriod
  <2>4. statement' \in Statement \cup {NoStatement} /\ SourceNamesItsPeriod'
    BY <2>0, <2>2, <2>3
  <2>5. StatementTypeOK'
    <3>1. /\ statementRevision' \in 1 .. MaxStatementRevision
          /\ statementSeen' \in 1 .. statementRevision'
      BY <1>0, <2>1, StatementBoundAssumption
    <3> QED
      BY <1>0, <2>0, <2>4, <3>1 DEF StatementTypeOK
  <2>6. Shown(statementShown)' = Shown(statementShown)
    BY <2>0 DEF Shown
  <2>7. statementSeen' # statementRevision'
    BY <1>0, <2>1
  <2> QED
    BY <1>0, <2>0, <2>4, <2>5, <2>6, <2>7 DEF StatementInv
<1>2. CASE ReloadStatement
  <2> USE <1>2 DEF ReloadStatement
  <2>1. statement \in Statement \cup {NoStatement}
    BY <1>0 DEF StatementTypeOK
  <2>2. /\ field' \in FieldValues
        /\ \A f \in Fields : ~ edited'[f] => field'[f] = Shown(statement)[f]
        /\ source' = IF touched' THEN HandWritten ELSE SourceId(field'.period)
        /\ source' \in Periods \cup {"", HandWritten}
    BY <2>1, PrefillGives
  <2>3. StatementTypeOK'
    <3>1. statementSeen' \in 1 .. statementRevision'
      BY <1>0
    <3> QED
      BY <1>0, <2>2, <3>1 DEF StatementTypeOK
  <2>4. Shown(statement) = Shown(statementShown)'
    BY DEF Shown
  <2>5. SourceNamesItsPeriod'
    BY <1>0 DEF SourceNamesItsPeriod
  <2> QED
    BY <2>2, <2>3, <2>4, <2>5 DEF StatementInv
<1>3. ASSUME NEW f \in Fields, EditField(f) PROVE StatementInv'
  <2> USE <1>3 DEF EditField
  <2>1. PICK v \in FieldValues : field' = [field EXCEPT ![f] = v[f]]
    OBVIOUS
  <2>2. field \in FieldValues
    BY <1>0 DEF StatementTypeOK
  <2>5. /\ field' \in FieldValues
        /\ f # "period" => field'.period = field.period
    BY <2>1, <2>2 DEF FieldValues, Fields
  <2>6. field'.period \in Periods \cup {""}
    BY <2>5 DEF FieldValues
  <2>7. source' = IF touched' THEN HandWritten ELSE SourceId(field'.period)
    BY <2>5 DEF StatementInv, Regenerated
  <2>8. source' \in Periods \cup {"", HandWritten}
    BY <2>6, <2>7 DEF SourceId
  <2>9. edited' \in [Fields -> BOOLEAN]
    BY <1>0 DEF StatementTypeOK
  <2>10. StatementTypeOK'
    BY <1>0, <2>5, <2>8, <2>9 DEF StatementTypeOK
  <2>11. \A g \in Fields : ~ edited'[g] => field'[g] = Shown(statementShown')[g]
    <3> SUFFICES ASSUME NEW g \in Fields, ~ edited'[g]
                 PROVE  field'[g] = Shown(statementShown')[g]
      OBVIOUS
    <3>1. edited \in [Fields -> BOOLEAN]
      BY <1>0 DEF StatementTypeOK
    <3>2. g # f /\ ~ edited[g]
      BY <3>1
    <3>3. field'[g] = field[g]
      BY <2>1, <2>2, <3>2 DEF FieldValues, Fields
    <3>4. field[g] = Shown(statementShown)[g]
      BY <3>2 DEF StatementInv
    <3> QED
      BY <3>3, <3>4
  <2>12. SourceNamesItsPeriod'
    BY <1>0 DEF SourceNamesItsPeriod
  <2> QED
    BY <2>7, <2>10, <2>11, <2>12 DEF StatementInv
<1>4. CASE EditSource
  <2> USE <1>4 DEF EditSource
  <2>1. StatementTypeOK'
    BY <1>0 DEF StatementTypeOK
  <2>2. Shown(statementShown)' = Shown(statementShown)
    BY DEF Shown
  <2>3. SourceNamesItsPeriod'
    BY <1>0 DEF SourceNamesItsPeriod
  <2> QED
    BY <2>1, <2>2, <2>3 DEF StatementInv
<1>5. ASSUME NEW r \in StatementRows, PasteRows(r) PROVE StatementInv'
  <2> USE <1>5 DEF PasteRows
  <2>1. StatementTypeOK'
    BY <1>0 DEF StatementTypeOK
  <2>2. Shown(statementShown)' = Shown(statementShown)
    BY DEF Shown
  <2>3. SourceNamesItsPeriod'
    BY <1>0 DEF SourceNamesItsPeriod
  <2> QED
    BY <2>1, <2>2, <2>3 DEF StatementInv
<1>6. CASE SubmitMaintenanceDocument
  BY <1>6, SavedTypes, SaveKeepsForm DEF SubmitMaintenanceDocument
<1>7. CASE DeleteStatement
  BY <1>0, <1>7, SaveKeepsForm DEF DeleteStatement, StatementTypeOK
<1>8. CASE UNCHANGED statementVars
  <2> USE <1>8 DEF statementVars, formVars
  <2>1. StatementTypeOK'
    BY <1>0 DEF StatementTypeOK
  <2>2. Shown(statementShown)' = Shown(statementShown)
    BY DEF Shown
  <2>3. SourceNamesItsPeriod'
    BY <1>0 DEF SourceNamesItsPeriod
  <2> QED
    BY <2>1, <2>2, <2>3 DEF StatementInv
<1> QED
  BY <1>1, <1>2, <1>3, <1>4, <1>5, <1>6, <1>7, <1>8 DEF StatementNext

\* A header field that was never edited shows what is stored, so that is saved.
LEMMA UneditedStays ==
  ASSUME StatementInv, SubmitMaintenanceDocument, statement # NoStatement,
         NEW f \in Fields, ~ edited[f]
  PROVE  statement'[f] = statement[f]
<1>1. /\ statementSeen = statementRevision
      /\ statement' = [rows |-> pasted, period |-> field.period,
                       handled |-> field.handled, source |-> source]
  BY DEF SubmitMaintenanceDocument, SaveStatement
<1>2. statementShown = statement /\ statement \in Statement \cup {NoStatement}
  BY <1>1 DEF StatementInv, StatementTypeOK
<1>3. field[f] = statement[f]
  BY <1>2, ShownTypes DEF StatementInv
<1>4. statement'[f] = field[f]
  BY <1>1 DEF Fields
<1> QED
  BY <1>3, <1>4

LEMMA StatementInvariance == StatementSpec => []StatementInv
BY StatementBegins, StatementStep, PTL DEF StatementSpec

\* What is stored as the statement is one, and so is what the form shows.
THEOREM StatementTypeCorrect == StatementSpec => []StatementTypeOK
<1>1. StatementInv => StatementTypeOK
  BY DEF StatementInv
<1> QED
  BY <1>1, StatementInvariance, PTL

LEMMA HeadersStay ==
  StatementInv /\ StatementInv' /\ [StatementNext]_statementVars
  => [SourceNamesItsPeriod' /\ UneditedHeaderIsKept]_statementVars
BY UneditedStays DEF StatementInv, UneditedHeaderIsKept

\* A header field never edited is saved as it was stored, and a source not
\* written by hand names the period it is saved with
\* (prefillMaintenanceNeedHeader, submitMaintenanceDocument).
THEOREM HeaderKept == StatementSpec => HeaderIsKept
<1>1. StatementInv /\ StatementInv' /\ [StatementNext]_statementVars
        => [SourceNamesItsPeriod' /\ UneditedHeaderIsKept]_statementVars
  BY HeadersStay
<1> QED
  BY <1>1, StatementInvariance, PTL DEF StatementSpec, HeaderIsKept

-----------------------------------------------------------------------------
(* Sessions: the invariant. *)

Calls == [op: Ops, at: {"idle", "token", "answer"}, by: 0..MaxSignIns, then: BOOLEAN]
Refreshes == [by: 1..MaxSignIns, gen: Nat, at: {"asked", "granted"}, expires: Nat]

SharedInv ==
    /\ promise <=> refreshes # {}
    /\ \A f, g \in refreshes : f = g
    /\ \A r \in Requests : calls[r].at = "token" => promise

\* The tab's sessions are those the service began.
KnownInv ==
    /\ store = auth
    /\ signIns + Len(generation) <= MaxSignIns
    /\ auth # None => auth.by <= Len(generation)
    /\ \A f \in refreshes : f.by <= Len(generation)

\* The session's refresh token is unspent, or its next is on its way.
Good(s) ==
    s # None /\ s.by \notin lost =>
        \/ s.gen = generation[s.by]
        \/ \E f \in refreshes : f.at = "granted" /\ f.by = s.by

GoodInv ==
    /\ \A f \in refreshes : f.by \notin lost => f.gen = generation[f.by]
    /\ Good(auth)

SessionInv == TypeOK /\ SharedInv /\ KnownInv /\ GoodInv

-----------------------------------------------------------------------------
(* Sessions. *)

LEMMA SessionFacts ==
  ASSUME TypeOK, auth # None
  PROVE  /\ auth \in Sessions
         /\ auth.by \in 1..MaxSignIns /\ auth.gen \in Nat
         /\ auth.expires \in Nat /\ auth.refreshable \in BOOLEAN
BY DEF TypeOK, Sessions

LEMMA SessionIsNew ==
  ASSUME NEW by \in 1..MaxSignIns, NEW gen \in Nat, NEW expires \in Nat,
         NEW refreshable \in BOOLEAN
  PROVE  /\ Session(by, gen, expires, refreshable) \in Sessions
         /\ Session(by, gen, expires, refreshable) # None
         /\ Session(by, gen, expires, refreshable).by = by
         /\ Session(by, gen, expires, refreshable).gen = gen
<1>1. Session(by, gen, expires, refreshable).by # None.by
  BY DEF Session, None
<1> QED
  BY <1>1, SessionAssumption DEF Session, Sessions

\* A step that leaves the session, the refreshes and the service alone.
LEMMA Aside ==
  ASSUME SessionInv,
         UNCHANGED <<auth, store, promise, refreshes, generation, lost>>,
         now' \in 0..MaxNow, admin' \in 0..MaxSignIns, out' \in BOOLEAN,
         signIns' \in Nat, signIns' + Len(generation) <= MaxSignIns,
         logouts' \subseteq 1..MaxSignIns, revoked' \subseteq 1..MaxSignIns,
         calls' \in [Requests -> Calls],
         \A r \in Requests : calls'[r].at = "token" => promise
  PROVE  SessionInv'
<1>1. TypeOK'
  BY DEF SessionInv, TypeOK, Calls
<1>2. SharedInv'
  BY DEF SessionInv, SharedInv
<1>3. KnownInv'
  BY DEF SessionInv, KnownInv
<1>4. GoodInv'
  BY DEF SessionInv, GoodInv, Good
<1> QED
  BY <1>1, <1>2, <1>3, <1>4 DEF SessionInv

LEMMA IdleFacts == Idle \in Calls /\ Idle.at = "idle"
BY SessionAssumption DEF Idle, Request, Calls, Ops

\* A step that ends the session and at most the refreshes with it.
LEMMA SessionCleared ==
  ASSUME SessionInv, Clear,
         UNCHANGED <<now, generation, lost, revoked>>,
         admin' \in 0..MaxSignIns, out' \in BOOLEAN, signIns' = signIns,
         logouts' \subseteq logouts, refreshes' \subseteq refreshes,
         promise' \in BOOLEAN, promise' <=> refreshes' # {},
         calls' \in [Requests -> Calls],
         \A r \in Requests : calls'[r].at = "token" => promise'
  PROVE  SessionInv'
<1>1. TypeOK'
  BY DEF SessionInv, TypeOK, Calls, Clear
<1>2. SharedInv'
  BY DEF SessionInv, SharedInv
<1>3. KnownInv'
  BY DEF SessionInv, KnownInv, Clear
<1>4. GoodInv'
  BY DEF SessionInv, GoodInv, Good, Clear
<1> QED
  BY <1>1, <1>2, <1>3, <1>4 DEF SessionInv

-----------------------------------------------------------------------------
(* The access token of a request. *)

LEMMA AskInv ==
  ASSUME SessionInv, NEW r \in Requests, NEW c \in Calls, AskForToken(r, c),
         UNCHANGED <<now, signIns, logouts, out, generation, revoked, lost>>,
         admin' \in 0..MaxSignIns
  PROVE  SessionInv'
<1> USE SessionAssumption
<1>0. /\ now \in 0..MaxNow /\ out \in BOOLEAN /\ signIns \in Nat
      /\ logouts \subseteq 1..MaxSignIns /\ revoked \subseteq 1..MaxSignIns
      /\ signIns + Len(generation) <= MaxSignIns
      /\ calls \in [Requests -> Calls] /\ promise \in BOOLEAN
      /\ \A q \in Requests : calls[q].at = "token" => promise
      /\ promise <=> refreshes # {}
  BY DEF SessionInv, TypeOK, KnownInv, SharedInv, Calls
<1>1. ASSUME NEW new \in Calls, calls' = [calls EXCEPT ![r] = new], new.at # "token"
      PROVE  /\ calls' \in [Requests -> Calls]
             /\ \A q \in Requests : calls'[q].at = "token" => promise
  BY <1>0, <1>1
<1>2. CASE auth = None
  <2>1. calls' = [calls EXCEPT ![r] = Idle] /\ UNCHANGED <<auth, store, promise, refreshes>>
    BY <1>2 DEF AskForToken
  <2> QED
    BY <1>0, <1>1, <2>1, IdleFacts, Aside
<1>3. CASE auth # None /\ Fresh(auth)
  <2> DEFINE new == [c EXCEPT !.at = "answer", !.by = auth.by]
  <2>1. calls' = [calls EXCEPT ![r] = new] /\ UNCHANGED <<auth, store, promise, refreshes>>
    BY <1>3 DEF AskForToken
  <2>2. new \in Calls /\ new.at = "answer"
    <3>1. auth.by \in 0..MaxSignIns
      BY <1>3, SessionFacts DEF SessionInv
    <3> QED
      BY <3>1 DEF Calls
  <2> HIDE DEF new
  <2> QED
    BY <1>0, <1>1, <2>1, <2>2, Aside
<1>4. CASE auth # None /\ ~ Fresh(auth) /\ ~ auth.refreshable
  <2>1. /\ Clear /\ calls' = [calls EXCEPT ![r] = Idle]
        /\ UNCHANGED <<promise, refreshes>>
    BY <1>4 DEF AskForToken
  <2> QED
    BY <1>0, <1>1, <2>1, IdleFacts, SessionCleared
<1>5. CASE auth # None /\ ~ Fresh(auth) /\ auth.refreshable
  <2> DEFINE new == [c EXCEPT !.at = "token"]
             asked == [by |-> auth.by, gen |-> auth.gen, at |-> "asked", expires |-> 0]
  <2>1. /\ promise' = TRUE
        /\ refreshes' = IF promise THEN refreshes ELSE refreshes \cup {asked}
        /\ calls' = [calls EXCEPT ![r] = new]
        /\ UNCHANGED <<auth, store>>
    BY <1>5 DEF AskForToken
  <2>2. new \in Calls
    BY DEF Calls
  <2>3. calls' \in [Requests -> Calls]
    BY <1>0, <2>1, <2>2
  <2>4. asked \in Refreshes /\ asked.by = auth.by /\ asked.gen = auth.gen
    BY <1>5, SessionFacts DEF Refreshes, SessionInv
  <2>5. TypeOK'
    BY <1>0, <2>1, <2>3, <2>4 DEF SessionInv, TypeOK, Calls, Refreshes
  <2>6. SharedInv'
    BY <1>0, <2>1 DEF SessionInv, SharedInv
  <2>7. KnownInv'
    BY <1>5, <2>1, <2>4 DEF SessionInv, KnownInv
  <2>8. GoodInv'
    <3>1. CASE promise
      BY <2>1, <3>1 DEF SessionInv, GoodInv, Good
    <3>2. CASE ~ promise
      <4>1. refreshes = {} /\ refreshes' = {asked}
        BY <1>0, <2>1, <3>2
      <4>2. auth.by \notin lost => auth.gen = generation[auth.by]
        BY <1>5, <4>1 DEF SessionInv, GoodInv, Good
      <4> QED
        BY <2>1, <2>4, <4>1, <4>2 DEF GoodInv, Good
    <3> QED
      BY <3>1, <3>2
  <2> QED
    BY <2>5, <2>6, <2>7, <2>8 DEF SessionInv
<1> QED
  BY <1>2, <1>3, <1>4, <1>5

LEMMA RequestFacts ==
  ASSUME NEW op \in Ops, NEW then \in BOOLEAN
  PROVE  Request(op, "token", 0, then) \in Calls
BY SessionAssumption DEF Request, Calls

LEMMA LoadInv ==
  ASSUME SessionInv, NEW r \in Requests, Load(r) \/ SaveBatch(r)
  PROVE  SessionInv'
<1>1. PICK c \in Calls : AskForToken(r, c)
  BY RequestFacts DEF Load, SaveBatch, Ops
<1>2. /\ UNCHANGED <<now, signIns, logouts, out, generation, revoked, lost>>
      /\ admin' = admin
  BY DEF Load, SaveBatch
<1>3. admin' \in 0..MaxSignIns
  BY <1>2 DEF SessionInv, TypeOK
<1> QED
  BY <1>1, <1>2, <1>3, AskInv

\* An answer, and then perhaps a token for the save that waited for it.
LEMMA AnswerInv ==
  ASSUME SessionInv, NEW r \in Requests, RequestAnswers(r)
  PROVE  SessionInv'
<1>0. /\ now \in 0..MaxNow /\ out \in BOOLEAN /\ signIns \in Nat
      /\ logouts \subseteq 1..MaxSignIns /\ revoked \subseteq 1..MaxSignIns
      /\ signIns + Len(generation) <= MaxSignIns /\ admin \in 0..MaxSignIns
      /\ calls \in [Requests -> Calls] /\ promise \in BOOLEAN
      /\ \A q \in Requests : calls[q].at = "token" => promise
      /\ promise <=> refreshes # {}
  BY DEF SessionInv, TypeOK, KnownInv, SharedInv, Calls
<1>1. /\ [calls EXCEPT ![r] = Idle] \in [Requests -> Calls]
      /\ \A q \in Requests : [calls EXCEPT ![r] = Idle][q].at = "token" => promise
  BY <1>0, IdleFacts
<1>2. CASE RequestSucceeds(r) \/ RequestFails(r)
  <2>1. admin' \in 0..MaxSignIns
    <3>1. calls[r] \in Calls
      BY <1>0
    <3>2. calls[r].by \in 0..MaxSignIns
      BY <3>1 DEF Calls
    <3> QED
      BY <1>0, <1>2, <3>2 DEF RequestSucceeds, RequestFails
  <2>2. UNCHANGED <<now, signIns, logouts, out, generation, revoked, lost>>
    BY <1>2 DEF RequestSucceeds, RequestFails
  <2>3. \/ AskForToken(r, Request("save", "token", 0, FALSE))
        \/ /\ calls' = [calls EXCEPT ![r] = Idle]
           /\ UNCHANGED <<auth, store, promise, refreshes>>
    BY <1>2 DEF RequestSucceeds, RequestFails
  <2>4. Request("save", "token", 0, FALSE) \in Calls
    BY RequestFacts DEF Ops
  <2> QED
    BY <1>0, <1>1, <2>1, <2>2, <2>3, <2>4, AskInv, Aside
<1>3. CASE RequestUnauthenticated(r)
  <2>1. /\ Clear /\ admin' = 0 /\ calls' = [calls EXCEPT ![r] = Idle]
        /\ UNCHANGED <<now, promise, signIns, logouts, refreshes, out, generation,
                       revoked, lost>>
    BY <1>3 DEF RequestUnauthenticated
  <2>2. admin' \in 0..MaxSignIns
    BY <2>1, SessionAssumption
  <2> QED
    BY <1>0, <1>1, <2>1, <2>2, SessionCleared
<1> QED
  BY <1>2, <1>3 DEF RequestAnswers

-----------------------------------------------------------------------------
(* Sign-in, the refresh, and the rest. *)

LEMMA SignInInv ==
  ASSUME SessionInv, SignInAnswers
  PROVE  SessionInv'
<1>0. /\ generation \in Seq(Nat) /\ Len(generation) \in Nat /\ signIns \in Nat
      /\ signIns > 0 /\ signIns + Len(generation) <= MaxSignIns
      /\ now \in Nat /\ MaxSignIns \in Nat /\ Lifetime \in Nat
  BY SessionAssumption DEF SignInAnswers, SessionInv, TypeOK, KnownInv
<1>1. CASE UNCHANGED <<auth, store, out, generation>>
  <2>1. /\ signIns' = signIns - 1
        /\ UNCHANGED <<now, admin, promise, logouts, refreshes, calls, revoked, lost>>
    BY DEF SignInAnswers
  <2>2. TypeOK'
    BY <1>0, <1>1, <2>1 DEF SessionInv, TypeOK
  <2> QED
    BY <1>0, <1>1, <2>1, <2>2 DEF SessionInv, SharedInv, KnownInv, GoodInv, Good
<1>2. ASSUME NEW refreshable \in BOOLEAN,
             Save(Session(Len(generation) + 1, 1, now + Lifetime, refreshable)),
             generation' = Append(generation, 1), out' = FALSE
      PROVE  SessionInv'
  <2> DEFINE by == Len(generation) + 1
  <2>1. /\ signIns' = signIns - 1
        /\ UNCHANGED <<now, admin, promise, logouts, refreshes, calls, revoked, lost>>
    BY DEF SignInAnswers
  <2>2. by \in 1..MaxSignIns /\ now + Lifetime \in Nat
    BY <1>0
  <2>3. /\ generation' \in Seq(Nat) /\ Len(generation') = by
        /\ generation'[by] = 1
        /\ \A i \in 1..Len(generation) : generation'[i] = generation[i]
    BY <1>0, <1>2, AppendProperties
  <2>4. /\ auth' \in Sessions /\ auth' # None /\ auth'.by = by /\ auth'.gen = 1
        /\ store' = auth'
    BY <1>2, <2>2, SessionIsNew DEF Save
  <2>5. TypeOK'
    <3>1. {promise', out'} \subseteq BOOLEAN
      BY <1>2, <2>1 DEF SessionInv, TypeOK
    <3>2. signIns' \in Nat
      BY <1>0, <2>1
    <3>3. /\ now \in 0..MaxNow /\ admin \in 0..MaxSignIns
          /\ logouts \subseteq 1..MaxSignIns /\ refreshes \subseteq Refreshes
          /\ calls \in [Requests -> Calls]
          /\ revoked \subseteq 1..MaxSignIns /\ lost \subseteq 1..MaxSignIns
      BY DEF SessionInv, TypeOK, Calls, Refreshes
    <3> QED
      BY <2>1, <2>3, <2>4, <3>1, <3>2, <3>3 DEF TypeOK, Calls, Refreshes
  <2>6. SharedInv'
    BY <2>1 DEF SessionInv, SharedInv
  <2>7. KnownInv'
    BY <1>0, <2>1, <2>3, <2>4 DEF SessionInv, TypeOK, KnownInv
  <2>8. GoodInv'
    <3>1. \A f \in refreshes : f.by \in 1..Len(generation)
      BY <1>0 DEF SessionInv, TypeOK, KnownInv
    <3> QED
      BY <2>1, <2>3, <2>4, <3>1 DEF SessionInv, GoodInv, Good
  <2> QED
    BY <2>5, <2>6, <2>7, <2>8 DEF SessionInv
<1> QED
  BY <1>1, <1>2 DEF SignInAnswers

Granted(f, gen, expires) ==
    [f EXCEPT !.at = "granted", !.gen = gen, !.expires = expires]

LEMMA GrantedFacts ==
  ASSUME NEW f \in Refreshes, NEW gen \in Nat, NEW expires \in Nat
  PROVE  /\ Granted(f, gen, expires) \in Refreshes
         /\ Granted(f, gen, expires).at = "granted"
         /\ Granted(f, gen, expires).by = f.by
         /\ Granted(f, gen, expires).gen = gen
BY DEF Refreshes, Granted

LEMMA ServiceInv ==
  ASSUME SessionInv, ServiceRefreshes
  PROVE  SessionInv'
<1>1. PICK f \in refreshes :
        /\ f.at = "asked" /\ f.gen = generation[f.by]
        /\ generation' = [generation EXCEPT ![f.by] = @ + 1]
        /\ refreshes' = (refreshes \ {f}) \cup
             {[f EXCEPT !.at = "granted", !.gen = @ + 1, !.expires = now + Lifetime]}
  BY DEF ServiceRefreshes
<1> DEFINE granted == [f EXCEPT !.at = "granted", !.gen = @ + 1, !.expires = now + Lifetime]
<1>2. UNCHANGED <<now, auth, store, admin, promise, signIns, logouts, calls, out,
                  revoked, lost>>
  BY DEF ServiceRefreshes
<1>3. /\ f \in Refreshes /\ generation \in Seq(Nat) /\ Len(generation) \in Nat
      /\ f.by \in 1..Len(generation) /\ f.gen \in Nat
      /\ now + Lifetime \in Nat
  BY SessionAssumption DEF SessionInv, TypeOK, KnownInv, Refreshes
<1>4. /\ generation' \in Seq(Nat) /\ Len(generation') = Len(generation)
      /\ \A i \in 1..Len(generation) :
           generation'[i] = IF i = f.by THEN f.gen + 1 ELSE generation[i]
  <2>1. generation' = [generation EXCEPT ![f.by] = f.gen + 1]
    BY <1>1
  <2> QED
    BY <1>3, <2>1, ExceptSeq
<1>5. /\ granted \in Refreshes /\ granted.at = "granted"
      /\ granted.by = f.by /\ granted.gen = f.gen + 1
  <2>1. f.gen + 1 \in Nat
    BY <1>3
  <2>2. granted = Granted(f, f.gen + 1, now + Lifetime)
    BY DEF Granted
  <2>3. f \in Refreshes /\ now + Lifetime \in Nat
    BY <1>3
  <2> HIDE DEF granted
  <2> QED
    BY <2>1, <2>2, <2>3, GrantedFacts
<1>6. refreshes' = {granted}
  BY <1>1 DEF SessionInv, SharedInv
<1> HIDE DEF granted
<1>7. TypeOK'
  BY <1>2, <1>4, <1>5, <1>6 DEF SessionInv, TypeOK, Refreshes
<1>8. SharedInv'
  BY <1>1, <1>2, <1>6 DEF SessionInv, SharedInv
<1>9. KnownInv'
  BY <1>2, <1>3, <1>4, <1>5, <1>6 DEF SessionInv, KnownInv
<1>10. GoodInv'
  <2>1. Good(auth)'
    <3>1. CASE auth.by = f.by
      BY <1>2, <1>5, <1>6, <3>1 DEF Good
    <3>2. CASE auth.by # f.by
      <4>1. auth # None => auth.by \in 1..Len(generation)
        BY <1>3, SessionFacts DEF SessionInv, KnownInv
      <4>2. \A g \in refreshes : g = f
        BY DEF SessionInv, SharedInv
      <4> QED
        BY <1>1, <1>2, <1>4, <3>2, <4>1, <4>2 DEF SessionInv, GoodInv, Good
    <3> QED
      BY <3>1, <3>2
  <2>2. \A g \in refreshes' : g.gen = generation'[g.by]
    BY <1>3, <1>4, <1>5, <1>6
  <2> QED
    BY <1>2, <2>1, <2>2 DEF GoodInv
<1> QED
  BY <1>7, <1>8, <1>9, <1>10 DEF SessionInv

LEMMA WokenFacts ==
  ASSUME SessionInv, NEW s \in 0..MaxSignIns
  PROVE  /\ Woken(s) \in [Requests -> Calls] /\ Rejected \in [Requests -> Calls]
         /\ \A r \in Requests : Woken(s)[r].at # "token" /\ Rejected[r].at # "token"
<1>1. ASSUME NEW r \in Requests
      PROVE  /\ Woken(s)[r] \in Calls /\ Woken(s)[r].at # "token"
             /\ Rejected[r] \in Calls /\ Rejected[r].at # "token"
  <2>1. calls[r] \in Calls
    BY DEF SessionInv, TypeOK, Calls
  <2>2. /\ [calls[r] EXCEPT !.at = "answer", !.by = s] \in Calls
        /\ [calls[r] EXCEPT !.at = "answer", !.by = s].at = "answer"
    BY <2>1 DEF Calls
  <2> QED
    BY <2>1, <2>2, IdleFacts DEF Woken, Rejected
<1>2. /\ Woken(s) = [r \in Requests |-> Woken(s)[r]]
      /\ Rejected = [r \in Requests |-> Rejected[r]]
  BY DEF Woken, Rejected
<1> QED
  BY <1>1, <1>2

LEMMA RefreshInv ==
  ASSUME SessionInv, RefreshSucceeds \/ RefreshFails
  PROVE  SessionInv'
<1>0. /\ now \in 0..MaxNow /\ out \in BOOLEAN /\ signIns \in Nat
      /\ logouts \subseteq 1..MaxSignIns /\ revoked \subseteq 1..MaxSignIns
      /\ admin \in 0..MaxSignIns
  BY DEF SessionInv, TypeOK
<1>1. /\ promise' = FALSE
      /\ UNCHANGED <<now, admin, signIns, logouts, out, generation, revoked, lost>>
  BY DEF RefreshSucceeds, RefreshFails
<1>2. PICK f \in refreshes :
        /\ refreshes' = refreshes \ {f}
        /\ \/ /\ Save(Session(f.by, f.gen, f.expires, TRUE))
              /\ calls' = Woken(f.by)
           \/ Clear /\ calls' = Rejected
  BY DEF RefreshSucceeds, RefreshFails
<1>3. refreshes' = {}
  BY <1>2 DEF SessionInv, SharedInv
<1>4. /\ f.by \in 1..MaxSignIns /\ f.gen \in Nat /\ f.expires \in Nat
      /\ f.by \in 0..MaxSignIns
  BY DEF SessionInv, TypeOK
<1>5. CASE Clear /\ calls' = Rejected
  BY <1>0, <1>1, <1>2, <1>3, <1>4, <1>5, WokenFacts, SessionCleared
<1>6. CASE Save(Session(f.by, f.gen, f.expires, TRUE)) /\ calls' = Woken(f.by)
  <2>1. /\ auth' \in Sessions /\ auth' # None /\ auth'.by = f.by /\ auth'.gen = f.gen
        /\ store' = auth'
    BY <1>4, <1>6, SessionIsNew DEF Save
  <2>2. TypeOK'
    BY <1>1, <1>3, <1>4, <1>6, <2>1, WokenFacts DEF SessionInv, TypeOK, Calls
  <2>3. SharedInv'
    BY <1>1, <1>3, <1>4, <1>6, WokenFacts DEF SharedInv
  <2>4. KnownInv'
    BY <1>1, <1>3, <2>1 DEF SessionInv, KnownInv
  <2>5. GoodInv'
    BY <1>1, <1>3, <2>1 DEF SessionInv, GoodInv, Good
  <2> QED
    BY <2>2, <2>3, <2>4, <2>5 DEF SessionInv
<1> QED
  BY <1>2, <1>5, <1>6

LEMMA ReloadInv ==
  ASSUME SessionInv, Reload
  PROVE  SessionInv'
<1>1. /\ auth' = auth /\ store' = auth /\ admin' = 0 /\ promise' = FALSE
      /\ signIns' = 0 /\ logouts' = {} /\ refreshes' = {}
      /\ calls' = [r \in Requests |-> Idle]
      /\ lost' = lost \cup {f.by : f \in refreshes}
      /\ UNCHANGED <<now, out, generation, revoked>>
  BY DEF Reload, SessionInv, KnownInv
<1>2. TypeOK'
  <2>1. calls' \in [Requests -> Calls]
    BY <1>1, IdleFacts
  <2>2. {promise', out'} \subseteq BOOLEAN
    BY <1>1 DEF SessionInv, TypeOK
  <2>3. admin' \in 0..MaxSignIns
    BY <1>1, SessionAssumption
  <2>4. lost' \subseteq 1..MaxSignIns
    BY <1>1 DEF SessionInv, TypeOK
  <2>5. /\ now \in 0..MaxNow /\ auth \in Sessions \cup {None}
        /\ generation \in Seq(Nat) /\ revoked \subseteq 1..MaxSignIns
    BY DEF SessionInv, TypeOK
  <2> QED
    BY <1>1, <2>1, <2>2, <2>3, <2>4, <2>5 DEF TypeOK, Calls
<1>3. SharedInv'
  BY <1>1, IdleFacts DEF SharedInv
<1>4. KnownInv'
  <2>1. Len(generation) \in Nat /\ signIns \in Nat
    BY DEF SessionInv, TypeOK
  <2> QED
    BY <1>1, <2>1, SessionAssumption DEF SessionInv, KnownInv
<1>5. GoodInv'
  BY <1>1 DEF SessionInv, GoodInv, Good
<1> QED
  BY <1>2, <1>3, <1>4, <1>5 DEF SessionInv

LEMMA OtherInv ==
  ASSUME SessionInv, Tick \/ SignIn \/ SignOut \/ ServiceEndsSession
  PROVE  SessionInv'
<1>0. /\ now \in 0..MaxNow /\ out \in BOOLEAN /\ signIns \in Nat
      /\ logouts \subseteq 1..MaxSignIns /\ revoked \subseteq 1..MaxSignIns
      /\ signIns + Len(generation) <= MaxSignIns /\ admin \in 0..MaxSignIns
      /\ calls \in [Requests -> Calls] /\ Len(generation) \in Nat
      /\ \A q \in Requests : calls[q].at = "token" => promise
      /\ MaxNow \in Nat /\ MaxSignIns \in Nat
  BY SessionAssumption DEF SessionInv, TypeOK, KnownInv, SharedInv, Calls
<1>1. CASE Tick
  <2>1. now' \in 0..MaxNow
    BY <1>0, <1>1 DEF Tick
  <2> QED
    BY <1>0, <1>1, <2>1, Aside DEF Tick, tab
<1>2. CASE SignIn
  <2>1. signIns' \in Nat /\ signIns' + Len(generation) <= MaxSignIns
    BY <1>0, <1>2 DEF SignIn
  <2> QED
    BY <1>0, <1>2, <2>1, Aside DEF SignIn
<1>3. CASE SignOut
  <2>1. logouts' \subseteq 1..MaxSignIns
    BY <1>0, <1>3, SessionFacts DEF SignOut, SessionInv
  <2> QED
    BY <1>0, <1>3, <2>1, Aside DEF SignOut
<1>4. CASE ServiceEndsSession
  <2>1. revoked' \subseteq 1..MaxSignIns
    BY <1>0, <1>4 DEF ServiceEndsSession
  <2> QED
    BY <1>0, <1>4, <2>1, Aside DEF ServiceEndsSession, tab
<1> QED
  BY <1>1, <1>2, <1>3, <1>4

LEMMA SignOutInv ==
  ASSUME SessionInv, SignOutEnds
  PROVE  SessionInv'
<1>1. /\ Clear /\ admin' = 0 /\ out' = TRUE /\ logouts' \subseteq logouts
      /\ UNCHANGED <<now, promise, signIns, refreshes, calls, generation, revoked, lost>>
  BY DEF SignOutEnds
<1>2. admin' \in 0..MaxSignIns
  BY <1>1, SessionAssumption
<1>3. /\ calls \in [Requests -> Calls] /\ promise \in BOOLEAN
      /\ promise <=> refreshes # {}
      /\ \A r \in Requests : calls[r].at = "token" => promise
  BY DEF SessionInv, TypeOK, SharedInv, Calls
<1> QED
  BY <1>1, <1>2, <1>3, SessionCleared

-----------------------------------------------------------------------------
(* Sessions: the theorems. *)

LEMMA SessionBegins == Init => SessionInv
<1> SUFFICES ASSUME Init PROVE SessionInv
  OBVIOUS
<1>1. TypeOK
  <2>1. calls \in [Requests -> Calls]
    BY IdleFacts DEF Init
  <2>2. {promise, out} \subseteq BOOLEAN
    BY DEF Init
  <2>3. generation \in Seq(Nat)
    BY DEF Init
  <2>4. now \in 0..MaxNow /\ admin \in 0..MaxSignIns
    BY SessionAssumption DEF Init
  <2> QED
    BY <2>1, <2>2, <2>3, <2>4 DEF Init, TypeOK, Calls
<1>2. SharedInv
  BY IdleFacts DEF Init, SharedInv
<1>3. KnownInv /\ GoodInv
  BY SessionAssumption DEF Init, KnownInv, GoodInv, Good
<1> QED
  BY <1>1, <1>2, <1>3 DEF SessionInv

LEMMA SessionStep == SessionInv /\ [Next]_vars => SessionInv'
<1> SUFFICES ASSUME SessionInv, [Next]_vars PROVE SessionInv'
  OBVIOUS
<1>1. CASE UNCHANGED vars
  BY <1>1 DEF vars, tab, SessionInv, TypeOK, SharedInv, KnownInv, GoodInv, Good
<1> QED
  BY <1>1, LoadInv, AnswerInv, SignInInv, ServiceInv, RefreshInv, ReloadInv,
     OtherInv, SignOutInv DEF Next, Answers

\* The inductive invariant of the tab and the service.
THEOREM SessionInvariance == Spec => []SessionInv
BY SessionBegins, SessionStep, PTL DEF Spec

\* Every step of the tab and of the service keeps the types.
THEOREM SessionTypeCorrect == Spec => []TypeOK
<1>1. SessionInv => TypeOK
  BY DEF SessionInv
<1> QED
  BY <1>1, SessionInvariance, PTL

LEMMA RefreshesAreGood == SessionInv => OneGoodRefresh
<1> SUFFICES ASSUME SessionInv PROVE OneGoodRefresh
  OBVIOUS
<1>1. Cardinality(refreshes) <= 1
  <2>1. CASE refreshes = {}
    BY <2>1, FS_EmptySet
  <2>2. CASE refreshes # {}
    <3>1. PICK f \in refreshes : TRUE
      BY <2>2
    <3>2. refreshes = {f}
      BY <3>1 DEF SessionInv, SharedInv
    <3> QED
      BY <3>2, FS_Singleton
  <2> QED
    BY <2>1, <2>2
<1>2. (\E r \in Requests : calls[r].at = "token") => refreshes # {}
  BY DEF SessionInv, SharedInv
<1>3. RefreshTokenIsUnspent
  BY DEF SessionInv, GoodInv, RefreshTokenIsUnspent
<1> QED
  BY <1>1, <1>2, <1>3 DEF OneGoodRefresh, RefreshIsShared

\* However requests, sign-ins, sign-outs and answers interleave: there is one
\* refresh at a time, whoever waits for one waits for one that is under way, and no
\* refresh token is offered twice unless a reload cut off the answer to it.
THEOREM GoodRefresh == Spec => []OneGoodRefresh
BY RefreshesAreGood, SessionInvariance, PTL

-----------------------------------------------------------------------------
(* The workspace. *)

WorkspaceInv ==
  /\ part \in Parts
  /\ part = "rules" => plan = NoPlan
  /\ DeletionInv /\ ImportsInv /\ StatementInv /\ SessionInv

LEMMA WorkspaceBegins == WorkspaceInit => WorkspaceInv
BY DeletionBegins, ImportsBegin, StatementBegins, SessionBegins
   DEF WorkspaceInit, WorkspaceInv, DeletionInit

\* A batch of the rules leaves rows that a deletion can start from.
LEMMA BatchesKeepDeletions ==
  ASSUME DeletionInv, plan = NoPlan, CompanyNext, UNCHANGED plan
  PROVE  DeletionInv'
<1>1. ASSUME NEW d \in InitialDocs, CreateCompany(d) PROVE DeletionInv'
  <2>1. doc' = d /\ DocValid(d) /\ d \in Docs /\ IsFiniteSet(Rows(d))
    BY <1>1, InitialDocsAssumption, RowsAssumption DEF CreateCompany
  <2> QED
    BY <2>1 DEF DeletionInv, CompanyValid
<1>2. ASSUME NEW operations \in Batches, CommitBatch(operations)
      PROVE  DeletionInv'
  <2>1. CompanyValid' /\ (doc' # Absent => IsFiniteSet(Rows(doc')))
    BY <1>2, BatchesAssumption, CommitKeepsRows DEF DeletionInv
  <2> QED
    BY <2>1 DEF DeletionInv
<1> QED
  BY <1>1, <1>2 DEF CompanyNext

LEMMA WorkspaceStep ==
  ASSUME WorkspaceInv, [WorkspaceNext]_WorkspaceVars
  PROVE  WorkspaceInv'
<1>1. /\ part \in Parts /\ part' = part
      /\ DeletionInv /\ ImportsInv /\ StatementInv /\ SessionInv
  BY DEF WorkspaceInv, WorkspaceNext, WorkspaceVars
<1>2. UNCHANGED deletionVars => DeletionInv'
  BY <1>1, DeletionStep
<1>3. UNCHANGED importVars => ImportsInv'
  BY <1>1, ImportsStep
<1>4. UNCHANGED statementVars => StatementInv'
  BY <1>1, StatementStep
<1>5. UNCHANGED vars => SessionInv'
  BY <1>1, SessionStep
<1>6. UNCHANGED deletionVars => plan' = plan
  BY DEF deletionVars
<1>7. CASE /\ part = "rules" /\ CompanyNext
           /\ UNCHANGED <<plan, importVars, statementVars, vars>>
  <2>1. plan = NoPlan /\ plan' = NoPlan
    BY <1>7 DEF WorkspaceInv
  <2>2. DeletionInv'
    BY <1>1, <1>7, <2>1, BatchesKeepDeletions
  <2> QED
    BY <1>1, <1>3, <1>4, <1>5, <1>7, <2>1, <2>2 DEF WorkspaceInv
<1>8. CASE /\ part = "deletions" /\ DeletionNext
           /\ UNCHANGED <<importVars, statementVars, vars>>
  <2>1. DeletionInv'
    BY <1>1, <1>8, DeletionStep
  <2> QED
    BY <1>1, <1>3, <1>4, <1>5, <1>8, <2>1 DEF WorkspaceInv
<1>9. CASE /\ part = "imports" /\ ImportsNext
           /\ UNCHANGED <<deletionVars, statementVars, vars>>
  <2>1. ImportsInv'
    BY <1>1, <1>9, ImportsStep
  <2> QED
    BY <1>1, <1>2, <1>4, <1>5, <1>6, <1>9, <2>1 DEF WorkspaceInv
<1>10. CASE /\ part = "statements" /\ StatementNext
            /\ UNCHANGED <<deletionVars, importVars, vars>>
  <2>1. StatementInv'
    BY <1>1, <1>10, StatementStep
  <2> QED
    BY <1>1, <1>2, <1>3, <1>5, <1>6, <1>10, <2>1 DEF WorkspaceInv
<1>11. CASE /\ part = "session" /\ Next
            /\ UNCHANGED <<deletionVars, importVars, statementVars>>
  <2>1. SessionInv'
    BY <1>1, <1>11, SessionStep
  <2> QED
    BY <1>1, <1>2, <1>3, <1>4, <1>6, <1>11, <2>1 DEF WorkspaceInv
<1>12. CASE UNCHANGED WorkspaceVars
  BY <1>1, <1>2, <1>3, <1>4, <1>5, <1>6, <1>12 DEF WorkspaceVars, WorkspaceInv
<1> QED
  BY <1>7, <1>8, <1>9, <1>10, <1>11, <1>12 DEF WorkspaceNext

\* Every part keeps its own invariant while the others wait, and the rules the
\* one of the deletions, whose rows they are.
THEOREM WorkspaceInvariance == WorkspaceSpec => []WorkspaceInv
BY WorkspaceBegins, WorkspaceStep, PTL DEF WorkspaceSpec

\* The books, the statement and the session hold what their types say.
THEOREM WorkspaceTypeCorrect == WorkspaceSpec => []WorkspaceTypeOK
<1>1. WorkspaceInv => WorkspaceTypeOK
  BY DEF WorkspaceInv, WorkspaceTypeOK, ImportsInv, StatementInv, SessionInv
<1> QED
  BY <1>1, WorkspaceInvariance, PTL

\* What is promised of each part holds with the others at its side: batches and
\* deletions of rows, imports undone, a refresh shared.
THEOREM WorkspaceSafe ==
  WorkspaceSpec => [](/\ BatchIsItsLoop /\ LiveRowsStand /\ PlansAreExact
                      /\ ImportsAreUndone /\ OneGoodRefresh)
<1>1. WorkspaceInv => /\ BatchIsItsLoop /\ LiveRowsStand /\ PlansAreExact
                      /\ ImportsAreUndone /\ OneGoodRefresh
  BY BatchesAreTheirLoops, ValidRowsStand, PlansOfTheRowsAreExact,
     ValidBooksAreUndone, RefreshesAreGood DEF WorkspaceInv, DeletionInv
<1> QED
  BY <1>1, WorkspaceInvariance, PTL

\* And what is promised of a step: a preview warns of what its import loses, and
\* an import of the statement keeps the header nobody edited.
THEOREM WorkspaceSteps == WorkspaceSpec => PreviewWarns /\ HeaderIsKept
<1>1. ASSUME WorkspaceInv, WorkspaceInv', [WorkspaceNext]_WorkspaceVars
      PROVE  /\ [WarningsAreTrue]_importVars
             /\ [SourceNamesItsPeriod' /\ UneditedHeaderIsKept]_statementVars
  <2>1. [ImportsNext]_importVars /\ [StatementNext]_statementVars
    BY <1>1 DEF WorkspaceNext, WorkspaceVars
  <2> QED
    BY <1>1, <2>1, ImportsLoseWhatWasWarned, HeadersStay DEF WorkspaceInv
<1> QED
  BY <1>1, WorkspaceInvariance, PTL DEF WorkspaceSpec, PreviewWarns, HeaderIsKept
=============================================================================
