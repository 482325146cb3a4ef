---------------------------- MODULE EntityDeletion ---------------------------
(***************************************************************************)
(* Deleting a row from the workspace: the browser works out what must go   *)
(* with the row and what must be rewritten (planEntityDeletion), shows it  *)
(* for confirmation, and sends it all as one batch.  The browser's plan    *)
(* and the server's validation are two readings of one reference graph.    *)
(*                                                                         *)
(* Nothing else is saved while the confirmation is open: AdminBrowser has  *)
(* the tabs that others overtake, whatever it is they have open.           *)
(***************************************************************************)
EXTENDS AdminWorkspace, SequencesExt

CONSTANTS
  Furnished,        \* contents to delete from
  Edits,            \* the batches saved between deletions
  Offered           \* the types of row that have a delete button

ASSUME FurnishedAssumption == Furnished \subseteq Docs
ASSUME EditsAssumption == Edits \subseteq Seq(Operation)
ASSUME SourcesAssumption == Sources # {}

\* The company stays, and a confirmation goes with its evidence only.
ASSUME OfferedAssumption ==
  Offered \cap {"housing_company", "price_level_confirmation"} = {}

VARIABLE plan       \* the open confirmation, or NoPlan

deletionVars == <<doc, plan>>

Source == CHOOSE s \in Sources : TRUE

Rows(d) == {ref \in Refs : Has(d, ref)}

\* What a company starts with are arrays of rows.
ASSUME RowsAssumption ==
  \A d \in InitialDocs \cup Furnished : IsFiniteSet(Rows(d))

-----------------------------------------------------------------------------
(* The plan. *)

EventCitesEvidence(event, c) == \E row \in event.rows : row.evidence = c

OfType(d, type) == {ref \in Rows(d) : ref[1] = type}

\* A mutant: the confirmation of a price level is left behind.
CascadeKeepingConfirmations(d, ref) ==
  CASE ref[1] = "asset" ->
         {r \in OfType(d, "observation") \cup OfType(d, "building_event")
                  \cup OfType(d, "cost_evidence") : d[r].asset = ref[2]}
    [] ref[1] = "cost_evidence" ->
         {r \in OfType(d, "building_event") : EventCitesEvidence(d[r], ref[2])}
    [] ref[1] = "financial_account" ->
         {r \in OfType(d, "financial_entry") : r[2][1] = ref[2]}
    [] OTHER -> {}

\* A mutant: cancelled events, which the server does not check, are kept.
CascadeKeepingCancelled(d, ref) ==
  CASE ref[1] = "asset" ->
         {r \in OfType(d, "observation") \cup OfType(d, "building_event")
                  \cup OfType(d, "cost_evidence") : d[r].asset = ref[2]}
    [] ref[1] = "cost_evidence" ->
         {r \in OfType(d, "building_event") :
            d[r].status # "cancelled" /\ EventCitesEvidence(d[r], ref[2])}
           \cup {r \in OfType(d, "price_level_confirmation") : r[2] = ref[2]}
    [] ref[1] = "financial_account" ->
         {r \in OfType(d, "financial_entry") : r[2][1] = ref[2]}
    [] OTHER -> {}

\* A mutant: evidence goes with the event it was collected for.
CascadeFromEvents(d, ref) ==
  CASE ref[1] = "asset" ->
         {r \in OfType(d, "observation") \cup OfType(d, "building_event")
                  \cup OfType(d, "cost_evidence") : d[r].asset = ref[2]}
    [] ref[1] = "building_event" ->
         {r \in OfType(d, "cost_evidence") : d[r].event = ref[2]}
    [] ref[1] = "cost_evidence" ->
         {r \in OfType(d, "building_event") : EventCitesEvidence(d[r], ref[2])}
           \cup {r \in OfType(d, "price_level_confirmation") : r[2] = ref[2]}
    [] ref[1] = "financial_account" ->
         {r \in OfType(d, "financial_entry") : r[2][1] = ref[2]}
    [] OTHER -> {}

\* The rows that the loop puts in its queue on taking `ref` out of it.
Cascade(d, ref) ==
  CASE ref[1] = "asset" ->
         {r \in OfType(d, "observation") \cup OfType(d, "building_event")
                  \cup OfType(d, "cost_evidence") : d[r].asset = ref[2]}
    [] ref[1] = "cost_evidence" ->
         {r \in OfType(d, "building_event") : EventCitesEvidence(d[r], ref[2])}
           \cup {r \in OfType(d, "price_level_confirmation") : r[2] = ref[2]}
    [] ref[1] = "financial_account" ->
         {r \in OfType(d, "financial_entry") : r[2][1] = ref[2]}
    [] OTHER -> {}

\* The loop visits every row it queues once: `deletes` at its end is what the
\* target reaches, in no more steps than there are rows.
Deletes(d, target) ==
  LET reached[n \in 0 .. Cardinality(Rows(d))] ==
        IF n = 0 THEN {target}
        ELSE reached[n - 1]
               \cup UNION {Cascade(d, ref) : ref \in reached[n - 1]}
  IN reached[Cardinality(Rows(d))]

\* A surviving event without the observations that go, surviving evidence
\* without the event that goes.
Cleared(d, gone, ref) ==
  CASE ref[1] = "building_event" ->
         [d[ref] EXCEPT !.observations = {o \in @ : Observation(o) \notin gone}]
    [] ref[1] = "cost_evidence" ->
         [d[ref] EXCEPT !.event = IF BuildingEvent(@) \in gone THEN Absent ELSE @]
    [] OTHER -> d[ref]

Updates(d, gone) == {ref \in Rows(d) \ gone : Cleared(d, gone, ref) # d[ref]}

\* buildDeletionOperations: the updates first.  Each operation has the target
\* as its source.
DeletionOperations(d, target) ==
  LET gone == Deletes(d, target)
      save(ref) == [kind |-> "save", ref |-> ref,
                    value |-> Cleared(d, gone, ref), sources |-> {Source}]
      delete(ref) == [kind |-> "delete", ref |-> ref,
                      value |-> Absent, sources |-> {Source}]
  IN SetToSeq({save(ref) : ref \in Updates(d, gone)})
       \o SetToSeq({delete(ref) : ref \in gone})

-----------------------------------------------------------------------------
(* The tab. *)

NoPlan == [target |-> Absent, operations |-> <<>>]

DeletionInit == CompanyInit /\ plan = NoPlan

\* Another form is saved, this tab's or somebody else's.
SaveMeanwhile(operations) ==
  /\ plan = NoPlan
  /\ CommitBatch(operations)
  /\ UNCHANGED plan

OpenDeleteConfirmation(target) ==
  /\ doc # Absent
  /\ plan = NoPlan
  /\ target \in Rows(doc)
  /\ target[1] \in Offered
  /\ plan' = [target |-> target,
               operations |-> DeletionOperations(doc, target)]
  /\ UNCHANGED doc

CancelDeletion ==
  /\ plan # NoPlan
  /\ plan' = NoPlan
  /\ UNCHANGED doc

\* submitDeletion.  A batch that is refused leaves the confirmation open.
SubmitDeletion ==
  /\ plan # NoPlan
  /\ CommitBatch(plan.operations)
  /\ plan' = NoPlan

DeletionNext ==
  \/ \E d \in Furnished : CreateCompany(d) /\ UNCHANGED plan
  \/ \E operations \in Edits : SaveMeanwhile(operations)
  \/ \E target \in Refs : OpenDeleteConfirmation(target)
  \/ CancelDeletion
  \/ SubmitDeletion

DeletionSpec == DeletionInit /\ [][DeletionNext]_deletionVars

-----------------------------------------------------------------------------
(* Properties. *)

Removed(operations) ==
  {operations[i].ref : i \in {i \in DOMAIN operations :
                                operations[i].kind = "delete"}}

\* No row of d, a cancelled event included, names a row in `gone`.
NothingNames(d, gone) == \A ref \in Refs : References(d, ref) \cap gone = {}

\* "A missed edge fails the batch rather than corrupting the snapshot" - and
\* none is missed: what the browser plans from the rows as they are, the
\* server accepts.  There is no row a user can see but never delete.
PlansAreSaved ==
  plan # NoPlan => Accepts(Stored(doc), Ask(plan.operations))

\* Such a deletion leaves no row that names a row it deleted: not even the
\* cancelled events, whose evidence the server does not look at.
PlansLeaveNothingDangling ==
  plan # NoPlan =>
    NothingNames(NextDoc(doc, plan.operations), Removed(plan.operations))

\* The least harm: a row goes with the target only if it could not have been
\* kept with its optional references cleared, and a row is rewritten only if
\* it could not have been kept as it is.  (Otherwise the server would refuse
\* the batch, or a row be left that names a deleted one.)
NothingGoesWithoutNeed ==
  plan # NoPlan =>
    \A i \in DOMAIN plan.operations :
      LET op == plan.operations[i]
          kept == IF op.kind = "save" THEN doc[op.ref]
                  ELSE Cleared(doc, Removed(plan.operations) \ {op.ref}, op.ref)
          gentler == [plan.operations EXCEPT
                        ![i].kind = "save", ![i].value = kept] IN
      \/ op.ref = plan.target
      \/ ~ Accepts(Stored(doc), Ask(gentler))
      \/ ~ NothingNames(NextDoc(doc, gentler), Removed(gentler))

\* The plan of a deletion is what has to go and nothing else.
PlansAreExact ==
  /\ PlansAreSaved
  /\ PlansLeaveNothingDangling
  /\ NothingGoesWithoutNeed

\* The invariant of the proofs: the rows are finitely many and break no rule,
\* and the plan is of the rows as they are, of one that has a delete button.
DeletionInv ==
  /\ CompanyValid
  /\ doc # Absent => IsFiniteSet(Rows(doc))
  /\ plan # NoPlan =>
       /\ doc # Absent
       /\ \E target \in Rows(doc) :
            /\ target[1] \in Offered
            /\ plan = [target |-> target,
                       operations |-> DeletionOperations(doc, target)]
=============================================================================
