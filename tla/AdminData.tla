------------------------------ MODULE AdminData ------------------------------
(***************************************************************************)
(* The entities of one housing company's admin snapshot, the references    *)
(* between them, and the rules a snapshot must satisfy before it may be    *)
(* stored (src/admin/adminDataValidation.ts, src/events/projectEvents.ts). *)
(*                                                                         *)
(* A snapshot's fourteen collections are one function `doc` from entity    *)
(* references <<type, key>> to values, Absent where there is no row: two   *)
(* rows with one key, which the code rejects, cannot be written down.  Of  *)
(* a value only the fields that a rule reads across entities are kept; the *)
(* six types that refer to nothing share the value set of Plain.           *)
(***************************************************************************)
EXTENDS Naturals

CONSTANTS
  Company,          \* the company's id, the key of its housing_company row
  ForeignCompany,   \* another id, which a request may name by mistake
  Assets, Observations, Evidence, Events, Accounts, Years,
  PlainRefs,        \* references <<type, key>> to rows that refer to nothing
  Notes,            \* what a row may say that no rule reads
  Absent            \* no row, or a reference field left out

\* Ids are not the mark of a field left out, one company is not the other.
ASSUME AbsentAssumption == Absent \notin Assets \cup Events
ASSUME ForeignAssumption == ForeignCompany # Company

CompanyRef == <<"housing_company", Company>>

Asset(a) == <<"asset", a>>
Observation(o) == <<"observation", o>>
CostEvidence(c) == <<"cost_evidence", c>>
PriceLevelConfirmation(c) == <<"price_level_confirmation", c>>
BuildingEvent(e) == <<"building_event", e>>
FinancialAccount(k) == <<"financial_account", k>>
FinancialEntry(k, y) == <<"financial_entry", <<k, y>>>>

\* The types of row that name another row, are named by one, or have rules.
LinkedTypes ==
  {"housing_company", "asset", "observation", "cost_evidence",
   "price_level_confirmation", "building_event", "financial_account",
   "financial_entry"}

ASSUME PlainAssumption == \A ref \in PlainRefs : ref[1] \notin LinkedTypes

Refs ==
  {CompanyRef} \cup PlainRefs
    \cup {Asset(a) : a \in Assets}
    \cup {Observation(o) : o \in Observations}
    \cup {CostEvidence(c) : c \in Evidence}
    \cup {PriceLevelConfirmation(c) : c \in Evidence}
    \cup {BuildingEvent(e) : e \in Events}
    \cup {FinancialAccount(k) : k \in Accounts}
    \cup {FinancialEntry(k, y) : k \in Accounts, y \in Years}

-----------------------------------------------------------------------------
(* What a row of each type says. *)

EventStatuses == {"suggested", "approved", "actual", "cancelled"}

\* "quote" stands for quote, estimate and estimate_from_actual.
CostEvidenceStatuses == {"actual", "quote", "data_gap"}

\* A schedule row, or the one row of an actual event: the evidence it cites
\* and whether it carries an amount.
ScheduleRow == [evidence : Evidence, priced : BOOLEAN]

AssetValue == [active : BOOLEAN]
ObservationValue == [asset : Assets]
CostEvidenceValue ==
  [asset : Assets \cup {Absent}, event : Events \cup {Absent},
   status : CostEvidenceStatuses, level2026 : BOOLEAN]
EventValue ==
  [status : EventStatuses, asset : Assets,
   observations : SUBSET Observations, rows : SUBSET ScheduleRow]
PlainValue == [note : Notes]

Values ==
  AssetValue \cup ObservationValue \cup CostEvidenceValue \cup EventValue
    \cup PlainValue

ASSUME NoValueAssumption == Absent \notin Values

ValuesOf(type) ==
  CASE type = "asset" -> AssetValue
    [] type = "observation" -> ObservationValue
    [] type = "cost_evidence" -> CostEvidenceValue
    [] type = "building_event" -> EventValue
    [] OTHER -> PlainValue

\* The contents a stored snapshot can have, valid or not.
Docs ==
  {doc \in [Refs -> Values \cup {Absent}] :
     \A ref \in Refs : doc[ref] = Absent \/ doc[ref] \in ValuesOf(ref[1])}

Has(doc, ref) == doc[ref] # Absent

\* The rows that row `ref` names.
References(d, ref) ==
  LET value == d[ref]
      type == ref[1] IN
  IF value = Absent THEN {}
  ELSE IF type = "observation" THEN {Asset(value.asset)}
  ELSE IF type = "cost_evidence"
  THEN {Asset(value.asset), BuildingEvent(value.event)}
         \ {Asset(Absent), BuildingEvent(Absent)}
  ELSE IF type = "price_level_confirmation" THEN {CostEvidence(ref[2])}
  ELSE IF type = "financial_entry" THEN {FinancialAccount(ref[2][1])}
  ELSE IF type = "building_event"
  THEN {Asset(value.asset)}
         \cup {Observation(o) : o \in value.observations}
         \cup {CostEvidence(row.evidence) : row \in value.rows}
  ELSE {}

-----------------------------------------------------------------------------
(* The rules, one per validator. *)

HousingCompanyValid(doc) == Has(doc, CompanyRef)

ObservationsValid(doc) ==
  \A o \in Observations :
    Has(doc, Observation(o)) => Has(doc, Asset(doc[Observation(o)].asset))

CostEvidenceValid(doc) ==
  \A c \in Evidence :
    LET value == doc[CostEvidence(c)] IN
    value # Absent =>
      /\ value.asset # Absent => Has(doc, Asset(value.asset))
      /\ value.event # Absent => Has(doc, BuildingEvent(value.event))

PriceLevelConfirmationsValid(doc) ==
  \A c \in Evidence :
    Has(doc, PriceLevelConfirmation(c)) => Has(doc, CostEvidence(c))

FinancialEntriesValid(doc) ==
  \A k \in Accounts, y \in Years :
    Has(doc, FinancialEntry(k, y)) => Has(doc, FinancialAccount(k))

\* A future event needs a schedule row; an actual event has exactly its own.
EventRuntimeValid(event) ==
  /\ event.status \in {"suggested", "approved"} => event.rows # {}
  /\ event.status = "actual" => \E row \in ScheduleRow : event.rows = {row}

\* A mutant: a cancelled event's observations are not looked at either.
CancelledObservationsSkipped(doc, event) ==
  event.status # "cancelled" =>
    \A o \in event.observations :
      Has(doc, Observation(o)) /\ doc[Observation(o)].asset = event.asset

\* An observation an event cites is there and is about the event's asset,
\* whatever the event's status.
EventObservationsValid(doc, event) ==
  \A o \in event.observations :
    /\ Has(doc, Observation(o))
    /\ doc[Observation(o)].asset = event.asset

EventBaseValid(doc, event) ==
  /\ Has(doc, Asset(event.asset))
  /\ event.status \in {"suggested", "approved"} =>
       doc[Asset(event.asset)].active

\* Evidence tied to an asset or to an event serves no other.
EvidenceOwned(evidence, e, event) ==
  /\ evidence.asset # Absent => evidence.asset = event.asset
  /\ evidence.event # Absent => evidence.event = e

\* A row without an amount is a data gap and says so; a priced row of an
\* actual event is an actual cost; a priced row of a future event is at the
\* price level of 2026 or has been confirmed to be.
RowAmountValid(doc, event, row) ==
  LET evidence == doc[CostEvidence(row.evidence)] IN
  IF ~ row.priced THEN evidence.status = "data_gap"
  ELSE IF event.status = "actual" THEN evidence.status = "actual"
  ELSE /\ evidence.status # "data_gap"
       /\ \/ evidence.level2026
          \/ Has(doc, PriceLevelConfirmation(row.evidence))

\* A mutant: drafts are not validated before they are approved.
DraftEvidenceSkipped(doc, e, event) ==
  event.status \in {"approved", "actual"} =>
    \A row \in event.rows :
      /\ Has(doc, CostEvidence(row.evidence))
      /\ EvidenceOwned(doc[CostEvidence(row.evidence)], e, event)
      /\ RowAmountValid(doc, event, row)

\* projectEvents with every suggested event taken as approved.  The rows of a
\* cancelled event are not looked at.
EventEvidenceValid(doc, e, event) ==
  event.status # "cancelled" =>
    \A row \in event.rows :
      /\ Has(doc, CostEvidence(row.evidence))
      /\ EvidenceOwned(doc[CostEvidence(row.evidence)], e, event)
      /\ RowAmountValid(doc, event, row)

EventsValid(doc) ==
  \A e \in Events :
    LET event == doc[BuildingEvent(e)] IN
    event # Absent =>
      /\ EventRuntimeValid(event)
      /\ EventObservationsValid(doc, event)
      /\ EventBaseValid(doc, event)
      /\ EventEvidenceValid(doc, e, event)

\* validateAdminDataSnapshot, but for the audit trail.
DocValid(doc) ==
  /\ HousingCompanyValid(doc)
  /\ ObservationsValid(doc)
  /\ CostEvidenceValid(doc)
  /\ PriceLevelConfirmationsValid(doc)
  /\ FinancialEntriesValid(doc)
  /\ EventsValid(doc)
=============================================================================
