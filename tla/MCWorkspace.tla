----------------------------- MODULE MCWorkspace -----------------------------
(***************************************************************************)
(* The administrator's workspace, five parts of it side by side:           *)
(*                                                                         *)
(*   rules       every kind of row and every rule that ties two together,  *)
(*               built up from an empty company by batches of one to three *)
(*               operations;                                               *)
(*   deletions   two assets, two events and two pieces of evidence, so     *)
(*               that a deletion can run from an asset over its evidence   *)
(*               to an event on the other asset and to the evidence that   *)
(*               names that event;                                         *)
(*   imports     one account over two years, one group, one balance sheet  *)
(*               of two items; imports with one source and with two;       *)
(*   statements  two periods, one date, one good and one flawed text;      *)
(*   session     two sign-ins, two open requests and a clock on which a    *)
(*               token that lives two units is renewed in its last one.    *)
(***************************************************************************)
EXTENDS Workspace, MCAdmin

CONSTANTS e2, y2, Bad

MCInitialDocs == {EmptyCompany}
MCMoreRows == {<<"group_budget", "g1">>}

-----------------------------------------------------------------------------
(* Rules. *)

Evidence1 ==
  {[asset |-> a, event |-> Absent, status |-> "quote", level2026 |-> l] :
     a \in {Absent, a1}, l \in BOOLEAN}
    \cup {[asset |-> Absent, event |-> e, status |-> s, level2026 |-> TRUE] :
            e \in {Absent, e1}, s \in {"actual", "data_gap"}}

Drafts ==
  {Event(status, a1, os, rows) :
     status \in {"suggested", "approved", "cancelled"},
     os \in {{}, {o1}}, rows \in {Cites(c1), {[evidence |-> c1, priced |-> FALSE]}}}

Actuals == {Event("actual", a1, {}, {[evidence |-> c1, priced |-> p]}) : p \in BOOLEAN}

EmptyEvents == {Event(s, a1, {}, {}) : s \in {"suggested", "cancelled", "actual"}}

Saves ==
  {Put(Asset(a1), [active |-> b]) : b \in BOOLEAN}
    \cup {Put(Asset(a2), [active |-> TRUE])}
    \cup {Put(Observation(o1), [asset |-> a]) : a \in MCAssets}
    \cup {Put(CostEvidence(c1), v) : v \in Evidence1}
    \cup {Put(BuildingEvent(e1), v) : v \in Drafts \cup Actuals \cup EmptyEvents}
    \cup {Put(ref, [note |-> n1]) :
            ref \in {PriceLevelConfirmation(c1), FinancialAccount(k1),
                     FinancialEntry(k1, y1)}}

RowDeletes ==
  {Del(ref) : ref \in {Asset(a1), Asset(a2), Observation(o1), CostEvidence(c1),
                       BuildingEvent(e1), PriceLevelConfirmation(c1),
                       FinancialAccount(k1), FinancialEntry(k1, y1)}}

Mixed ==
  {<<Del(FinancialAccount(k1)), Del(FinancialEntry(k1, y1))>>,
   <<Put(FinancialEntry(k1, y1), [note |-> n1]),
     Put(FinancialAccount(k1), [note |-> n1])>>,
   <<Del(CostEvidence(c1)), Del(PriceLevelConfirmation(c1))>>,
   <<Del(BuildingEvent(e1)), Del(CostEvidence(c1)), Del(Asset(a1))>>,
   <<Del(CostEvidence(c1)),
     Put(BuildingEvent(e1), Event("cancelled", a1, {}, {}))>>,
   <<Put(CostEvidence(c1), [asset |-> Absent, event |-> e1,
                            status |-> "quote", level2026 |-> TRUE]),
     Put(BuildingEvent(e1), Event("approved", a1, {}, Cites(c1)))>>}

Refused ==
  {<<>>,
   <<Del(CompanyRef)>>,
   <<Put(<<"housing_company", ForeignCompany>>, [note |-> n1])>>,
   <<[Del(Asset(a1)) EXCEPT !.sources = {}]>>,
   <<Put(Asset(a1), [active |-> TRUE]), Del(Asset(a1))>>,
   <<Put(BuildingEvent(e1), Event("approved", a1, {}, {})), Del(CompanyRef)>>,
   <<Del(Asset(a1)), Put(Asset(a1), [active |-> TRUE])>>,
   <<Del(Asset(a2)), Del(Asset(a1)), Del(Asset(a2))>>}

MCBatches == {<<op>> : op \in Saves \cup RowDeletes} \cup Mixed \cup Refused
MCExpected == {0}

-----------------------------------------------------------------------------
(* Deletions. *)

Note == [note |-> n1]
PricedBy(cs) == UNION {Cites(c) : c \in cs}

\* Rows of the building, and rows of its finances: neither names the other.
Building ==
  [ref \in Refs |->
     CASE ref = CompanyRef -> Note
       [] ref[1] = "asset" -> [active |-> TRUE]
       [] ref[1] = "observation" -> [asset |-> a1]
       [] ref = CostEvidence(c1) -> [asset |-> a1, event |-> Absent,
                                     status |-> "quote", level2026 |-> FALSE]
       [] ref = CostEvidence(c2) -> [asset |-> Absent, event |-> Absent,
                                     status |-> "actual", level2026 |-> TRUE]
       [] ref = PriceLevelConfirmation(c1) -> Note
       [] OTHER -> Absent]

Finances ==
  [ref \in Refs |->
     CASE ref[1] \in {"housing_company", "financial_account",
                      "financial_entry", "group_budget"} -> Note
       [] OTHER -> Absent]

Events1 ==
  {Event(status, a1, os, PricedBy(cs)) :
     status \in {"suggested", "cancelled"}, os \in {{}, {o1}},
     cs \in {{c1}, {c1, c2}}}
    \cup {Event("actual", a1, {o1}, PricedBy({c2}))}

Events2 ==
  {Event("cancelled", a2, {}, PricedBy({c1})),
   Event("approved", a2, {}, PricedBy({c2})),
   Event("actual", a2, {}, PricedBy({c2}))}

Evidence2 ==
  {[asset |-> a, event |-> e, status |-> "actual", level2026 |-> TRUE] :
     a \in {Absent, a2}, e \in {Absent, e1, e2}}

MCDeletionBatches ==
  {<<Put(BuildingEvent(e1), v)>> : v \in Events1}
    \cup {<<Put(BuildingEvent(e2), v)>> : v \in Events2}
    \cup {<<Put(CostEvidence(c2), v)>> : v \in Evidence2}
    \cup {<<Put(CostEvidence(c1), [asset |-> Absent, event |-> e2,
                                   status |-> "quote", level2026 |-> TRUE])>>}

MCFurnished == {Building, Finances}

-----------------------------------------------------------------------------
(* Imports. *)

Figures(b, a) == [f \in {"budget", "actual"} |-> IF f = "budget" THEN b ELSE a]
Line(y, b, a) ==
  [readable |-> TRUE, account |-> k1, group |-> "g1", year |-> y,
   figures |-> Figures(b, a)]
Finance(lines) == [form |-> "finance", lines |-> lines]
Group(type, amount) ==
  [form |-> type,
   lines |-> <<[readable |-> TRUE, group |-> "g1", year |-> y1, amount |-> amount]>>]
Balance(items) ==
  [form |-> "balance", sheet |-> "b1",
   lines |-> [n \in DOMAIN items |->
                [readable |-> TRUE, item |-> items[n], amount |-> 1]]]

MCPastes ==
  {Finance(<<Line(y1, 1, 1)>>),
   Finance(<<Line(y2, 1, Absent)>>),
   Finance(<<Line(y1, 1, Absent), Line(y2, Absent, 1)>>),
   Finance(<<Line(y1, Absent, Absent)>>),
   Finance(<<Line(y2, Bad, 1)>>),
   Finance(<<Line(y1, 1, 1), Line(y1, Absent, 1)>>),
   Finance(<<Line(y1, 1, 1), [Line(y2, 1, 1) EXCEPT !.group = "g2"]>>),
   Group("group_budget", 1), Group("group_actual", 1), Group("group_actual", Bad),
   Balance(<<"i1">>), Balance(<<"i1", "i2">>), Balance(<<"i2", "i2">>)}
=============================================================================
