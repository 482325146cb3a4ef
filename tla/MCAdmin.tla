------------------------------- MODULE MCAdmin -------------------------------
(***************************************************************************)
(* A small company for the model checker: two assets, one observation, two *)
(* pieces of evidence, one event, one account with one entry and one row   *)
(* that refers to nothing.                                                 *)
(***************************************************************************)
EXTENDS AdminBatch, TLC

CONSTANTS a1, a2, o1, c1, c2, e1, k1, y1, n1, n2, src

MCAssets == {a1, a2}
MCObservations == {o1}
MCEvidence == {c1, c2}
MCEvents == {e1}
MCAccounts == {k1}
MCYears == {y1}
MCNotes == {n1, n2}
MCPlainRefs == {<<"liquidity_baseline", "b1">>}
MCSources == {src}

Put(ref, value) ==
  [kind |-> "save", ref |-> ref, value |-> value, sources |-> {src}]
Del(ref) ==
  [kind |-> "delete", ref |-> ref, value |-> Absent, sources |-> {src}]

Event(status, asset, observations, rows) ==
  [status |-> status, asset |-> asset, observations |-> observations,
   rows |-> rows]
Quote(asset) ==
  [asset |-> asset, event |-> Absent, status |-> "quote", level2026 |-> TRUE]
Cites(c) == {[evidence |-> c, priced |-> TRUE]}

Only(values) ==
  [ref \in Refs |-> IF ref \in DOMAIN values THEN values[ref] ELSE Absent]

EmptyCompany == Only(CompanyRef :> [note |-> n1])
=============================================================================
