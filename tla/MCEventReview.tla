---------------------------- MODULE MCEventReview -----------------------------
(***************************************************************************)
(* Two events; proposals that add, update and cancel, some of them bound   *)
(* to be refused; edits to a past and a later version.                     *)
(***************************************************************************)
EXTENDS EventReview, TLC

CONSTANTS e1, e2, t1, t2, s1, s2

MCHash(e, v) == <<e, v>>

Version(status, text, sources) ==
  [status |-> status, text |-> text, sources |-> sources]
Old == Version("approved", t1, {s1})
Sourced == Version("approved", t1, {s1, s2})

Change(type, target, proposed, sources) ==
  [changeType |-> type, target |-> target, proposed |-> proposed,
   sources |-> sources]
New(e, status, text, sources) ==
  [id |-> e, event |-> Version(status, text, sources)]

Updates ==
  {Change("update", e1, New(e1, "suggested", t1, {s1}), {s1}),
   Change("update", e1, New(e1, "suggested", t2, {s1}), {s1}),
   Change("update", e1, New(e1, "suggested", t2, {s1}), {s2})}

MCCandidates ==
  Updates \cup
  {Change("update", e1, New(e1, "approved", t2, {s1}), {s1}),
   Change("update", e1, New(e2, "suggested", t2, {s1}), {s1}),
   Change("add", Absent, New(e1, "suggested", t1, {s1}), {s1}),
   Change("add", Absent, New(e2, "suggested", t2, {s1, s2}), {s2}),
   Change("add", Absent, New(e2, "suggested", t2, {s1}), {}),
   Change("add", Absent, New(e2, "suggested", t2, {s1}), {s2}),
   Change("cancel", e1, Absent, {s1}),
   Change("cancel", e2, Absent, {s2})}

\* Candidates that come as JSON, with a type of their own.
MCUntyped == {Change("replace", c.target, c.proposed, c.sources) : c \in Updates}

MCEdits == {Old, Sourced, Version("actual", t1, {s1})}
MCInitial == {[e \in {e1, e2} |-> IF e = e1 THEN v ELSE Absent] : v \in {Old, Absent}}

Symmetry == Permutations(ProposalIds)
=============================================================================
