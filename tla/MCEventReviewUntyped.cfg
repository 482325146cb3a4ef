SPECIFICATION Spec
CONSTANTS
  e1 = e1
  e2 = e2
  t1 = t1
  t2 = t2
  s1 = s1
  s2 = s2
  EventIds = {e1, e2}
  ProposalIds = {p1, p2}
  Texts = {t1, t2}
  Sources = {s1, s2}
  Hash <- MCHash
  Candidates <- MCUntyped
  Initial <- MCInitial
  Edits <- MCEdits
  Absent = Absent
SYMMETRY Symmetry
INVARIANTS
  PendingIsDecidable
CHECK_DEADLOCK FALSE
