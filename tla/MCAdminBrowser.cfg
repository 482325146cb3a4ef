SPECIFICATION TabSpec
CONSTANTS
  Company = "company"
  ForeignCompany = "elsewhere"
  a1 = a1
  a2 = a2
  o1 = o1
  c1 = c1
  c2 = c2
  e1 = e1
  k1 = k1
  y1 = y1
  n1 = n1
  n2 = n2
  src = src
  Absent = Absent
  NoRow = NoRow
  Assets = {a1}
  Observations = {}
  Evidence = {}
  Events = {}
  Accounts = {}
  Years = {}
  Notes <- MCNotes
  PlainRefs = {}
  Sources <- MCSources
  Subjects = {s1, s2}
  Requests = {q1, q2}
  Batches <- MCBatches
  ExpectedRevisions <- MCExpected
  InitialDocs <- MCInitialDocs
SYMMETRY Symmetry
INVARIANTS
  TabsTellTheTruth
CHECK_DEADLOCK FALSE
