SPECIFICATION Spec
CONSTANTS
  Company = "company"
  ForeignCompany = "elsewhere"
  a1 = a1
  a2 = a2
  o1 = o1
  c1 = c1
  c2 = c2
  e1 = e1
  k1 = k1
  y1 = y1
  n1 = n1
  n2 = n2
  src = src
  Absent = Absent
  NoRow = NoRow
  Assets <- MCAssets
  Observations <- MCObservations
  Evidence <- MCEvidence
  Events <- MCEvents
  Accounts <- MCAccounts
  Years <- MCYears
  Notes <- MCNotes
  PlainRefs <- MCPlainRefs
  Sources <- MCSources
  Subjects = {s1}
  Requests = {q1, q2, q3}
  Batches <- MCBatches
  ExpectedRevisions <- MCExpected
  InitialDocs <- MCInitialDocs
SYMMETRY Symmetry
INVARIANTS
  TypeOK
  StoredSnapshotValid
  CommitsAreRevisions
  TrailIsTheHistory
  ClientsLearnTheTruth
PROPERTIES
  ImplementsLog
CHECK_DEADLOCK FALSE
