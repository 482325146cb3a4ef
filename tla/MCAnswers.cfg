SPECIFICATION AnswersSpec
CONSTANTS
  Company = "company"
  ForeignCompany = "elsewhere"
  a1 = a1
  a2 = a2
  o1 = o1
  c1 = c1
  c2 = c2
  e1 = e1
  k1 = k1
  y1 = y1
  n1 = n1
  n2 = n2
  src = src
  Absent = Absent
  NoRow = NoRow
  Assets <- MCAssets
  Observations <- MCObservations
  Evidence <- MCEvidence
  Events <- MCEvents
  Accounts <- MCAccounts
  Years <- MCYears
  Notes <- MCNotes
  PlainRefs <- MCPlainRefs
  Sources <- MCSources
  Subjects = {s1, s2}
  Requests = {q1, q2}
  Batches <- MCBatches
  ExpectedRevisions <- MCExpected
  InitialDocs <- MCInitialDocs
  p1 = p1
  p2 = p2
  kid1 = kid1
  kid2 = kid2
  Nothing = Nothing
  r1 = r1
  r2 = r2
  Nobody = Nobody
  conn1 = conn1
  conn2 = conn2
  alice = alice
  acme = acme
PROPERTIES
  EveryRequestEnds
  EveryCallEnds
  EveryRunEnds
  NobodyIsCutOff
CHECK_DEADLOCK FALSE
