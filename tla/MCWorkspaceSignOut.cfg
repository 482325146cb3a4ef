SPECIFICATION WorkspaceSpec
CONSTANTS
  Company = "company"
  ForeignCompany = "elsewhere"
  a1 = a1
  a2 = a2
  o1 = o1
  c1 = c1
  c2 = c2
  e1 = e1
  e2 = e2
  k1 = k1
  y1 = y1
  y2 = y2
  n1 = n1
  n2 = n2
  src = src
  Absent = Absent
  NoStatement = NoStatement
  Bad = Bad
  Misprints = {Bad}
  Assets <- MCAssets
  Observations <- MCObservations
  Evidence <- MCEvidence
  Events = {e1, e2}
  Accounts <- MCAccounts
  Years = {y1, y2}
  Notes <- MCNotes
  PlainRefs <- MCMoreRows
  Sources <- MCSources
  Subjects = {s1}
  Batches <- MCBatches
  ExpectedRevisions <- MCExpected
  InitialDocs <- MCInitialDocs
  Furnished <- MCFurnished
  Edits <- MCDeletionBatches
  Offered = {"asset", "observation", "cost_evidence", "building_event", "financial_entry", "financial_account", "group_budget"}
  Groups = {"g1", "g2"}
  Sheets = {"b1"}
  Items = {"i1", "i2"}
  Amounts = {1}
  SourceSets = {{"s1"}, {"s1", "s2"}}
  Pastes <- MCPastes
  MaxBooksRevision = 3
  StatementRows = {"rows", "flawed"}
  Flawed = {"flawed"}
  Periods = {"2025-2029", "2030-2034"}
  Dates = {"2025-03-01"}
  HandWritten = "own"
  MaxStatementRevision = 4
  MaxSignIns = 2
  MaxNow = 2
  Requests = {r1, r2}
  Lifetime = 2
  Leeway = 1
INVARIANTS
  StaysSignedOut
CHECK_DEADLOCK FALSE
