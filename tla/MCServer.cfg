SPECIFICATION ServerSpec
CONSTANTS
  Runners = {r1, r2, r3}
  Nobody = Nobody
  snapshots = snapshots
  accessGrants = accessGrants
  index = index
  core = core
  access = access
  Objects <- MCObjects
  Names <- MCNames
  Lists <- MCLists
  Runs = {s1, s2}
  MaxRevision = 4
  Absent = Absent
  acme = acme
  umbrella = umbrella
  alice = alice
  Connections = {c1}
  Companies = {acme, umbrella}
  Subjects = {alice}
  Tokens <- MCTokens
  Tolerance = 1
  MaxNow = 2
  MaxSaves = 2
INVARIANTS
  ServerTypeOK
  OutcomesAreTrue
  OnlyAdminsAreServed
PROPERTIES
  ImplementsLedger
  NoRunSeedsOverAnother
CHECK_DEADLOCK FALSE
