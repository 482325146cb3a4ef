SPECIFICATION Spec
CONSTANTS
  Calls = {p1, p2, p3}
  Kids = {kid1, kid2}
  Ttl = 4
  Interval = 2
  MaxFetch = 1
  MaxTime = 6
  Nothing = Nothing
SYMMETRY Symmetry
INVARIANTS
  TypeOK
  OldKeysExpire
PROPERTIES
  EndpointIsSpared
  NewKeysAccepted
CHECK_DEADLOCK FALSE
