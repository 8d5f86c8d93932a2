SPECIFICATION SupplementSpec
CONSTANTS
  Pass = {p1}
  NoPass = NoPass
  Call = {c1}
  Client = {p1, s1}
  Supplement = s1
  Nobody = Nobody
  MaxQueue = 1
  p1 = p1
  s1 = s1
  c1 = c1
PROPERTY SupplementHonoursFence
CHECK_DEADLOCK FALSE
