SPECIFICATION SharingSpec
CONSTANTS
  Pass = {p1, p2}
  NoPass = NoPass
  Call = {c1}
  Client = {p1, p2}
  Nobody = Nobody
  MaxQueue = 1
  p1 = p1
  p2 = p2
  c1 = c1
INVARIANTS SharingTypeOK NoOrphanSecret KeepsGoing
PROPERTIES NoSendAfterOptOut ImplementsScheduler PublicationIsKept
SYMMETRY PassSymmetry
CHECK_DEADLOCK FALSE
