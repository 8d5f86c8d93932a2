SPECIFICATION FairStoreSpec
CONSTANTS
  r1 = r1
  r2 = r2
  e1 = e1
  e2 = e2
  Uploads = 2
  Setting <- MCSetting
  Pass = {r1, r2}
  Attempt = {e1, e2}
  Nothing = Nothing
  BatchLimit = 1
  MaxTrouble = 1
CHECK_DEADLOCK FALSE
INVARIANTS
  RetainedHasObject
  AcceptedIsKept
  NothingUntracked
PROPERTIES
  OrphansGo
