SPECIFICATION FairSpec
CONSTANTS
  Pass = {p1, p2}
  Previewer = {}
  PreparedSet = {1}
  Job = {1}
  SetOf <- mcSetOf
  Bytes <- mcBytes
  Targets <- mcAll
  Protected = {}
  RetireKinds = {}
  ServiceErrors <- mcAnswers
  MaxAttempts = 2
  MaxQueued = 3
  MaxPerPass = 2
  MaxReserved = 2
  MaxRetirements = 1
  MaxRetained = 0
  SlowUploads = TRUE
  OperatorPauses = TRUE
  MaxCrashes = 1
  NoPass = NoPass
  NoJob = NoJob
  NoSet = NoSet
PROPERTIES HorizonKept QueuedEventuallySettles
CHECK_DEADLOCK FALSE
