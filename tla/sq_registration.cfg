SPECIFICATION Spec
CONSTANTS
  Pass = {p1}
  Previewer = {}
  PreparedSet = {1}
  Job = {1}
  SetOf <- mcSetOf
  Bytes <- mcBytes
  Targets <- mcAll
  Protected = {}
  RetireKinds = {}
  ServiceErrors <- mcHorizon
  MaxAttempts = 2
  MaxQueued = 3
  MaxPerPass = 2
  MaxReserved = 2
  MaxRetirements = 1
  MaxRetained = 0
  SlowUploads = FALSE
  OperatorPauses = FALSE
  MaxCrashes = 0
  NoPass = NoPass
  NoJob = NoJob
  NoSet = NoSet
PROPERTIES OverHorizonNeedsResume
CHECK_DEADLOCK FALSE
