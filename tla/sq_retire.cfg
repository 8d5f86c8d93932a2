SPECIFICATION Spec
CONSTANTS
  Pass = {p1}
  Previewer = {}
  PreparedSet = {1, 2}
  Job = {1, 2, 3}
  SetOf <- mcSetOf
  Bytes <- mcUneven
  Targets <- mcBound
  Protected = {}
  RetireKinds = {"accepted", "superseded"}
  ServiceErrors <- mcOutage
  MaxAttempts = 2
  MaxQueued = 2
  MaxPerPass = 1
  MaxReserved = 2
  MaxRetirements = 1
  MaxRetained = 0
  SlowUploads = TRUE
  OperatorPauses = FALSE
  MaxCrashes = 1
  NoPass = NoPass
  NoJob = NoJob
  NoSet = NoSet
INVARIANTS DedupeRowsOutliveFiles AcceptedRetirementLosesNothing
PROPERTIES ImplementsOutbox
CHECK_DEADLOCK FALSE
