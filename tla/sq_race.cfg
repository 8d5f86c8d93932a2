SPECIFICATION Spec
CONSTANTS
  Pass = {p1, p2}
  Previewer = {}
  PreparedSet = {1}
  Job = {1, 2}
  SetOf <- mcSetOf
  Bytes <- mcBytes
  Targets <- mcAll
  Protected = {}
  RetireKinds = {"accepted"}
  ServiceErrors <- mcOutage
  MaxAttempts = 2
  MaxQueued = 3
  MaxPerPass = 2
  MaxReserved = 2
  MaxRetirements = 1
  MaxRetained = 0
  SlowUploads = TRUE
  OperatorPauses = FALSE
  MaxCrashes = 1
  NoPass = NoPass
  NoJob = NoJob
  NoSet = NoSet
SYMMETRY PassSymmetry
INVARIANT NoResendUnderLease
PROPERTIES SettledIsFinal LeasesAreExclusive
CHECK_DEADLOCK FALSE
