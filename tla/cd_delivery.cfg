SPECIFICATION FairDeliverySpec
CONSTANTS
  Run = {r1, r2}
  Schema = {v10, v12}
  NoConsent = NoConsent
  RetryLimit = 1
  MaxWriteFailures = 2
  r1 = r1
  r2 = r2
  v10 = v10
  v12 = v12
INVARIANTS CurrentRuns CadenceAlive RotatedIsFenced
  RotatedIsNotSent CredentialIsExclusive
PROPERTIES ImplementsController ConsentKept DisconnectHolds AttemptsKeepComing
