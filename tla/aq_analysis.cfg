SPECIFICATION FairAnalysisSpec
CONSTANTS
  Account = {a1, a2}
  Worker = {w1, w2}
  Window = {d1, d2}
  Nothing = Nothing
  RolloverLimit = 1
  MaxTrouble = 2
INVARIANTS
  AnalysisTypeOK
  SettledIsCurrent
  SourcesAreQueued
  ReceiptTellsTruth
PROPERTIES
  PublishesCurrentInput
  ServedInTurn
  BecomesComplete
