SPECIFICATION Spec
CONSTANTS
  Interval = 2
  Faults <- mcEverything
  MaxAge = 6
  MaxSetBacks = 2
  MaxDamages = 1
  MaxRestarts = 2
PROPERTIES HourlyBudget
CHECK_DEADLOCK FALSE
