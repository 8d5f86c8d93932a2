SPECIFICATION CadenceSpec
CONSTANTS
  Timer = {t1, t2, t3, t4}
  Session = {s1}
  MaxWindows = 0
  MaxChanges = 0
  NoTimer = NoTimer
  NoLease = NoLease
PROPERTIES TicksKeepComing
CHECK_DEADLOCK FALSE
