SPECIFICATION Spec
CONSTANTS
  Timer = {t1, t2}
  Session = {s1, s2}
  MaxWindows = 1
  MaxChanges = 1
  NoTimer = NoTimer
  NoLease = NoLease
SYMMETRY HandleSymmetry
INVARIANTS WatchdogsGuardLease CadenceSurvives FinishedSessionSettles
PROPERTIES OnlyOwnSettlementReleases
CHECK_DEADLOCK FALSE
