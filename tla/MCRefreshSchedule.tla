-------------------------- MODULE MCRefreshSchedule -------------------------
(***************************************************************************)
(* Small instances of the refresh schedule.                                *)
(***************************************************************************)
EXTENDS RefreshSchedule, TLC

HandleSymmetry == Permutations(Timer) \cup Permutations(Session)
=============================================================================
