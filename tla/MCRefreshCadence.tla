-------------------------- MODULE MCRefreshCadence --------------------------
(***************************************************************************)
(* Small instances of the refresh cadence.                                 *)
(***************************************************************************)
EXTENDS RefreshCadence

mcEverything == {"save", "load", "clock"}
=============================================================================
