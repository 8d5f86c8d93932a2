-------------------------- MODULE SharingSupplement ---------------------------
(***************************************************************************)
(* Accountless sharing with the performance supplement beside it: a second *)
(* scheduler in the companion, whose requests ask over the same channel.   *)
(*                                                                         *)
(*   src/apps/local/accountless-contribution.js              (its fetch)   *)
(*   src/src/application/telemetry-performance-scheduler.js  (scheduler)   *)
(*                                                                         *)
(* It may begin whenever the companion runs, and a change of the preference*)
(* only makes it begin again: nothing aborts what it is at.                *)
(***************************************************************************)
EXTENDS AccountlessSharing

CONSTANT Supplement   \* the supplement: a client of the channel, and no pass

VARIABLE performance  \* how far the supplement is

supplemented == <<sharing, performance>>

---------------------------------------------------------------------------
PerformanceMoves(from, to) ==
  /\ performance = from
  /\ performance' = to
  /\ UNCHANGED <<scheduler, desktop, broker, worker, binding, closed>>

PerformanceAsks ==
  /\ process = "started"
  /\ PerformanceMoves("idle", "clearing") /\ Asks(Supplement, "preference")

\* The request begins.  The look at the preference after it is like any other.
PerformanceSends ==
  /\ ask[Supplement] = "yes"
  /\ PerformanceMoves("clearing", "idle") /\ AskTaken(Supplement)

PerformanceEnds ==
  /\ Given(Supplement) /\ ask[Supplement] # "yes"
  /\ PerformanceMoves("clearing", "idle") /\ AskTaken(Supplement)

\* stop() waits for the supplement before it stops the passes.
SharingStep ==
  /\ SharingNext
  /\ process' = "stopped" => performance = "idle"
  /\ performance' = IF process' = "new" /\ process # "new" THEN "idle" ELSE performance

SupplementNext ==
  SharingStep \/ PerformanceAsks \/ PerformanceSends \/ PerformanceEnds

SupplementSpec ==
  SharingInit /\ performance = "idle" /\ [][SupplementNext]_supplemented

---------------------------------------------------------------------------
\* "A completed desktop opt-out therefore cannot race the old child's
\* preference-read -> send gap": of the supplement too.  Not so: the fence is
\* acknowledged while its answer is on the way to the request.
SupplementHonoursFence ==
  [][performance = "clearing" /\ ask[Supplement] = "yes" /\ performance' = "idle"
       => ~OptedOut]_supplemented
=============================================================================
