------------------------- MODULE ContributionDelivery -------------------------
(***************************************************************************)
(* The incremental sync controller composed with what the companion server *)
(* does around it: the runner of a pass, which may rotate the upload       *)
(* credential first, the routes by which the operator approves, pairs,     *)
(* disconnects, resets or runs, and the flags that keep all of them apart. *)
(*                                                                         *)
(*   src/apps/local/server.js                   (runner, guards, routes)   *)
(*   src/src/contribution-device-renewal.js     (when a renewal is due)    *)
(*   src/src/contribution-device-client.js      (renew, pair, disconnect)  *)
(*   src/src/contribution-device-capability.js  (credential in Keychain)   *)
(*                                                                         *)
(* Two parties hold the credential, the Keychain and the service; what     *)
(* matters is whether they agree.  Crashes come from Load, at any point.   *)
(***************************************************************************)
EXTENDS IncrementalSync

VARIABLES
  runner,       \* how far the runner entered for a claim is
  route,        \* the route under way, at its next step
  credential    \* how Keychain and service stand to each other

delivery == <<control, runner, route, credential>>

\* A runner that found the guard taken is "refused"; one whose deadline has
\* passed goes on, although its claim was settled.
Holding == {"checking", "preparing", "requesting", "swapping", "recording",
            "resuming", "giving_up", "uploading"}
RunnerPC == {"none", "refused"} \cup Holding

RoutePC == {"idle", "pairing", "claiming", "paired", "disconnecting",
            "revoking", "removing", "resetting", "clearing", "approving",
            "starting", "reading", "sending"}

\* absent: nothing in the Keychain; current: both hold the same secret;
\* rotated: the service has moved on to a secret the Keychain does not hold;
\* revoked: the service has revoked what the Keychain still holds.
Credential == {"absent", "current", "rotated", "revoked"}

DeliveryTypeOK ==
  /\ TypeOK
  /\ runner \in [Run -> RunnerPC]
  /\ route \in RoutePC
  /\ credential \in Credential

---------------------------------------------------------------------------
\* contributionDeviceBusy, contributionRepairState, contributionControlConflict.
\* Mutant: a deadline frees the guard of the runner it abandons.
BusyWhileClaimed ==
  \/ route # "idle"
  \/ \E r \in Run : runner[r] \in Holding /\ claim[r].phase = "running"

Busy == route # "idle" \/ \E r \in Run : runner[r] \in Holding
MustRepair == ~available \/ settings.pause = Repair
Conflict == Busy \/ MustRepair

\* Mutant: the outcome counts although the deadline was there first.
ReturnLate(r, outcome) ==
  /\ runner' = [runner EXCEPT ![r] = "none"]
  /\ claim' = [claim EXCEPT ![r].phase = "settling", ![r].outcome = outcome]
  /\ UNCHANGED <<process, settings, file, available, awaited, running, timer,
                 failures>>

\* The pass ends; its outcome reaches the controller, unless the deadline was
\* there first.
Return(r, outcome) ==
  /\ runner' = [runner EXCEPT ![r] = "none"]
  /\ IF claim[r].phase = "running" THEN RunnerEnds(r, outcome)
     ELSE UNCHANGED control

TriesToResume(repaired) ==
  \/ Resume(repaired)
  \/ ~MayResume(repaired) /\ UNCHANGED control

Advance(r, pc) == runner' = [runner EXCEPT ![r] = pc]

DeliveryInit ==
  /\ Init
  /\ runner = [r \in Run |-> "none"]
  /\ route = "idle"
  /\ credential = "absent"

---------------------------------------------------------------------------
\* The runner of a pass.
Enters(r) ==
  /\ EnterRunner(r)
  /\ runner[r] = "none"
  /\ Advance(r, IF Busy THEN "refused" ELSE "checking")
  /\ UNCHANGED <<route, credential>>

TurnedAway(r) ==
  /\ runner[r] = "refused"
  /\ Return(r, "collision")
  /\ UNCHANGED <<route, credential>>

Checks(r) ==
  /\ runner[r] = "checking"
  /\ \/ MustRepair /\ Return(r, "failed")
     \/ ~MustRepair /\ Advance(r, "preparing") /\ UNCHANGED control
  /\ UNCHANGED <<route, credential>>

\* The backend cannot be made, or no renewal is due.
Prepares(r) ==
  /\ runner[r] = "preparing"
  /\ \/ Return(r, "refused")
     \/ Advance(r, "uploading") /\ UNCHANGED control
  /\ UNCHANGED <<route, credential>>

\* Mutant: the renewal is requested whether or not the pause was saved.
RenewsUnpaused(r) ==
  /\ runner[r] = "preparing"
  /\ PauseForDevice(Repair) \/ PauseRefused(Repair)
  /\ Advance(r, "requesting")
  /\ UNCHANGED <<route, credential>>

\* A renewal is due: delivery is paused for repair before it is requested.  The
\* pause alone is made when the record of the due date cannot be read.
PausesForRenewal(r) ==
  /\ runner[r] = "preparing"
  /\ \/ PauseForDevice(Repair) /\ Persisted /\ Advance(r, "requesting")
     \/ PauseForDevice(Repair) /\ Advance(r, "giving_up")
     \/ PauseRefused(Repair) /\ Advance(r, "giving_up")
  /\ UNCHANGED <<route, credential>>

\* The service commits the new secret, or not; its answer may be lost.
Requests(r) ==
  /\ runner[r] = "requesting"
  /\ \/ /\ credential = "current"
        /\ credential' = "rotated"
        /\ Advance(r, "swapping") \/ Advance(r, "giving_up")
     \/ UNCHANGED credential /\ Advance(r, "giving_up")
  /\ UNCHANGED <<control, route>>

\* The compare-and-swap in the Keychain, and the read-back behind it.
Swaps(r) ==
  /\ runner[r] = "swapping"
  /\ \/ credential' = "current" /\ Advance(r, "recording")
     \/ credential' \in {credential, "current"} /\ Advance(r, "giving_up")
  /\ UNCHANGED <<control, route>>

\* The new due date is recorded; if that fails, delivery stays paused.
Records(r) ==
  /\ runner[r] = "recording"
  /\ Advance(r, "resuming") \/ Advance(r, "giving_up")
  /\ UNCHANGED <<control, route, credential>>

ResumesAfterRenewal(r) ==
  /\ runner[r] = "resuming"
  /\ TriesToResume(TRUE)
  /\ Advance(r, "giving_up")
  /\ UNCHANGED <<route, credential>>

\* Whatever the pass returns now, the pause has fenced its claim.
GivesUp(r) ==
  /\ runner[r] = "giving_up"
  /\ Return(r, "refused")
  /\ UNCHANGED <<route, credential>>

\* Only a credential the service knows brings anything across.
Uploads(r) ==
  /\ runner[r] = "uploading"
  /\ \E outcome \in Outcome \ {"collision"} :
       /\ outcome \in {"failed", "refused"} \/ credential = "current"
       /\ Return(r, outcome)
  /\ UNCHANGED <<route, credential>>

---------------------------------------------------------------------------
\* The routes.  A route that was admitted keeps the guard until it is idle.
Begins(pc) ==
  /\ route = "idle" /\ ~Busy
  /\ route' = pc
  /\ UNCHANGED <<control, runner, credential>>

RouteBegins ==
  \/ \E pc \in {"pairing", "resetting", "approving", "reading"} : Begins(pc)
  \/ ~Conflict /\ \E pc \in {"disconnecting", "starting"} : Begins(pc)

\* A route's pause for the device; without it the route goes no further.  (That
\* a repair is due cannot turn a disconnect away here: it was not admitted.)
RoutePauses(reason, next) ==
  /\ \/ /\ PauseForDevice(reason)
        /\ route' = IF Persisted THEN next ELSE "idle"
     \/ PauseRefused(reason) /\ route' = "idle"
  /\ UNCHANGED <<runner, credential>>

PairPauses  == route = "pairing" /\ RoutePauses(Repair, "claiming")
ResetPauses == route = "resetting" /\ RoutePauses(Repair, "clearing")
DisconnectPauses ==
  route = "disconnecting" /\ RoutePauses(Disconnect, "revoking")

\* A pairing code registers a fresh secret, or, for a device the service knows,
\* rotates to one; its answer, or the swap behind it, may fail.
PairClaims ==
  /\ route = "claiming"
  /\ \/ credential' = "current" /\ route' = "paired"
     \/ /\ credential' \in {credential} \cup
             (IF credential \in {"current", "rotated"} THEN {"rotated"} ELSE {})
        /\ route' = "idle"
  /\ UNCHANGED <<control, runner>>

PairResumes ==
  /\ route = "paired"
  /\ TriesToResume(TRUE)
  /\ route' = "idle"
  /\ UNCHANGED <<runner, credential>>

\* The bearer is revoked first, and removed once the service has said so.
Revokes ==
  /\ route = "revoking"
  /\ \/ /\ credential \in {"current", "revoked"} /\ credential' = "revoked"
        /\ route' \in {"removing", "idle"}
     \/ UNCHANGED credential /\ route' = "idle"
  /\ UNCHANGED <<control, runner>>

\* The local secret is deleted, after a revocation or by a reset, or is not.
Removes ==
  /\ route \in {"removing", "clearing"}
  /\ credential' \in {credential, "absent"}
  /\ route' = "idle"
  /\ UNCHANGED <<control, runner>>

RouteApproves ==
  /\ route = "approving"
  /\ \/ \E schema \in Schema : Approve(schema)
     \/ MustRepair /\ UNCHANGED control
  /\ route' = "idle"
  /\ UNCHANGED <<runner, credential>>

RouteStarts ==
  /\ route = "starting"
  /\ TriesToResume(FALSE)
  /\ route' = "idle"
  /\ UNCHANGED <<runner, credential>>

\* Mutant: the read does not look at the pause.
ReadsUnchecked ==
  /\ \/ route = "reading" /\ route' = "sending"
     \/ route = "sending" /\ route' = "idle"
  /\ UNCHANGED <<control, runner, credential>>

\* A read that borrows the bearer looks at the pause after it took the guard.
RouteReads ==
  /\ \/ /\ route = "reading"
        /\ route' = IF MustRepair THEN "idle" ELSE "sending"
     \/ route = "sending" /\ route' = "idle"
  /\ UNCHANGED <<control, runner, credential>>

---------------------------------------------------------------------------
\* The controller's own operations.  An abandoned runner keeps its name.
ClaimsRun(r) == runner[r] = "none" /\ Claim(r)

EndsRun(r) ==
  \/ runner[r] \in Holding /\ DeadlineReached(r)
  \/ Withdraw(r) \/ Settle(r)

Controls ==
  /\ \/ Start \/ Stop \/ Elapse \/ NotDue
     \/ \E r \in Run : ClaimsRun(r) \/ EndsRun(r)
  /\ UNCHANGED <<runner, route, credential>>

Crash ==
  /\ \E readable \in BOOLEAN : Load(readable)
  /\ runner' = [r \in Run |-> "none"]
  /\ route' = "idle"
  /\ UNCHANGED credential

Passes ==
  \E r \in Run :
    \/ Enters(r) \/ TurnedAway(r) \/ Checks(r) \/ Prepares(r)
    \/ PausesForRenewal(r) \/ Requests(r) \/ Swaps(r) \/ Records(r)
    \/ ResumesAfterRenewal(r) \/ GivesUp(r) \/ Uploads(r)

Routes ==
  \/ RouteBegins \/ PairPauses \/ PairClaims \/ PairResumes
  \/ DisconnectPauses \/ Revokes \/ Removes \/ ResetPauses
  \/ RouteApproves \/ RouteStarts \/ RouteReads

DeliveryNext == Controls \/ Passes \/ Routes \/ Crash

DeliverySpec == DeliveryInit /\ [][DeliveryNext]_delivery

\* Time passes, the timer fires when its moment has come, and a claim goes on:
\* nothing is assumed of a runner but that it enters and, turned away, returns
\* (the deadline is there for one that does not), and nothing of the operator.
Alone == UNCHANGED <<runner, route, credential>>

DeliveryFairness ==
  /\ WF_delivery(Elapse /\ Alone)
  /\ WF_delivery(timer /\ (\E r \in Run : ClaimsRun(r)) /\ Alone)
  /\ \A r \in Run :
       WF_delivery(Enters(r) \/ TurnedAway(r) \/ (EndsRun(r) /\ Alone))

FairDeliverySpec == DeliverySpec /\ DeliveryFairness

---------------------------------------------------------------------------
\* The runner and the routes change the controller by its own operations, one
\* at a time, so that what holds of the controller by itself holds here.
ImplementsController == Spec

\* While the service may hold a secret that the Keychain does not, the pause
\* for repair is on file: no crash, lost answer or failing write in the course
\* of a rotation lets a restarted program go on with the old bearer.
RotatedIsFenced == credential = "rotated" => file.pause = Repair

\* The old bearer is sent nowhere once it may have been rotated: not by a pass,
\* not by one that outlived its deadline, not by a read or a disconnect.
Sends == \/ route \in {"sending", "revoking"}
         \/ \E r \in Run : runner[r] \in {"requesting", "uploading"}

RotatedIsNotSent == Sends => credential # "rotated"

\* One party at a time works with the credential, abandoned runners included.
CredentialIsExclusive ==
  /\ route # "idle" => \A r \in Run : runner[r] \notin Holding
  /\ \A r, q \in Run :
       runner[r] \in Holding /\ runner[q] \in Holding => r = q

\* A pause the operator asked for is lifted only under a route the operator
\* called; no pass, old or new, and no restart arms delivery again.
DisconnectHolds ==
  [][file.pause = Disconnect /\ file'.pause # Disconnect =>
       route \in {"pairing", "resetting", "approving", "starting"}]_delivery

\* A credential is removed only while delivery is paused, on file.
RemovedWhilePaused ==
  [][credential # "absent" /\ credential' = "absent" =>
       file.pause \in Manual]_delivery
=============================================================================
