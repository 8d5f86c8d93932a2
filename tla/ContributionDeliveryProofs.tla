---------------------- MODULE ContributionDeliveryProofs ----------------------
(***************************************************************************)
(* For any number of runs and schemas: the runner and the routes use the   *)
(* controller by its own operations; one party works with the credential;  *)
(* a secret that may have been rotated is fenced by the pause on file and  *)
(* sent nowhere; and a disconnect lasts until the operator lifts it.       *)
(***************************************************************************)
EXTENDS ContributionDelivery, IncrementalSyncProofs

(***************************************************************************)
(* The pause on file.  A pause for the device that is on file has fenced   *)
(* every claim, and memory may differ from it only while nothing but the   *)
(* retry of a pause is written.                                            *)
(***************************************************************************)
PausedIsFenced ==
  file.pause \in Manual =>
    \A r \in Run : claim[r].phase # "idle" => claim[r].fenced

PauseIsKnown ==
  /\ file.pause \in Manual /\ settings.pause \notin Manual => ~available
  /\ file.pause = Repair /\ settings.pause # Repair => ~available

RepairIsAwaited ==
  file.pause = Repair \/ settings.pause = Repair => awaited # Disconnect

PausesInv == PausedIsFenced /\ PauseIsKnown /\ RepairIsAwaited

\* What is neither a pause, nor an approval, nor a resumption.
Quiet ==
  \/ Start \/ Stop \/ Elapse \/ NotDue
  \/ \E r \in Run : \/ Claim(r) \/ EnterRunner(r) \/ Withdraw(r) \/ Settle(r)
                    \/ DeadlineReached(r)
                    \/ \E outcome \in Outcome : RunnerEnds(r, outcome)
  \/ \E readable \in BOOLEAN : Load(readable)
  \/ \E reason \in Manual : PauseRefused(reason)
  \/ UNCHANGED control

LEMMA PauseNames == Disconnect # Repair /\ NoPause \notin Manual /\ "refused" \notin Manual
                    /\ Manual = {Disconnect, Repair}
BY DEF Disconnect, Repair, NoPause, Manual

LEMMA QuietIsNext == Quiet => [Next]_control
BY DEF Quiet, Next, Operator, Delivery, Lifecycle

\* A write in the course of a quiet step: it writes no pause for the device and
\* finds none on file.
LEMMA QuietWrite ==
  ASSUME ControlInv, PausesInv, ControlInv', NEW s, NEW a, Persist(s, a),
         s.pause \notin Manual, file.pause \notin Manual, settings.pause \notin Manual,
         UNCHANGED awaited
  PROVE  PausesInv' /\ file'.pause \notin Manual
<1>1. settings' = s /\ file' \in {file, s}
  BY DEF Persist
<1> QED BY <1>1, PauseNames DEF PausesInv, PausedIsFenced, PauseIsKnown, RepairIsAwaited

LEMMA QuietPauses ==
  ASSUME ControlInv, PausesInv, Quiet
  PROVE  /\ PausesInv'
         /\ file.pause \in Manual \/ file'.pause \in Manual => file'.pause = file.pause
<1>0. ControlInv'
  BY QuietIsNext, NextControlInv
<1>1. ASSUME settings'.pause = settings.pause, file'.pause = file.pause,
             UNCHANGED <<available, awaited>>,
             \A r \in Run : claim'[r].phase # "idle" =>
               claim[r].phase # "idle" /\ (claim[r].fenced => claim'[r].fenced)
      PROVE  PausesInv' /\ file'.pause = file.pause
  BY <1>1 DEF PausesInv, PausedIsFenced, PauseIsKnown, RepairIsAwaited
<1>2. CASE Start
  <2>0. settings \in Settings /\ file \in Settings
    BY DEF ControlInv, TypeOK
  <2>1. CASE UNCHANGED <<settings, file, available>>
    BY <1>1, <1>2, <2>1 DEF Start
  <2>2. CASE ~UNCHANGED <<settings, file, available>>
    <3>1. PICK s : Persist(s, available) /\ s.pause = settings.pause
      <4>1. \A next : [settings EXCEPT !.next = next].pause = settings.pause
        BY <2>0 DEF Settings
      <4>2. [settings EXCEPT !.next = "soon", !.retries = 0].pause = settings.pause
        BY <2>0 DEF Settings
      <4> QED BY <1>2, <2>2, <4>1, <4>2 DEF Start
    <3>2. available /\ settings.pause = NoPause
      BY <1>2, <2>2 DEF Start, Active
    <3>3. file.pause \notin Manual
      BY <3>2, PauseNames DEF PausesInv, PauseIsKnown
    <3> QED BY <1>0, <1>2, <3>1, <3>2, <3>3, QuietWrite, PauseNames DEF Start
  <2> QED BY <2>1, <2>2
<1>3. CASE Stop
  <2>1. \A r \in Run : /\ claim'[r].phase # "idle" => claim[r].phase # "idle"
                       /\ claim'[r].phase # "idle" => claim'[r].fenced
    BY <1>3, FencedClaims DEF Stop, ControlInv
  <2> QED BY <1>1, <1>3, <2>1 DEF Stop
<1>4. CASE Elapse
  BY <1>1, <1>4 DEF Elapse, ControlInv, TypeOK, Settings
<1>5. CASE NotDue \/ UNCHANGED control
  BY <1>1, <1>5 DEF NotDue, control
<1>6. ASSUME NEW r \in Run, Claim(r) PROVE PausesInv' /\ file.pause \notin Manual
                                           /\ file'.pause \notin Manual
  <2>1. available /\ settings.pause = NoPause /\ Persist(settings, available)
        /\ UNCHANGED awaited
    BY <1>6 DEF Claim, MayClaim, Active
  <2>2. file.pause \notin Manual
    BY <2>1, PauseNames DEF PausesInv, PauseIsKnown
  <2> QED BY <1>0, <2>1, <2>2, QuietWrite, PauseNames
<1>7. ASSUME NEW r \in Run, EnterRunner(r) \/ \E outcome \in Outcome : RunnerEnds(r, outcome)
      PROVE  PausesInv' /\ file'.pause = file.pause
  <2>1. \A q \in Run : claim'[q].phase # "idle" =>
               claim[q].phase # "idle" /\ (claim[q].fenced => claim'[q].fenced)
    BY <1>7 DEF EnterRunner, RunnerEnds, ControlInv, TypeOK, Claims
  <2> QED BY <1>1, <1>7, <2>1 DEF EnterRunner, RunnerEnds
<1>8. ASSUME NEW r \in Run, Withdraw(r) PROVE PausesInv' /\ file'.pause = file.pause
  <2>1. \A q \in Run : claim'[q].phase # "idle" =>
               claim[q].phase # "idle" /\ (claim[q].fenced => claim'[q].fenced)
    BY <1>8 DEF Withdraw, NoClaim, ControlInv, TypeOK
  <2> QED BY <1>1, <1>8, <2>1 DEF Withdraw
<1>9. ASSUME NEW r \in Run, Settle(r)
      PROVE  /\ PausesInv'
             /\ file.pause \in Manual \/ file'.pause \in Manual => file'.pause = file.pause
  <2>1. CASE UNCHANGED <<settings, file, available, failures>>
    <3>1. \A q \in Run : claim'[q].phase # "idle" =>
               claim[q].phase # "idle" /\ (claim[q].fenced => claim'[q].fenced)
      BY <1>9 DEF Settle, NoClaim, ControlInv, TypeOK
    <3> QED BY <1>1, <1>9, <2>1, <3>1 DEF Settle
  <2>2. CASE ~claim[r].fenced /\ \E s \in Settled(claim[r].outcome) : Persist(s, available)
    <3>1. PICK s \in Settled(claim[r].outcome) : Persist(s, available)
      BY <2>2
    <3>2. claim[r].outcome \in Outcome /\ claim[r].phase # "idle" /\ settings \in Settings
      BY <1>9 DEF ControlInv, TypeOK, Claims, Settle
    <3>3. file.pause \notin Manual /\ settings.pause = NoPause
      BY <2>2, <3>2 DEF PausesInv, PausedIsFenced, ControlInv, CurrentRuns, Active
    <3>4. s.pause \in {NoPause, "refused"}
      BY <3>1, <3>2 DEF Settled, Outcome, Settings
    <3> QED BY <1>0, <1>9, <3>1, <3>3, <3>4, QuietWrite, PauseNames DEF Settle
  <2> QED BY <1>9, <2>1, <2>2 DEF Settle
<1>10. ASSUME NEW readable \in BOOLEAN, Load(readable)
       PROVE  PausesInv' /\ file'.pause = file.pause
  <2>1. \A r \in Run : claim'[r].phase = "idle"
    BY <1>10 DEF Load, NoClaim
  <2> QED BY <1>10, <2>1, PauseNames
          DEF Load, PausesInv, PausedIsFenced, PauseIsKnown, RepairIsAwaited, InitialSettings
<1>11. ASSUME NEW reason \in Manual, PauseRefused(reason)
       PROVE  PausesInv' /\ file'.pause = file.pause
  <2>1. \A r \in Run : /\ claim'[r].phase # "idle" => claim[r].phase # "idle"
                       /\ claim'[r].phase # "idle" => claim'[r].fenced
    BY <1>11, FencedClaims DEF PauseRefused, ControlInv
  <2> QED BY <1>1, <1>11, <2>1 DEF PauseRefused
<1>12. ASSUME NEW r \in Run, DeadlineReached(r) PROVE PausesInv' /\ file'.pause = file.pause
  BY <1>7, <1>12 DEF DeadlineReached, Outcome
<1> QED BY <1>2, <1>3, <1>4, <1>5, <1>6, <1>7, <1>8, <1>9, <1>10, <1>11, <1>12 DEF Quiet

LEMMA PausePauses ==
  ASSUME ControlInv, PausesInv, NEW reason \in Manual, PauseForDevice(reason)
  PROVE  /\ ControlInv' /\ PausesInv' /\ file'.pause \in {file.pause, reason}
         /\ file.pause = Repair => reason = Repair
         /\ Persisted => file'.pause = reason
<1> DEFINE s == [settings EXCEPT !.pause = reason, !.next = "none"]
<1>0. ControlInv'
  BY PauseInv
<1>1. s.pause = reason /\ Persist(s, TRUE)
  BY DEF PauseForDevice, ControlInv, TypeOK, Settings
<1> HIDE DEF s
<1>2. settings' = s /\ file' \in {file, s}
  BY <1>1 DEF Persist
<1>3. file.pause = Repair \/ settings.pause = Repair => reason = Repair
  BY PauseNames DEF PauseForDevice, PausesInv, PauseIsKnown, RepairIsAwaited
<1>4. PausedIsFenced'
  <2>1. \A r \in Run : claim'[r].phase # "idle" => claim'[r].fenced
    BY FencedClaims DEF PauseForDevice, ControlInv
  <2> QED BY <2>1 DEF PausedIsFenced
<1>5. PauseIsKnown'
  <2>1. settings'.pause = reason /\ file'.pause \in {file.pause, reason}
    BY <1>1, <1>2
  <2>2. file'.pause = Repair => settings'.pause = Repair
    BY <1>3, <2>1
  <2> QED BY <2>1, <2>2 DEF PauseIsKnown
<1>6. RepairIsAwaited'
  <2>1. awaited' \in {NoPause, reason}
    BY DEF PauseForDevice
  <2>2. CASE reason = Repair
    BY <2>1, <2>2, PauseNames DEF RepairIsAwaited
  <2>3. CASE reason # Repair
    BY <1>1, <1>2, <1>3, <2>3 DEF RepairIsAwaited
  <2> QED BY <2>2, <2>3
<1>7. Persisted => file'.pause = reason
  BY <1>1, <1>2 DEF Persisted
<1> QED BY <1>0, <1>1, <1>2, <1>3, <1>4, <1>5, <1>6, <1>7 DEF PausesInv

\* A write that lifts the pause in memory: it reaches the file, or the settings
\* are unavailable.
LEMMA LiftPauses ==
  ASSUME ControlInv, PausesInv, ControlInv', NEW s, NEW a, Persist(s, a),
         s.pause = NoPause, Parses(s), awaited # Disconnect \/ file.pause # Repair,
         file.pause \in Manual \/ available,
         UNCHANGED awaited,
         \A r \in Run : claim'[r].phase # "idle" =>
           claim[r].phase # "idle" /\ (claim[r].fenced => claim'[r].fenced)
  PROVE  PausesInv' /\ file'.pause \in {file.pause, NoPause}
<1>1. settings' = s /\ file' \in {file, s} /\ (file' = s \/ ~available')
  BY DEF Persist
<1> QED BY <1>1, PauseNames DEF PausesInv, PausedIsFenced, PauseIsKnown, RepairIsAwaited

LEMMA ApprovePauses ==
  ASSUME ControlInv, PausesInv, NEW schema \in Schema, Approve(schema)
  PROVE  /\ ControlInv' /\ PausesInv' /\ file'.pause \in {file.pause, NoPause}
         /\ file.pause # Repair
<1> PICK next \in {"due", "soon"} :
      Persist([settings EXCEPT
                 !.consent = schema, !.pause = NoPause, !.retries = 0,
                 !.next = next,
                 !.backlog = @ \/ settings.consent # schema], available)
  BY DEF Approve
<1> DEFINE s == [settings EXCEPT
                   !.consent = schema, !.pause = NoPause, !.retries = 0,
                   !.next = next,
                   !.backlog = @ \/ settings.consent # schema]
<1>0. ControlInv'
  BY ApproveInv
<1>1. s.pause = NoPause /\ Parses(s) /\ Persist(s, available)
  BY RetryRange DEF ControlInv, TypeOK, Settings, Parses
<1> HIDE DEF s
<1>2. file.pause # Repair /\ available /\ UNCHANGED awaited
  BY DEF Approve, PausesInv, PauseIsKnown
<1>3. \A r \in Run : claim'[r].phase # "idle" =>
           claim[r].phase # "idle" /\ (claim[r].fenced => claim'[r].fenced)
  BY FencedClaims DEF Approve, ControlInv
<1> QED BY <1>0, <1>1, <1>2, <1>3, LiftPauses

\* Without a repair nothing resumes what is paused for one.
LEMMA ResumePauses ==
  ASSUME ControlInv, PausesInv, NEW repaired \in BOOLEAN, Resume(repaired)
  PROVE  /\ ControlInv' /\ PausesInv' /\ file'.pause \in {file.pause, NoPause}
         /\ file.pause = Repair => repaired
<1> DEFINE s == [settings EXCEPT !.pause = NoPause, !.retries = 0, !.next = "due"]
<1>0. ControlInv' /\ available /\ UNCHANGED <<awaited, claim>>
  BY ResumeInv DEF Resume, MayResume
<1>1. file.pause = Repair => repaired
  BY DEF Resume, MayResume, PausesInv, PauseIsKnown
<1>2. CASE Persist(s, available)
  <2>1. s.pause = NoPause /\ Parses(s)
    BY RetryRange DEF ControlInv, TypeOK, Settings, Parses
  <2>2. awaited # Disconnect \/ file.pause # Repair
    BY DEF PausesInv, RepairIsAwaited
  <2> HIDE DEF s
  <2> QED BY <1>0, <1>1, <1>2, <2>1, <2>2, LiftPauses
<1>3. CASE UNCHANGED <<settings, file, available, timer, failures>>
  BY <1>0, <1>1, <1>3 DEF PausesInv, PausedIsFenced, PauseIsKnown, RepairIsAwaited
<1> QED BY <1>2, <1>3 DEF Resume

(***************************************************************************)
(* The runners, the routes and the credential.  What a runner or a route   *)
(* has reached says what is on file and what the credential is, because    *)
(* nobody else works with either of them in the meantime.                  *)
(***************************************************************************)
Renewing == {"requesting", "swapping", "recording", "resuming"}

RunnerInv ==
  \A r \in Run :
    /\ runner[r] \in Renewing => file.pause = Repair
    /\ runner[r] \in Holding => file.pause # Disconnect
    /\ runner[r] \in {"preparing", "requesting", "uploading"} => credential # "rotated"
    /\ runner[r] \in {"recording", "resuming"} => credential = "current"

RouteInv ==
  /\ route \in {"claiming", "paired", "clearing"} => file.pause = Repair
  /\ route \in {"revoking", "removing"} => file.pause = Disconnect
  /\ route = "paired" => credential = "current"
  /\ route \in {"sending", "revoking"} => credential # "rotated"

DeliveryTypes ==
  runner \in [Run -> RunnerPC] /\ route \in RoutePC /\ credential \in Credential

PartiesInv ==
  DeliveryTypes /\ CredentialIsExclusive /\ RotatedIsFenced /\ RunnerInv /\ RouteInv

DeliveryInv == ControlInv /\ PausesInv /\ PartiesInv

LEMMA HoldingNames ==
  /\ "none" \notin Holding /\ "refused" \notin Holding
  /\ Renewing \subseteq Holding /\ Holding \subseteq RunnerPC
  /\ {"preparing", "requesting", "uploading", "recording", "resuming"} \subseteq Holding
  /\ "checking" \in Holding /\ "giving_up" \in Holding /\ "swapping" \in Holding
BY DEF Holding, Renewing, RunnerPC

\* What the runner of r does: it is the only one to hold the guard, or comes to.
LEMMA RunnerMoves ==
  ASSUME DeliveryInv, NEW r \in Run, NEW pc \in RunnerPC,
         runner' = [runner EXCEPT ![r] = pc], UNCHANGED route,
         credential' \in Credential,
         runner[r] \in Holding \/ credential' = credential,
         runner[r] \in Holding \/ pc \notin Holding \/ ~Busy,
         file'.pause = file.pause \/ runner[r] \in Holding \/ pc \in Holding,
         file'.pause = file.pause \/ file'.pause # Disconnect,
         credential' = "rotated" => file'.pause = Repair,
         pc \in Renewing => file'.pause = Repair,
         pc \in Holding => file'.pause # Disconnect,
         pc \in {"preparing", "requesting", "uploading"} => credential' # "rotated",
         pc \in {"recording", "resuming"} => credential' = "current"
  PROVE  PartiesInv'
<1> USE HoldingNames
<1>1. /\ runner \in [Run -> RunnerPC] /\ route \in RoutePC
      /\ CredentialIsExclusive /\ RunnerInv /\ RouteInv
  BY DEF DeliveryInv, PartiesInv, DeliveryTypes
<1>2. runner[r] \in Holding \/ pc \in Holding =>
        route = "idle" /\ \A q \in Run : q # r => runner[q] \notin Holding
  BY <1>1 DEF CredentialIsExclusive, Busy
<1>3. \A q \in Run : runner'[q] = IF q = r THEN pc ELSE runner[q]
  BY <1>1
<1>4. DeliveryTypes'
  BY <1>1 DEF DeliveryTypes
<1>5. CredentialIsExclusive'
  BY <1>1, <1>2, <1>3 DEF CredentialIsExclusive
<1>6. RotatedIsFenced'
  BY DEF RotatedIsFenced
<1>7. RunnerInv'
  <2> SUFFICES ASSUME NEW q \in Run
               PROVE  /\ runner'[q] \in Renewing => file'.pause = Repair
                      /\ runner'[q] \in Holding => file'.pause # Disconnect
                      /\ runner'[q] \in {"preparing", "requesting", "uploading"} =>
                           credential' # "rotated"
                      /\ runner'[q] \in {"recording", "resuming"} =>
                           credential' = "current"
    BY DEF RunnerInv
  <2>1. CASE q = r
    BY <1>3, <2>1
  <2>2. CASE q # r /\ runner[q] \in Holding
    BY <1>1, <1>2, <1>3, <2>2 DEF RunnerInv
  <2>3. CASE q # r /\ runner[q] \notin Holding
    BY <1>3, <2>3
  <2> QED BY <2>1, <2>2, <2>3
<1>8. RouteInv'
  <2>1. CASE route = "idle"
    BY <2>1 DEF RouteInv
  <2>2. CASE route # "idle"
    BY <1>1, <1>2, <2>2 DEF RouteInv
  <2> QED BY <2>1, <2>2
<1> QED BY <1>4, <1>5, <1>6, <1>7, <1>8 DEF PartiesInv

\* What a route does: no runner holds the guard, before or after.
LEMMA RouteMoves ==
  ASSUME DeliveryInv, NEW pc \in RoutePC,
         route' = pc, UNCHANGED runner, credential' \in Credential,
         route # "idle" \/ ~Busy,
         credential' = "rotated" => file'.pause = Repair,
         pc \in {"claiming", "paired", "clearing"} => file'.pause = Repair,
         pc \in {"revoking", "removing"} => file'.pause = Disconnect,
         pc = "paired" => credential' = "current",
         pc \in {"sending", "revoking"} => credential' # "rotated"
  PROVE  PartiesInv'
<1> USE HoldingNames
<1>1. DeliveryTypes /\ CredentialIsExclusive /\ \A r \in Run : runner[r] \notin Holding
  BY DEF DeliveryInv, PartiesInv, CredentialIsExclusive, Busy
<1>2. DeliveryTypes'
  BY <1>1 DEF DeliveryTypes
<1>3. CredentialIsExclusive' /\ RunnerInv'
  BY <1>1 DEF CredentialIsExclusive, RunnerInv
<1>4. RouteInv' /\ RotatedIsFenced'
  BY DEF RouteInv, RotatedIsFenced
<1> QED BY <1>2, <1>3, <1>4 DEF PartiesInv

\* The controller goes on by itself; nobody notices.
LEMMA QuietMoves ==
  ASSUME DeliveryInv, Quiet, UNCHANGED <<runner, route, credential>>
  PROVE  PartiesInv'
<1>1. file.pause \in Manual \/ file'.pause \in Manual => file'.pause = file.pause
  BY QuietPauses DEF DeliveryInv
<1>2. PartiesInv
  BY DEF DeliveryInv
<1>3. RotatedIsFenced'
  BY <1>1, <1>2, PauseNames DEF PartiesInv, RotatedIsFenced
<1>4. RunnerInv'
  BY <1>1, <1>2, PauseNames DEF PartiesInv, RunnerInv
<1>5. RouteInv'
  BY <1>1, <1>2, PauseNames DEF PartiesInv, RouteInv
<1> QED BY <1>2, <1>3, <1>4, <1>5 DEF PartiesInv, DeliveryTypes, CredentialIsExclusive

LEMMA RetType ==
  ASSUME DeliveryInv, NEW r \in Run, NEW outcome \in Outcome, Return(r, outcome)
  PROVE  Quiet /\ runner' = [runner EXCEPT ![r] = "none"]
BY DEF Return, Quiet

\* Every step of the runner and of the routes is a step of the controller.
LEMMA DeliveryStepsControl == [DeliveryNext]_delivery => [Next]_control
<1> USE DEF Next
<1>1. \A r \in Run, outcome \in Outcome : Return(r, outcome) => [Next]_control
  BY DEF Return, Delivery
<1>2. \A repaired \in BOOLEAN : TriesToResume(repaired) => [Next]_control
  BY DEF TriesToResume, Operator
<1>3. \A reason \in Manual : PauseForDevice(reason) \/ PauseRefused(reason) => Next
  BY DEF Operator
<1>4. {"collision", "failed", "refused"} \subseteq Outcome /\ {Repair, Disconnect} \subseteq Manual
  BY DEF Outcome, Manual
<1>5. Controls => [Next]_control
  BY DEF Controls, ClaimsRun, EndsRun, Lifecycle, Operator, Delivery
<1>6. Crash => [Next]_control
  BY DEF Crash, Lifecycle
<1>7. ASSUME NEW r \in Run,
             \/ Enters(r) \/ TurnedAway(r) \/ Checks(r) \/ Prepares(r)
             \/ PausesForRenewal(r) \/ Requests(r) \/ Swaps(r) \/ Records(r)
             \/ ResumesAfterRenewal(r) \/ GivesUp(r) \/ Uploads(r)
      PROVE  [Next]_control
  <2>1. CASE Enters(r)
    BY <2>1 DEF Enters, Delivery
  <2>2. CASE TurnedAway(r) \/ Checks(r) \/ Prepares(r) \/ GivesUp(r)
    BY <1>1, <1>4, <2>2 DEF TurnedAway, Checks, Prepares, GivesUp
  <2>3. CASE PausesForRenewal(r) \/ ResumesAfterRenewal(r)
    BY <1>2, <1>3, <1>4, <2>3 DEF PausesForRenewal, ResumesAfterRenewal
  <2>4. CASE Requests(r) \/ Swaps(r) \/ Records(r)
    BY <2>4 DEF Requests, Swaps, Records
  <2>5. CASE Uploads(r)
    BY <1>1, <2>5 DEF Uploads
  <2> QED BY <1>7, <2>1, <2>2, <2>3, <2>4, <2>5
<1>8. Passes => [Next]_control
  BY <1>7 DEF Passes
<1>9. Routes => [Next]_control
  <2>1. CASE RouteBegins \/ PairClaims \/ Revokes \/ Removes \/ RouteReads
    BY <2>1 DEF RouteBegins, Begins, PairClaims, Revokes, Removes, RouteReads
  <2>2. CASE PairPauses \/ DisconnectPauses \/ ResetPauses
    BY <1>3, <1>4, <2>2 DEF PairPauses, DisconnectPauses, ResetPauses, RoutePauses
  <2>3. CASE PairResumes \/ RouteStarts
    BY <1>2, <2>3 DEF PairResumes, RouteStarts
  <2>4. CASE RouteApproves
    BY <2>4 DEF RouteApproves, Operator
  <2> QED BY <2>1, <2>2, <2>3, <2>4 DEF Routes
<1> QED BY <1>5, <1>6, <1>8, <1>9 DEF DeliveryNext, delivery, control

\* Settings that need no repair are not paused for one on file.
LEMMA NoRepairOnFile ==
  ASSUME PausesInv, ~MustRepair
  PROVE  file.pause # Repair
BY DEF PausesInv, PauseIsKnown, MustRepair

LEMMA ResumeFile ==
  ASSUME DeliveryInv, NEW repaired \in BOOLEAN, TriesToResume(repaired)
  PROVE  /\ PausesInv' /\ file'.pause \in {file.pause, NoPause}
         /\ file.pause = Repair /\ ~repaired => file'.pause = Repair
<1>1. CASE Resume(repaired)
  BY <1>1, ResumePauses DEF DeliveryInv
<1>2. CASE UNCHANGED control
  BY <1>2, QuietPauses DEF Quiet, DeliveryInv, control
<1> QED BY <1>1, <1>2 DEF TriesToResume

LEMMA PassMoves ==
  ASSUME DeliveryInv, NEW r \in Run,
         \/ Enters(r) \/ TurnedAway(r) \/ Checks(r) \/ Prepares(r)
         \/ PausesForRenewal(r) \/ Requests(r) \/ Swaps(r) \/ Records(r)
         \/ ResumesAfterRenewal(r) \/ GivesUp(r) \/ Uploads(r)
  PROVE  PausesInv' /\ PartiesInv'
<1> USE HoldingNames, PauseNames
<1>1. /\ ControlInv /\ PausesInv /\ RotatedIsFenced /\ RunnerInv
      /\ credential \in Credential /\ runner[r] \in RunnerPC
  BY DEF DeliveryInv, PartiesInv, DeliveryTypes
<1>2. Quiet => PausesInv' /\ (file.pause \in Manual \/ file'.pause \in Manual =>
                                file'.pause = file.pause)
  BY <1>1, QuietPauses
<1>3. "refused" \in RunnerPC /\ "none" \in RunnerPC
  BY DEF RunnerPC
<1>4. ASSUME runner[r] # "none", credential' = credential, UNCHANGED route,
             NEW outcome \in Outcome, Return(r, outcome)
      PROVE  PausesInv' /\ PartiesInv'
  <2>1. Quiet /\ runner' = [runner EXCEPT ![r] = "none"]
    BY <1>4, RetType
  <2>2. file'.pause = file.pause \/ (file'.pause \notin Manual /\ file.pause \notin Manual)
    BY <1>2, <2>1
  <2>3. file'.pause = file.pause \/ runner[r] \in Holding
    <3>1. UNCHANGED file
      BY <1>4 DEF Return, RunnerEnds, control
    <3> QED BY <3>1
  <2>4. credential' = "rotated" => file'.pause = Repair
    BY <1>1, <1>4, <2>2 DEF RotatedIsFenced
  <2>5. "none" \notin Renewing /\ "none" \notin {"preparing", "requesting", "uploading"}
    OBVIOUS
  <2> QED BY <1>1, <1>2, <1>3, <1>4, <2>1, <2>2, <2>3, <2>4, <2>5, RunnerMoves
<1>5. ASSUME runner[r] \in Holding, UNCHANGED <<control, route>>, NEW pc \in RunnerPC,
             runner' = [runner EXCEPT ![r] = pc], credential' \in Credential,
             credential' = "rotated" => file.pause = Repair,
             pc \in Renewing => file.pause = Repair,
             pc \in {"preparing", "requesting", "uploading"} => credential' # "rotated",
             pc \in {"recording", "resuming"} => credential' = "current"
      PROVE  PausesInv' /\ PartiesInv'
  <2>1. UNCHANGED file /\ PausesInv'
    BY <1>2, <1>5 DEF Quiet, control
  <2>2. file.pause # Disconnect
    BY <1>1, <1>5 DEF RunnerInv
  <2> QED BY <1>5, <2>1, <2>2, RunnerMoves
<1>6. {"collision", "failed", "refused"} \subseteq Outcome
  BY DEF Outcome
<1>7. CASE Enters(r)
  <2> DEFINE pc == IF Busy THEN "refused" ELSE "checking"
  <2>1. PausesInv' /\ file.pause \notin Manual /\ file'.pause = file.pause
        /\ credential' = credential /\ UNCHANGED route
        /\ runner' = [runner EXCEPT ![r] = pc]
    BY <1>1, <1>2, <1>7 DEF Enters, EnterRunner, Quiet, PausesInv, PausedIsFenced, Advance
  <2>2. credential # "rotated"
    BY <1>1, <2>1 DEF RotatedIsFenced
  <2>3. pc \in RunnerPC /\ (pc \in Holding => ~Busy)
        /\ pc \notin {"preparing", "requesting", "uploading", "recording", "resuming"}
        /\ pc \notin Renewing
    BY <1>3 DEF Renewing
  <2> HIDE DEF pc
  <2> QED BY <1>1, <2>1, <2>2, <2>3, RunnerMoves
<1>8. CASE TurnedAway(r)
  BY <1>4, <1>6, <1>8 DEF TurnedAway
<1>9. CASE Checks(r)
  <2>1. CASE Return(r, "failed")
    BY <1>4, <1>6, <1>9, <2>1 DEF Checks
  <2>2. CASE ~MustRepair /\ Advance(r, "preparing") /\ UNCHANGED control
    <3>1. credential # "rotated"
      BY <1>1, <2>2, NoRepairOnFile DEF RotatedIsFenced
    <3> QED BY <1>1, <1>5, <1>9, <2>2, <3>1 DEF Checks, Advance, Renewing
  <2> QED BY <1>9, <2>1, <2>2 DEF Checks
<1>10. CASE Prepares(r)
  <2>1. CASE Return(r, "refused")
    BY <1>4, <1>6, <1>10, <2>1 DEF Prepares
  <2>2. CASE Advance(r, "uploading") /\ UNCHANGED control
    BY <1>1, <1>5, <1>10, <2>2 DEF Prepares, Advance, Renewing, RunnerInv, RotatedIsFenced
  <2> QED BY <1>10, <2>1, <2>2 DEF Prepares
<1>11. CASE PausesForRenewal(r)
  <2>0. runner[r] = "preparing" /\ UNCHANGED <<route, credential>> /\ credential # "rotated"
        /\ file.pause # Disconnect
    BY <1>1, <1>11 DEF PausesForRenewal, RunnerInv
  <2>1. CASE PauseForDevice(Repair)
    <3>1. PausesInv' /\ file'.pause \in {file.pause, Repair}
          /\ (Persisted => file'.pause = Repair)
      BY <1>1, <2>1, PausePauses
    <3>2. PICK pc \in {"requesting", "giving_up"} :
            Advance(r, pc) /\ (pc = "requesting" => file'.pause = Repair)
      BY <1>11, <3>1 DEF PausesForRenewal
    <3>3. runner' = [runner EXCEPT ![r] = pc] /\ pc \in RunnerPC /\ file'.pause # Disconnect
          /\ (pc \in Renewing => file'.pause = Repair)
          /\ pc \notin {"recording", "resuming"}
      BY <2>0, <3>1, <3>2 DEF Advance, Renewing
    <3> QED BY <1>1, <2>0, <3>1, <3>3, RunnerMoves
  <2>2. CASE PauseRefused(Repair) /\ Advance(r, "giving_up")
    <3>1. PausesInv' /\ file'.pause = file.pause
      BY <1>2, <2>2 DEF Quiet, PauseRefused
    <3> QED BY <1>1, <2>0, <2>2, <3>1, RunnerMoves DEF Advance, Renewing
  <2> QED BY <1>11, <2>1, <2>2 DEF PausesForRenewal
<1>12. CASE Requests(r)
  <2>1. PICK pc \in {"swapping", "giving_up"} : runner' = [runner EXCEPT ![r] = pc]
    BY <1>12 DEF Requests, Advance
  <2> QED BY <1>1, <1>5, <1>12, <2>1 DEF Requests, Renewing, RunnerInv, Credential
<1>13. CASE Swaps(r)
  <2>1. PICK pc \in {"recording", "giving_up"} :
          runner' = [runner EXCEPT ![r] = pc] /\ (pc = "recording" => credential' = "current")
    BY <1>13 DEF Swaps, Advance
  <2> QED BY <1>1, <1>5, <1>13, <2>1 DEF Swaps, Renewing, RunnerInv, Credential
<1>14. CASE Records(r)
  <2>1. PICK pc \in {"resuming", "giving_up"} : runner' = [runner EXCEPT ![r] = pc]
    BY <1>14 DEF Records, Advance
  <2> QED BY <1>1, <1>5, <1>14, <2>1 DEF Records, Renewing, RunnerInv
<1>15. CASE ResumesAfterRenewal(r)
  <2>1. PausesInv' /\ file'.pause \in {file.pause, NoPause}
    BY <1>15, ResumeFile DEF ResumesAfterRenewal
  <2>2. runner[r] = "resuming" /\ credential' = "current" /\ UNCHANGED route
        /\ runner' = [runner EXCEPT ![r] = "giving_up"] /\ file.pause = Repair
    BY <1>1, <1>15 DEF ResumesAfterRenewal, RunnerInv, Advance, Renewing
  <2> QED BY <2>1, <2>2, RunnerMoves DEF Renewing, Credential
<1>16. CASE GivesUp(r)
  BY <1>4, <1>6, <1>16 DEF GivesUp
<1>17. CASE Uploads(r)
  BY <1>4, <1>17 DEF Uploads
<1> QED BY <1>7, <1>8, <1>9, <1>10, <1>11, <1>12, <1>13, <1>14, <1>15, <1>16, <1>17

LEMMA RoutesMove ==
  ASSUME DeliveryInv, Routes
  PROVE  PausesInv' /\ PartiesInv'
<1> USE PauseNames
<1>1. /\ ControlInv /\ PausesInv /\ RotatedIsFenced /\ RouteInv
      /\ credential \in Credential /\ route \in RoutePC /\ UNCHANGED runner
  BY DEF DeliveryInv, PartiesInv, DeliveryTypes, Routes, RouteBegins, Begins, PairPauses,
     PairClaims, PairResumes, DisconnectPauses, Revokes, Removes, ResetPauses,
     RouteApproves, RouteStarts, RouteReads, RoutePauses
<1>2. {"idle", "pairing", "resetting", "approving", "reading", "disconnecting", "starting",
       "claiming", "clearing", "revoking", "paired", "removing", "sending"} \subseteq RoutePC
  BY DEF RoutePC
<1>3. UNCHANGED control => PausesInv' /\ file' = file
  BY <1>1, QuietPauses DEF Quiet, control
<1>4. credential = "rotated" => file.pause = Repair
  BY <1>1 DEF RotatedIsFenced
<1>5. CASE RouteBegins
  <2>1. PICK pc \in {"pairing", "resetting", "approving", "reading", "disconnecting",
                     "starting"} : Begins(pc)
    BY <1>5 DEF RouteBegins
  <2> QED BY <1>1, <1>2, <1>3, <1>4, <2>1, RouteMoves DEF Begins
<1>6. ASSUME NEW reason \in Manual, NEW next \in RoutePC, RoutePauses(reason, next),
             route # "idle",
             next \in {"claiming", "clearing"} => reason = Repair,
             next = "revoking" => reason = Disconnect,
             next \in {"claiming", "clearing", "revoking"}
      PROVE  PausesInv' /\ PartiesInv'
  <2>1. CASE PauseForDevice(reason)
    <3>1. PausesInv' /\ file'.pause \in {file.pause, reason}
          /\ (file.pause = Repair => reason = Repair)
          /\ (Persisted => file'.pause = reason)
      BY <1>1, <2>1, PausePauses
    <3>2. credential' = "rotated" => file'.pause = Repair
      BY <1>4, <1>6, <3>1 DEF RoutePauses
    <3>3. credential' = "rotated" => reason = Repair
      BY <1>4, <1>6, <3>1 DEF RoutePauses
    <3>4. route' = (IF Persisted THEN next ELSE "idle") /\ credential' \in Credential
      <4>1. ~PauseRefused(reason)
        BY <2>1 DEF PauseRefused, PauseForDevice
      <4> QED BY <1>1, <1>6, <4>1 DEF RoutePauses
    <3>5. CASE Persisted
      BY <1>1, <1>6, <3>1, <3>2, <3>3, <3>4, <3>5, RouteMoves
    <3>6. CASE ~Persisted
      BY <1>1, <1>2, <1>6, <3>1, <3>2, <3>4, <3>6, RouteMoves
    <3> QED BY <3>5, <3>6
  <2>2. CASE PauseRefused(reason) /\ route' = "idle"
    <3>1. PausesInv' /\ file' = file
      BY <1>1, <2>2, QuietPauses DEF Quiet, PauseRefused
    <3> QED BY <1>1, <1>2, <1>4, <1>6, <2>2, <3>1, RouteMoves DEF RoutePauses
  <2> QED BY <1>6, <2>1, <2>2 DEF RoutePauses
<1>7. CASE PairPauses
  BY <1>2, <1>6, <1>7 DEF PairPauses
<1>8. CASE ResetPauses
  BY <1>2, <1>6, <1>8 DEF ResetPauses
<1>9. CASE DisconnectPauses
  BY <1>2, <1>6, <1>9 DEF DisconnectPauses
<1>10. CASE PairClaims
  <2>1. file.pause = Repair
    BY <1>1, <1>10 DEF PairClaims, RouteInv
  <2>2. PICK pc \in {"paired", "idle"} : route' = pc /\ (pc = "paired" => credential' = "current")
    BY <1>10 DEF PairClaims
  <2>3. credential' \in Credential
    BY <1>1, <1>10 DEF PairClaims, Credential
  <2>4. PausesInv' /\ file' = file
    BY <1>3, <1>10 DEF PairClaims
  <2> QED BY <1>1, <1>2, <1>10, <2>1, <2>2, <2>3, <2>4, RouteMoves DEF PairClaims
<1>11. CASE PairResumes
  <2>1. PausesInv'
    BY <1>11, ResumeFile DEF PairResumes
  <2>2. credential = "current"
    BY <1>1, <1>11 DEF PairResumes, RouteInv
  <2> QED BY <1>1, <1>2, <1>11, <2>1, <2>2, RouteMoves DEF PairResumes
<1>12. CASE Revokes
  <2>1. PICK pc \in {"removing", "idle"} : route' = pc
    BY <1>12 DEF Revokes
  <2>2. credential' # "rotated" /\ credential' \in Credential /\ file.pause = Disconnect
    BY <1>1, <1>12 DEF Revokes, RouteInv, Credential
  <2>3. PausesInv' /\ file' = file
    BY <1>3, <1>12 DEF Revokes
  <2> QED BY <1>1, <1>2, <1>12, <2>1, <2>2, <2>3, RouteMoves DEF Revokes
<1>13. CASE Removes
  <2>1. credential' \in Credential /\ (credential' = "rotated" => credential = "rotated")
    BY <1>1, <1>13 DEF Removes, Credential
  <2>2. PausesInv' /\ file' = file
    BY <1>3, <1>13 DEF Removes
  <2> QED BY <1>1, <1>2, <1>4, <1>13, <2>1, <2>2, RouteMoves DEF Removes
<1>14. CASE RouteApproves
  <2>1. CASE \E schema \in Schema : Approve(schema)
    <3>1. PausesInv' /\ file.pause # Repair
      BY <1>1, <2>1, ApprovePauses
    <3> QED BY <1>1, <1>2, <1>4, <1>14, <3>1, RouteMoves DEF RouteApproves
  <2>2. CASE UNCHANGED control
    BY <1>1, <1>2, <1>3, <1>4, <1>14, <2>2, RouteMoves DEF RouteApproves
  <2> QED BY <1>14, <2>1, <2>2 DEF RouteApproves
<1>15. CASE RouteStarts
  <2>1. PausesInv' /\ (file.pause = Repair => file'.pause = Repair)
    BY <1>15, ResumeFile DEF RouteStarts
  <2> QED BY <1>1, <1>2, <1>4, <1>15, <2>1, RouteMoves DEF RouteStarts
<1>16. CASE RouteReads
  <2>1. PausesInv' /\ file' = file
    BY <1>3, <1>16 DEF RouteReads
  <2>2. PICK pc \in {"idle", "sending"} :
          route' = pc /\ (pc = "sending" => ~MustRepair)
    BY <1>16 DEF RouteReads
  <2>3. pc = "sending" => credential # "rotated"
    BY <1>1, <1>4, <2>2, NoRepairOnFile
  <2> QED BY <1>1, <1>2, <1>4, <1>16, <2>1, <2>2, <2>3, RouteMoves DEF RouteReads
<1> QED BY <1>5, <1>7, <1>8, <1>9, <1>10, <1>11, <1>12, <1>13, <1>14, <1>15, <1>16
        DEF Routes

LEMMA InitDeliveryInv == DeliveryInit => DeliveryInv
<1> SUFFICES ASSUME DeliveryInit PROVE DeliveryInv
  OBVIOUS
<1>1. ControlInv
  BY InitControlInv DEF DeliveryInit
<1>2. PausesInv
  BY PauseNames DEF DeliveryInit, Init, InitialSettings, NoClaim, PausesInv, PausedIsFenced,
     PauseIsKnown, RepairIsAwaited
<1>3. file.pause = NoPause /\ credential = "absent" /\ route = "idle"
      /\ runner = [r \in Run |-> "none"]
  BY DEF DeliveryInit, Init, InitialSettings
<1>4. PartiesInv
  BY <1>3, HoldingNames DEF PartiesInv, DeliveryTypes, RunnerPC, RoutePC, Credential,
     CredentialIsExclusive, RotatedIsFenced, RunnerInv, RouteInv
<1> QED BY <1>1, <1>2, <1>4 DEF DeliveryInv

LEMMA NextDeliveryInv ==
  ASSUME DeliveryInv, [DeliveryNext]_delivery
  PROVE  DeliveryInv'
<1>1. ControlInv'
  BY DeliveryStepsControl, NextControlInv DEF DeliveryInv
<1>2. CASE Controls
  <2>1. Quiet /\ UNCHANGED <<runner, route, credential>>
    BY <1>2 DEF Controls, ClaimsRun, EndsRun, Quiet
  <2> QED BY <1>1, <2>1, QuietMoves, QuietPauses DEF DeliveryInv
<1>3. CASE Passes
  BY <1>1, <1>3, PassMoves DEF Passes, DeliveryInv
<1>4. CASE Routes
  BY <1>1, <1>4, RoutesMove DEF DeliveryInv
<1>5. CASE Crash
  <2>1. Quiet /\ UNCHANGED file
    BY <1>5 DEF Crash, Quiet, Load
  <2>2. PausesInv'
    BY <2>1, QuietPauses DEF DeliveryInv
  <2>3. PartiesInv'
    BY <1>5, <2>1, HoldingNames DEF Crash, DeliveryInv, PartiesInv, DeliveryTypes, RunnerPC,
       RoutePC, CredentialIsExclusive, RotatedIsFenced, RunnerInv, RouteInv
  <2> QED BY <1>1, <2>2, <2>3 DEF DeliveryInv
<1>6. CASE UNCHANGED delivery
  <2>1. Quiet /\ UNCHANGED <<runner, route, credential>>
    BY <1>6 DEF delivery, Quiet
  <2> QED BY <1>1, <2>1, QuietMoves, QuietPauses DEF DeliveryInv
<1> QED BY <1>2, <1>3, <1>4, <1>5, <1>6 DEF DeliveryNext

\* A pause on file that the operator asked for is lifted under a route only.
LEMMA DisconnectStep ==
  ASSUME DeliveryInv, [DeliveryNext]_delivery, file.pause = Disconnect,
         file'.pause # Disconnect
  PROVE  route \in {"pairing", "resetting", "approving", "starting"}
<1> USE PauseNames
<1>0. ControlInv /\ PausesInv /\ RunnerInv /\ RouteInv
  BY DEF DeliveryInv, PartiesInv
<1>1. ~Quiet
  BY <1>0, QuietPauses
<1>2. CASE Controls \/ Crash
  BY <1>1, <1>2 DEF Controls, ClaimsRun, EndsRun, Crash, Quiet
<1>3. ASSUME NEW r \in Run,
             \/ Enters(r) \/ TurnedAway(r) \/ Checks(r) \/ Prepares(r)
             \/ PausesForRenewal(r) \/ Requests(r) \/ Swaps(r) \/ Records(r)
             \/ ResumesAfterRenewal(r) \/ GivesUp(r) \/ Uploads(r)
      PROVE  FALSE
  <2>1. runner[r] \notin Holding
    BY <1>0 DEF RunnerInv
  <2>2. CASE Enters(r)
    BY <1>1, <2>2 DEF Enters, Quiet
  <2>3. CASE TurnedAway(r)
    BY <1>1, <2>3, RetType DEF TurnedAway, Outcome
  <2> QED BY <1>3, <2>1, <2>2, <2>3, HoldingNames DEF Checks, Prepares, PausesForRenewal,
          Requests, Swaps, Records, ResumesAfterRenewal, GivesUp, Uploads, Holding
<1>4. CASE Routes
  <2>1. ~UNCHANGED control
    BY <1>1 DEF Quiet
  <2>2. ~DisconnectPauses
    <3> SUFFICES ASSUME DisconnectPauses PROVE FALSE
      OBVIOUS
    <3>1. PauseForDevice(Disconnect)
      BY <1>1 DEF DisconnectPauses, RoutePauses, Quiet
    <3> QED BY <1>0, <3>1, PausePauses
  <2>3. ~PairResumes
    BY <1>0 DEF PairResumes, RouteInv
  <2> QED BY <1>4, <2>1, <2>2, <2>3 DEF Routes, RouteBegins, Begins, PairPauses, PairClaims,
          Revokes, Removes, ResetPauses, RouteApproves, RouteStarts, RouteReads
<1>5. ~UNCHANGED delivery
  BY <1>1 DEF delivery, Quiet
<1> QED BY <1>2, <1>3, <1>4, <1>5 DEF DeliveryNext, Passes

LEMMA RemovedStep ==
  ASSUME DeliveryInv, [DeliveryNext]_delivery, credential # "absent", credential' = "absent"
  PROVE  file.pause \in Manual
<1>1. Removes
  BY DEF DeliveryNext, delivery, Controls, Crash, Passes, Routes, Enters, TurnedAway, Checks,
     Prepares, PausesForRenewal, Requests, Swaps, Records, ResumesAfterRenewal, GivesUp,
     Uploads, RouteBegins, Begins, PairPauses, PairClaims, PairResumes, DisconnectPauses,
     Revokes, ResetPauses, RoutePauses, RouteApproves, RouteStarts, RouteReads
<1> QED BY <1>1, PauseNames DEF Removes, DeliveryInv, PartiesInv, RouteInv

(***************************************************************************)
(* The theorems.                                                           *)
(***************************************************************************)
\* The inductive invariant holds in every state of the composition.
THEOREM DeliverySpecInv == DeliverySpec => []DeliveryInv
BY InitDeliveryInv, NextDeliveryInv, PTL DEF DeliverySpec

\* The composition implements the controller: every step of a runner or of a
\* route is one of its operations, or leaves it alone.
THEOREM DeliveryImplementsController == DeliverySpec => ImplementsController
<1>1. DeliveryInit => Init
  BY DEF DeliveryInit
<1> QED BY <1>1, DeliveryStepsControl, PTL DEF DeliverySpec, ImplementsController, Spec

\* The types of the composition.
THEOREM DeliverySpecTypeOK == DeliverySpec => []DeliveryTypeOK
<1> DeliveryInv => DeliveryTypeOK
  BY DEF DeliveryInv, PartiesInv, DeliveryTypes, DeliveryTypeOK, ControlInv
<1> QED BY DeliverySpecInv, PTL

\* One party at a time works with the credential, for any number of abandoned
\* runners.
THEOREM DeliveryCredentialIsExclusive == DeliverySpec => []CredentialIsExclusive
<1> DeliveryInv => CredentialIsExclusive
  BY DEF DeliveryInv, PartiesInv
<1> QED BY DeliverySpecInv, PTL

\* A secret that may have been rotated away is fenced by the pause on file.
THEOREM DeliveryRotatedIsFenced == DeliverySpec => []RotatedIsFenced
<1> DeliveryInv => RotatedIsFenced
  BY DEF DeliveryInv, PartiesInv
<1> QED BY DeliverySpecInv, PTL

\* The old bearer is sent nowhere once it may have been rotated away.
THEOREM DeliveryRotatedIsNotSent == DeliverySpec => []RotatedIsNotSent
<1> DeliveryInv => RotatedIsNotSent
  BY DEF DeliveryInv, PartiesInv, RunnerInv, RouteInv, RotatedIsNotSent, Sends
<1> QED BY DeliverySpecInv, PTL

\* A disconnect holds until a route of the operator's lifts it.
THEOREM DeliveryDisconnectHolds == DeliverySpec => DisconnectHolds
BY DeliverySpecInv, DisconnectStep, PTL DEF DeliverySpec, DisconnectHolds

\* A credential is removed only while the file says that delivery is paused.
THEOREM DeliveryRemovedWhilePaused == DeliverySpec => RemovedWhilePaused
BY DeliverySpecInv, RemovedStep, PTL DEF DeliverySpec, RemovedWhilePaused
==============================================================================
