--------------------------- MODULE IncrementalSync ---------------------------
(***************************************************************************)
(* The controller of the incremental contribution sync: the consent and    *)
(* pause settings in a file and their copy in memory, one timer, and one   *)
(* claimed run at a time, raced against a deadline and settled later.      *)
(*                                                                         *)
(*   src/src/application/local-incremental-contribution-sync.js            *)
(*                                                                         *)
(* Every operation goes through #serialize, so that an operation, with the *)
(* write it ends in, is one action; only stop() is not serialized.  What   *)
(* the runner does is left open here: it ends with any outcome, or never.  *)
(* A stamp of time is one of three relations to the present, which Elapse  *)
(* moves on; a generation number is told apart only from the current one,  *)
(* so that bumping it fences the claims that carry an older one.           *)
(***************************************************************************)
EXTENDS Naturals

CONSTANTS
  Run,               \* claimed runs, told apart by name
  Schema,            \* telemetry schema versions a consent may be for
  NoConsent,
  RetryLimit,        \* the largest retryCount parseSettings accepts
  MaxWriteFailures   \* bound: how many writes of the file fail

ASSUME IncrementalConstants ==
  /\ NoConsent \notin Schema
  /\ {RetryLimit, MaxWriteFailures} \subseteq Nat

VARIABLES
  process,           \* loaded, started or stopped
  settings,          \* #settings, in memory
  file,              \* the settings file
  available,         \* #settingsAvailable
  awaited,           \* #devicePausePendingReason
  running,           \* #running
  timer,             \* #timer is armed
  claim,             \* the runs that were claimed and are not settled
  failures           \* writes that have failed so far

control == <<process, settings, file, available, awaited, running, timer,
             claim, failures>>

NoPause     == "none"
Disconnect  == "device_disconnected"
Repair      == "device_repair_required"
Manual      == {Disconnect, Repair}
Automatic   == {"refused"}   \* device_unavailable, consent_rejected, and so on
Pause       == {NoPause} \cup Manual \cup Automatic

\* nextAttemptAt: none, in the past, within the pending minute, or later.
Stamp       == {"none", "due", "soon", "far"}

\* "backlog" is what the startup clamp looks at: a last outcome that is not
\* "succeeded".  (A pass that succeeded has no pending days.)
Settings ==
  [consent : Schema \cup {NoConsent}, pause : Pause, next : Stamp,
   retries : 0 .. RetryLimit + 1, backlog : BOOLEAN]

InitialSettings ==
  [consent |-> NoConsent, pause |-> NoPause, next |-> "none", retries |-> 0,
   backlog |-> TRUE]

Phase == {"idle", "claimed", "running", "settling"}

\* "failed" stands for a throw, the deadline and a retryable failure of the
\* service; "refused" for the failures that pause under their own code.
Outcome == {"synced", "partial", "collision", "failed", "refused", "exhausted"}

Claims  == [phase : Phase, fenced : BOOLEAN, outcome : Outcome,
            consent : Schema \cup {NoConsent}]
NoClaim == [phase |-> "idle", fenced |-> FALSE, outcome |-> "failed",
            consent |-> NoConsent]

TypeOK ==
  /\ process \in {"loaded", "started", "stopped"}
  /\ settings \in Settings
  /\ file \in Settings
  /\ available \in BOOLEAN
  /\ awaited \in {NoPause} \cup Manual
  /\ running \in BOOLEAN
  /\ timer \in BOOLEAN
  /\ claim \in [Run -> Claims]
  /\ failures \in Nat

---------------------------------------------------------------------------
Active(s) == s.consent # NoConsent /\ s.pause = NoPause

Parses(s) == s.retries <= RetryLimit

\* #schedule, at the end of the operation.
Schedule ==
  timer' = /\ process' = "started"
           /\ available'
           /\ Active(settings')
           /\ ~running'
           /\ settings'.next # "none"

\* #persist, and what follows it.  The text is checked before it is written;
\* a write may fail before or after the file was replaced.
Persist(s, availableAfter) ==
  /\ settings' = s
  /\ \/ /\ Parses(s)
        /\ file' = s
        /\ available' = availableAfter
        /\ Schedule
        /\ UNCHANGED failures
     \/ /\ Parses(s)
        /\ failures < MaxWriteFailures
        /\ failures' = failures + 1
        /\ file' \in {file, s}
        /\ available' = FALSE
        /\ timer' = FALSE
     \/ /\ ~Parses(s)
        /\ timer' = FALSE
        /\ UNCHANGED <<file, available, failures>>

\* The operation came back without throwing.
Persisted == available' /\ file' = settings'

\* Mutant: the run in progress is aborted, and its settlement still counts.
FencedNever == claim

\* The generation moves on and the run in progress is aborted.
Fenced == [r \in Run |-> [claim[r] EXCEPT !.fenced = claim[r].phase # "idle"]]

---------------------------------------------------------------------------
Init ==
  /\ process = "loaded"
  /\ settings = InitialSettings
  /\ file = InitialSettings
  /\ available = TRUE
  /\ awaited = NoPause
  /\ running = FALSE
  /\ timer = FALSE
  /\ claim = [r \in Run |-> NoClaim]
  /\ failures = 0

\* The process ends, at any point, and a new one loads the file; one that
\* cannot be read leaves the initial settings, unavailable.
Load(readable) ==
  /\ process' = "loaded"
  /\ settings' = IF readable THEN file ELSE InitialSettings
  /\ available' = readable
  /\ awaited' = NoPause
  /\ running' = FALSE
  /\ timer' = FALSE
  /\ claim' = [r \in Run |-> NoClaim]
  /\ UNCHANGED <<file, failures>>

Start ==
  /\ process = "loaded"
  /\ process' = "started"
  /\ UNCHANGED <<awaited, running, claim>>
  /\ \/ /\ Active(settings) /\ available /\ settings.next = "none"
        /\ \E next \in {"due", "soon"} :
             Persist([settings EXCEPT !.next = next], available)
     \/ /\ Active(settings) /\ available
        /\ settings.next = "far" /\ settings.backlog
        /\ Persist([settings EXCEPT !.next = "soon", !.retries = 0], available)
     \/ /\ ~ /\ Active(settings) /\ available
             /\ \/ settings.next = "none"
                \/ settings.next = "far" /\ settings.backlog
        /\ UNCHANGED <<settings, file, available, failures>>
        /\ Schedule

Stop ==
  /\ process = "started"
  /\ process' = "stopped"
  /\ claim' = Fenced
  /\ timer' = FALSE
  /\ UNCHANGED <<settings, file, available, awaited, running, failures>>

\* Time passes; both copies of the stamp come closer.
Later(next) == CASE next = "far" -> "soon" [] next = "soon" -> "due"
                 [] OTHER -> next

Elapse ==
  /\ settings' = [settings EXCEPT !.next = Later(settings.next)]
  /\ file' = [file EXCEPT !.next = Later(file.next)]
  /\ <<settings', file'>> # <<settings, file>>
  /\ UNCHANGED <<process, available, awaited, running, timer, claim, failures>>

---------------------------------------------------------------------------
\* Mutant: the pause is written whether or not the settings were ever read.
PauseAnyhow(reason) ==
  /\ claim' = Fenced
  /\ UNCHANGED <<process, running>>
  /\ Persist([settings EXCEPT !.pause = reason, !.next = "none"], TRUE)
  /\ awaited' = IF Persisted THEN NoPause ELSE reason

PauseForDevice(reason) ==
  /\ settings.pause = Repair => reason = Repair
  /\ available \/ awaited = reason
  /\ claim' = Fenced
  /\ UNCHANGED <<process, running>>
  /\ Persist([settings EXCEPT !.pause = reason, !.next = "none"], TRUE)
  /\ awaited' = IF Persisted THEN NoPause ELSE reason

\* Refused, after the generation has moved on and the timer is cleared.
PauseRefused(reason) ==
  /\ settings.pause = Repair => reason = Repair
  /\ ~available /\ awaited # reason
  /\ claim' = Fenced
  /\ timer' = FALSE
  /\ UNCHANGED <<process, settings, file, available, awaited, running,
                 failures>>

Approve(schema) ==
  /\ available
  /\ settings.pause # Repair
  /\ claim' = IF settings.consent = schema THEN claim ELSE Fenced
  /\ UNCHANGED <<process, awaited, running>>
  /\ \E next \in {"due", "soon"} :
       Persist([settings EXCEPT
                  !.consent = schema, !.pause = NoPause, !.retries = 0,
                  !.next = next,
                  !.backlog = @ \/ settings.consent # schema], available)

MayResume(repaired) ==
  /\ available
  /\ settings.pause = Repair => repaired

Resume(repaired) ==
  /\ MayResume(repaired)
  /\ UNCHANGED <<process, awaited, running, claim>>
  /\ LET now == [settings EXCEPT !.pause = NoPause, !.retries = 0,
                                 !.next = "due"]
     IN \/ settings.pause # NoPause /\ Persist(now, available)
        \/ /\ Active(settings) /\ settings.next # "none"
           /\ Persist(now, available)
        \/ /\ settings.pause = NoPause
           /\ ~Active(settings) \/ settings.next = "none"
           /\ UNCHANGED <<settings, file, available, timer, failures>>

---------------------------------------------------------------------------
\* runDue, up to the claim.
MayClaim ==
  /\ process = "started" /\ available /\ ~running
  /\ Active(settings)
  /\ settings.next = "due"

\* The claim stands once its write has succeeded.
Claim(r) ==
  /\ claim[r].phase = "idle"
  /\ MayClaim
  /\ running' \in BOOLEAN
  /\ UNCHANGED <<process, awaited>>
  /\ Persist(settings, available)
  /\ running' = Persisted
  /\ claim' = IF Persisted
              THEN [claim EXCEPT ![r] = [NoClaim EXCEPT
                      !.phase = "claimed", !.consent = settings.consent]]
              ELSE claim

\* Mutant: a timer that fired too early is not armed again.
NotDueSilently ==
  /\ ~MayClaim
  /\ timer' = FALSE
  /\ UNCHANGED <<process, settings, file, available, awaited, running, claim,
                 failures>>

NotDue ==
  /\ ~MayClaim
  /\ UNCHANGED <<process, settings, file, available, awaited, running, claim,
                 failures>>
  /\ Schedule

EnterRunner(r) ==
  /\ claim[r].phase = "claimed" /\ ~claim[r].fenced
  /\ claim' = [claim EXCEPT ![r].phase = "running"]
  /\ UNCHANGED <<process, settings, file, available, awaited, running, timer,
                 failures>>

\* Mutant: an aborted claim is withdrawn without arming the timer.
WithdrawSilently(r) ==
  /\ claim[r].phase = "claimed" /\ claim[r].fenced
  /\ running' = FALSE
  /\ claim' = [claim EXCEPT ![r] = NoClaim]
  /\ UNCHANGED <<process, settings, file, available, awaited, timer, failures>>

\* The claim was aborted before the runner was entered.
Withdraw(r) ==
  /\ claim[r].phase = "claimed" /\ claim[r].fenced
  /\ running' = FALSE
  /\ claim' = [claim EXCEPT ![r] = NoClaim]
  /\ UNCHANGED <<process, settings, file, available, awaited, failures>>
  /\ Schedule

\* The race between the runner and its deadline is decided.
RunnerEnds(r, outcome) ==
  /\ claim[r].phase = "running"
  /\ claim' = [claim EXCEPT ![r].phase = "settling", ![r].outcome = outcome]
  /\ UNCHANGED <<process, settings, file, available, awaited, running, timer,
                 failures>>

\* Mutant: the deadline aborts the runner and waits for it.
DeadlineAborts(r) == claim[r].phase = "running" /\ UNCHANGED control

\* The deadline settles the race; the runner is abandoned where it is.
DeadlineReached(r) == RunnerEnds(r, "failed")

Settled(outcome) ==
  CASE outcome = "synced" ->
         {[settings EXCEPT !.pause = NoPause, !.retries = 0, !.next = "far",
                           !.backlog = FALSE]}
    [] outcome = "partial" ->
         {[settings EXCEPT !.pause = NoPause, !.retries = 0, !.next = "soon",
                           !.backlog = TRUE]}
    [] outcome = "exhausted" ->
         {[settings EXCEPT !.pause = NoPause, !.retries = 0, !.next = "far",
                           !.backlog = TRUE]}
    [] outcome = "collision" ->
         {[settings EXCEPT !.pause = NoPause, !.next = "soon",
                           !.backlog = TRUE]}
    [] outcome = "failed" ->
         {[settings EXCEPT !.pause = NoPause, !.retries = @ + 1, !.next = next,
                           !.backlog = TRUE] : next \in {"soon", "far"}}
    [] OTHER ->
         {[settings EXCEPT !.pause = outcome, !.retries = 0, !.next = "none",
                           !.backlog = TRUE]}

\* Mutant: the generation is not compared.
SettleLate(r) ==
  /\ claim[r].phase = "settling"
  /\ running' = FALSE
  /\ claim' = [claim EXCEPT ![r] = NoClaim]
  /\ UNCHANGED <<process, awaited>>
  /\ \E s \in Settled(claim[r].outcome) : Persist(s, available)

Settle(r) ==
  /\ claim[r].phase = "settling"
  /\ running' = FALSE
  /\ claim' = [claim EXCEPT ![r] = NoClaim]
  /\ UNCHANGED <<process, awaited>>
  /\ \/ /\ claim[r].fenced
        /\ UNCHANGED <<settings, file, available, failures>>
        /\ Schedule
     \/ /\ ~claim[r].fenced
        /\ \E s \in Settled(claim[r].outcome) : Persist(s, available)

---------------------------------------------------------------------------
Operator ==
  \/ \E reason \in Manual : PauseForDevice(reason) \/ PauseRefused(reason)
  \/ \E schema \in Schema : Approve(schema)
  \/ \E repaired \in BOOLEAN : Resume(repaired)
  \/ NotDue

Delivery ==
  \E r \in Run :
    \/ Claim(r) \/ EnterRunner(r) \/ Withdraw(r) \/ Settle(r)
    \/ DeadlineReached(r)
    \/ \E outcome \in Outcome : RunnerEnds(r, outcome)

Lifecycle ==
  \/ Start \/ Stop \/ Elapse
  \/ \E readable \in BOOLEAN : Load(readable)

Next == Operator \/ Delivery \/ Lifecycle

Spec == Init /\ [][Next]_control

---------------------------------------------------------------------------
\* There is one run at a time: #running is set exactly while a claim is
\* unsettled, whatever deadline, pause, stop or failing write ended it.
OneClaim ==
  /\ running <=> \E r \in Run : claim[r].phase # "idle"
  /\ \A r, q \in Run :
       claim[r].phase # "idle" /\ claim[q].phase # "idle" => r = q

\* A controller that says its settings are available holds in memory what a
\* restart would find in the file, unless the file format has no room for it.
MemoryMatchesFile ==
  available /\ Parses(settings) => settings = file

\* A run whose settlement will count was claimed under the consent that is in
\* force, and delivery has not been paused since: an approval of another
\* schema, a disconnect and a repair fence every earlier claim.
CurrentRuns ==
  \A r \in Run :
    claim[r].phase # "idle" /\ ~claim[r].fenced =>
      /\ process = "started"
      /\ Active(settings)
      /\ claim[r].consent = settings.consent

\* Consent, once it is on file, is never lost: not by a file that could not be
\* read and whose place the initial settings took in memory, not by a write
\* that failed, not by a run that settles late.
ConsentKept ==
  [][file.consent # NoConsent => file'.consent # NoConsent]_control

\* While delivery is wanted and no run is under way, a timer is armed: every
\* way an operation can end leaves the cadence alive.
Serving == process = "started" /\ available /\ Active(settings)

CadenceAlive ==
  Serving /\ Parses(settings) /\ ~running => timer

\* Every run comes to an end, whether or not its runner does; and once the
\* operator no longer approves anew (which may move an attempt out by a
\* minute), a controller that serves comes to another run.
AttemptsKeepComing ==
  /\ running ~> ~running
  /\ <>[][~ \E schema \in Schema : Approve(schema)]_control =>
       (Serving /\ Parses(settings) ~>
          running \/ ~(Serving /\ Parses(settings)))
=============================================================================
