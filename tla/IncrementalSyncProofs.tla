------------------------ MODULE IncrementalSyncProofs ------------------------
(***************************************************************************)
(* For any number of runs, schemas and retries: one run at a time, memory  *)
(* and file in step, runs that count are of the consent in force, the      *)
(* cadence survives every operation, and consent on file is never lost.    *)
(***************************************************************************)
EXTENDS IncrementalSync, TLAPS

USE IncrementalConstants

LEMMA RetryRange == RetryLimit \in Nat /\ 0 \in 0 .. RetryLimit + 1 /\ 0 <= RetryLimit
OBVIOUS

(***************************************************************************)
(* The inductive invariant.  Beside the properties it says that the file   *)
(* never holds what it has no room for, nor the settings of a run under way*)
(* (so that the settlement may add a retry); that wanted settings name a   *)
(* next attempt; and that settings which lack a consent the file has are   *)
(* never written, because they are neither available nor a pause's retry.  *)
(***************************************************************************)
FileParses  == Parses(file)
RunsParse   == running => Parses(settings)
NextIsKnown == Serving => settings.next # "none"

ConsentIsKnown ==
  settings.consent = NoConsent /\ file.consent # NoConsent =>
    ~available /\ awaited = NoPause

ControlInv ==
  /\ TypeOK /\ OneClaim /\ MemoryMatchesFile /\ CurrentRuns /\ CadenceAlive
  /\ FileParses /\ RunsParse /\ NextIsKnown /\ ConsentIsKnown

LEMMA InitControlInv == Init => ControlInv
<1> SUFFICES ASSUME Init PROVE ControlInv
  OBVIOUS
<1>1. InitialSettings \in Settings /\ NoClaim \in Claims
  BY DEF InitialSettings, Settings, NoClaim, Claims, Phase, Outcome, Pause, Stamp,
         NoPause
<1>2. TypeOK
  BY <1>1 DEF Init, TypeOK
<1>3. OneClaim /\ CurrentRuns
  BY DEF Init, OneClaim, CurrentRuns, NoClaim
<1> QED
  BY <1>2, <1>3 DEF Init, ControlInv, MemoryMatchesFile, CadenceAlive, FileParses,
     RunsParse, NextIsKnown, ConsentIsKnown, Serving, Parses, InitialSettings

\* What a write may do to the settings, in memory and on file.
LEMMA Persists ==
  ASSUME TypeOK, FileParses, NEW s \in Settings, NEW a \in BOOLEAN, Persist(s, a)
  PROVE  /\ settings' = s /\ file' \in {file, s} /\ file' \in Settings
         /\ Parses(file')
         /\ available' \in BOOLEAN /\ timer' \in BOOLEAN /\ failures' \in Nat
         /\ available' => a \/ available
         /\ available' /\ Parses(s) =>
              /\ file' = s
              /\ timer' = /\ process' = "started" /\ available' /\ Active(s)
                          /\ ~running' /\ s.next # "none"
<1>0. settings' = s /\ file \in Settings /\ failures \in Nat /\ available \in BOOLEAN
  BY DEF Persist, TypeOK
<1> USE DEF FileParses
<1>1. CASE Parses(s) /\ file' = s /\ available' = a /\ Schedule /\ UNCHANGED failures
  BY <1>0, <1>1 DEF Schedule, Active, Parses
<1>2. CASE /\ Parses(s) /\ failures' = failures + 1 /\ file' \in {file, s}
           /\ available' = FALSE /\ timer' = FALSE
  <2>1. Parses(file')
    BY <1>0, <1>2 DEF Parses
  <2>2. available' \in BOOLEAN /\ timer' \in BOOLEAN /\ ~available'
    BY <1>2
  <2>3. file' \in Settings /\ failures' \in Nat
    BY <1>0, <1>2
  <2> QED BY <1>0, <1>2, <2>1, <2>2, <2>3
<1>3. CASE ~Parses(s) /\ timer' = FALSE /\ UNCHANGED <<file, available, failures>>
  BY <1>0, <1>3 DEF Parses
<1> QED BY <1>1, <1>2, <1>3 DEF Persist

\* A write preserves the invariant if the claims and the settings go together.
LEMMA PersistInv ==
  ASSUME ControlInv, NEW s \in Settings, NEW a \in BOOLEAN, Persist(s, a),
         process' \in {"loaded", "started", "stopped"},
         running' \in BOOLEAN, claim' \in [Run -> Claims],
         awaited' \in {NoPause} \cup Manual,
         OneClaim', CurrentRuns',
         running' => Parses(s),
         Active(s) => s.next # "none",
         s.consent = NoConsent => file.consent = NoConsent
  PROVE  ControlInv'
<1>1. TypeOK /\ FileParses
  BY DEF ControlInv
<1> DEFINE Facts ==
      /\ settings' = s /\ file' \in {file, s} /\ file' \in Settings
      /\ Parses(file')
      /\ available' \in BOOLEAN /\ timer' \in BOOLEAN /\ failures' \in Nat
      /\ available' /\ Parses(s) =>
           /\ file' = s
           /\ timer' = /\ process' = "started" /\ available' /\ Active(s)
                       /\ ~running' /\ s.next # "none"
<1>2. Facts
  BY <1>1, Persists
<1>3. TypeOK'
  BY <1>2 DEF TypeOK
<1>4. FileParses' /\ RunsParse'
  BY <1>2 DEF FileParses, RunsParse, Parses
<1>5. NextIsKnown'
  BY <1>2 DEF NextIsKnown, Serving, Active
<1>6. ConsentIsKnown'
  BY <1>2 DEF ConsentIsKnown
<1>7. MemoryMatchesFile'
  BY <1>2 DEF MemoryMatchesFile, Parses
<1>8. CadenceAlive'
  BY <1>2 DEF CadenceAlive, Serving, Active, Parses
<1> QED BY <1>3, <1>4, <1>5, <1>6, <1>7, <1>8 DEF ControlInv

\* A step that leaves the settings alone and looks at the timer afterwards.
LEMMA ScheduleInv ==
  ASSUME ControlInv, Schedule,
         UNCHANGED <<settings, file, available, awaited, failures>>,
         process' \in {"loaded", "started", "stopped"},
         running' \in BOOLEAN, claim' \in [Run -> Claims],
         OneClaim', CurrentRuns', running' => running,
         process' = process \/ (Serving' => settings.next # "none")
  PROVE  ControlInv'
<1> timer' = (/\ process' = "started" /\ available /\ Active(settings)
              /\ ~running' /\ settings.next # "none")
  BY DEF Schedule
<1>1. NextIsKnown'
  BY DEF ControlInv, NextIsKnown, Serving, Active
<1>2. CadenceAlive'
  BY <1>1 DEF CadenceAlive, NextIsKnown, Serving, Active
<1> QED BY <1>1, <1>2 DEF ControlInv, TypeOK, MemoryMatchesFile, FileParses,
           RunsParse, ConsentIsKnown, Parses

LEMMA FencedClaims ==
  ASSUME TypeOK, OneClaim
  PROVE  /\ Fenced \in [Run -> Claims]
         /\ \A r \in Run : /\ Fenced[r].phase = claim[r].phase
                           /\ Fenced[r].phase # "idle" => Fenced[r].fenced
BY DEF TypeOK, Fenced, Claims

\* The claims stay as they are, or all of them are fenced.
LEMMA ClaimsFenced ==
  ASSUME ControlInv, claim' = Fenced, UNCHANGED running
  PROVE  claim' \in [Run -> Claims] /\ OneClaim' /\ CurrentRuns'
<1>1. /\ Fenced \in [Run -> Claims]
      /\ \A r \in Run : /\ Fenced[r].phase = claim[r].phase
                        /\ Fenced[r].phase # "idle" => Fenced[r].fenced
  BY FencedClaims DEF ControlInv
<1> QED BY <1>1 DEF ControlInv, OneClaim, CurrentRuns

LEMMA ClaimsKept ==
  ASSUME ControlInv, UNCHANGED <<claim, running, process>>,
         settings'.consent = settings.consent,
         Active(settings) => Active(settings')
  PROVE  claim' \in [Run -> Claims] /\ OneClaim' /\ CurrentRuns'
BY DEF ControlInv, OneClaim, CurrentRuns, TypeOK

\* The only claim there is ends.
LEMMA ClaimEnds ==
  ASSUME ControlInv, NEW r \in Run, claim[r].phase # "idle",
         running' = FALSE, claim' = [claim EXCEPT ![r] = NoClaim]
  PROVE  claim' \in [Run -> Claims] /\ OneClaim' /\ CurrentRuns'
<1>1. NoClaim \in Claims /\ NoClaim.phase = "idle"
  BY DEF NoClaim, Claims, Phase, Outcome
<1>2. claim' \in [Run -> Claims] /\ \A q \in Run : claim'[q].phase = "idle"
  BY <1>1 DEF ControlInv, TypeOK, OneClaim
<1> QED BY <1>2 DEF OneClaim, CurrentRuns

(***************************************************************************)
(* The operations, one by one.                                             *)
(***************************************************************************)
LEMMA LoadInv ==
  ASSUME ControlInv, NEW readable \in BOOLEAN, Load(readable)
  PROVE  ControlInv'
<1>1. InitialSettings \in Settings /\ NoClaim \in Claims /\ NoClaim.phase = "idle"
  BY DEF InitialSettings, Settings, NoClaim, Claims, Phase, Outcome, Pause, Stamp,
         NoPause
<1>2. TypeOK'
  BY <1>1 DEF Load, ControlInv, TypeOK
<1>3. OneClaim' /\ CurrentRuns'
  BY <1>1 DEF Load, OneClaim, CurrentRuns
<1> QED
  BY <1>2, <1>3 DEF Load, ControlInv, MemoryMatchesFile, CadenceAlive, FileParses,
     RunsParse, NextIsKnown, ConsentIsKnown, Serving, Parses

\* No run that counts is left over when the program starts.
LEMMA StartInv ==
  ASSUME ControlInv, Start
  PROVE  ControlInv'
<1>0. settings \in Settings /\ available \in BOOLEAN /\ process = "loaded"
  BY DEF ControlInv, TypeOK, Start
<1>1. \A r \in Run : claim[r].phase # "idle" => claim[r].fenced
  BY <1>0 DEF ControlInv, CurrentRuns
<1>2. claim' \in [Run -> Claims] /\ OneClaim' /\ CurrentRuns'
  BY <1>1 DEF ControlInv, TypeOK, OneClaim, CurrentRuns, Start
<1>3. ASSUME NEW next \in {"due", "soon"}, Active(settings), available,
             Persist([settings EXCEPT !.next = next], available)
      PROVE  ControlInv'
  <2> DEFINE s == [settings EXCEPT !.next = next]
  <2>1. s \in Settings /\ s.next # "none" /\ s.consent = settings.consent
        /\ (Parses(settings) => Parses(s))
    BY <1>0, <1>3 DEF Settings, Stamp, Parses
  <2>2. running' => Parses(s)
    BY <2>1 DEF Start, ControlInv, RunsParse
  <2>3. s.consent = NoConsent => file.consent = NoConsent
    BY <1>3, <2>1 DEF ControlInv, ConsentIsKnown
  <2> HIDE DEF s
  <2> QED BY <1>0, <1>2, <1>3, <2>1, <2>2, <2>3, PersistInv
          DEF Start, ControlInv, TypeOK, s
<1>4. ASSUME Active(settings), available,
             Persist([settings EXCEPT !.next = "soon", !.retries = 0], available)
      PROVE  ControlInv'
  <2> DEFINE s == [settings EXCEPT !.next = "soon", !.retries = 0]
  <2>1. s \in Settings /\ s.next # "none" /\ s.consent = settings.consent /\ Parses(s)
    BY <1>0, <1>4, RetryRange DEF Settings, Stamp, Parses
  <2>2. s.consent = NoConsent => file.consent = NoConsent
    BY <1>4, <2>1 DEF ControlInv, ConsentIsKnown
  <2> QED BY <1>0, <1>2, <1>4, <2>1, <2>2, PersistInv
          DEF Start, ControlInv, TypeOK
<1>5. CASE /\ ~ /\ Active(settings) /\ available
                /\ \/ settings.next = "none"
                   \/ settings.next = "far" /\ settings.backlog
           /\ UNCHANGED <<settings, file, available, failures>>
           /\ Schedule
  <2>1. Serving' => settings.next # "none"
    BY <1>5 DEF Serving, Active
  <2> QED BY <1>0, <1>2, <1>5, <2>1, ScheduleInv DEF Start, ControlInv, TypeOK
<1> QED BY <1>3, <1>4, <1>5 DEF Start

LEMMA StopInv ==
  ASSUME ControlInv, Stop
  PROVE  ControlInv'
<1>1. claim' \in [Run -> Claims] /\ OneClaim' /\ CurrentRuns'
  BY ClaimsFenced DEF Stop
<1> QED BY <1>1 DEF Stop, ControlInv, TypeOK, MemoryMatchesFile, CadenceAlive,
           FileParses, RunsParse, NextIsKnown, ConsentIsKnown, Serving, Parses

LEMMA ElapseInv ==
  ASSUME ControlInv, Elapse
  PROVE  ControlInv'
<1>1. \A n \in Stamp : Later(n) \in Stamp /\ (n # "none" => Later(n) # "none")
  BY DEF Stamp, Later
<1>2. /\ settings' \in Settings /\ settings'.consent = settings.consent
      /\ settings'.pause = settings.pause /\ settings'.retries = settings.retries
      /\ (settings.next # "none" => settings'.next # "none")
  BY <1>1 DEF Elapse, ControlInv, TypeOK, Settings
<1>3. /\ file' \in Settings /\ file'.consent = file.consent
      /\ file'.retries = file.retries
      /\ settings = file => settings' = file'
  BY <1>1 DEF Elapse, ControlInv, TypeOK, Settings
<1>4. TypeOK'
  BY <1>2, <1>3 DEF Elapse, ControlInv, TypeOK
<1>5. OneClaim' /\ CurrentRuns'
  BY <1>2 DEF Elapse, ControlInv, OneClaim, CurrentRuns, Active
<1>6. MemoryMatchesFile' /\ FileParses' /\ RunsParse'
  BY <1>2, <1>3 DEF Elapse, ControlInv, MemoryMatchesFile, FileParses, RunsParse, Parses
<1>7. CadenceAlive' /\ NextIsKnown' /\ ConsentIsKnown'
  BY <1>2, <1>3 DEF Elapse, ControlInv, CadenceAlive, NextIsKnown, ConsentIsKnown,
     Serving, Parses, Active
<1> QED BY <1>4, <1>5, <1>6, <1>7 DEF ControlInv

LEMMA PauseInv ==
  ASSUME ControlInv, NEW reason \in Manual, PauseForDevice(reason)
  PROVE  ControlInv'
<1> DEFINE s == [settings EXCEPT !.pause = reason, !.next = "none"]
<1>0. settings \in Settings /\ reason # NoPause
  BY DEF ControlInv, TypeOK, Manual, Disconnect, Repair, NoPause
<1>1. /\ s \in Settings /\ ~Active(s) /\ s.consent = settings.consent
      /\ (Parses(settings) => Parses(s))
  BY <1>0 DEF Settings, Stamp, Parses, Active, Pause
<1>2. claim' \in [Run -> Claims] /\ OneClaim' /\ CurrentRuns'
  BY ClaimsFenced DEF PauseForDevice
<1>3. running' => Parses(s)
  BY <1>1 DEF PauseForDevice, ControlInv, RunsParse
<1>4. s.consent = NoConsent => file.consent = NoConsent
  BY <1>0, <1>1 DEF PauseForDevice, ControlInv, ConsentIsKnown
<1>5. awaited' \in {NoPause} \cup Manual
  BY DEF PauseForDevice
<1>6. Persist(s, TRUE) /\ UNCHANGED <<process, running>>
  BY DEF PauseForDevice
<1> HIDE DEF s
<1> QED BY <1>1, <1>2, <1>3, <1>4, <1>5, <1>6, PersistInv DEF ControlInv, TypeOK

LEMMA PauseRefusedInv ==
  ASSUME ControlInv, NEW reason \in Manual, PauseRefused(reason)
  PROVE  ControlInv'
<1>1. claim' \in [Run -> Claims] /\ OneClaim' /\ CurrentRuns'
  BY ClaimsFenced DEF PauseRefused
<1> QED BY <1>1 DEF PauseRefused, ControlInv, TypeOK, MemoryMatchesFile, CadenceAlive,
           FileParses, RunsParse, NextIsKnown, ConsentIsKnown, Serving, Parses

\* An approval of the schema that is in force keeps the claims; any other one
\* fences them.
LEMMA ApproveInv ==
  ASSUME ControlInv, NEW schema \in Schema, Approve(schema)
  PROVE  ControlInv'
<1> PICK next \in {"due", "soon"} :
      Persist([settings EXCEPT
                 !.consent = schema, !.pause = NoPause, !.retries = 0,
                 !.next = next,
                 !.backlog = @ \/ settings.consent # schema], available)
  BY DEF Approve
<1> DEFINE s == [settings EXCEPT
                   !.consent = schema, !.pause = NoPause, !.retries = 0,
                   !.next = next,
                   !.backlog = @ \/ settings.consent # schema]
<1>0. settings \in Settings /\ available \in BOOLEAN /\ schema # NoConsent
  BY DEF ControlInv, TypeOK
<1>1. /\ s \in Settings /\ s.next # "none" /\ s.consent = schema
      /\ Parses(s) /\ Active(s)
  BY <1>0, RetryRange DEF Settings, Stamp, Parses, Active, Pause
<1>2. settings' = s
  BY DEF Persist
<1>3. claim' \in [Run -> Claims] /\ OneClaim' /\ CurrentRuns'
  <2>1. CASE settings.consent = schema
    BY <1>1, <1>2, <2>1, ClaimsKept DEF Approve
  <2>2. CASE settings.consent # schema
    BY <2>2, ClaimsFenced DEF Approve
  <2> QED BY <2>1, <2>2
<1>4. s.consent # NoConsent
  BY <1>0, <1>1
<1>5. Persist(s, available)
  OBVIOUS
<1>6. UNCHANGED <<process, awaited, running>>
  BY DEF Approve
<1> HIDE DEF s
<1> QED BY <1>0, <1>1, <1>3, <1>4, <1>5, <1>6, PersistInv DEF ControlInv, TypeOK

LEMMA ResumeInv ==
  ASSUME ControlInv, NEW repaired \in BOOLEAN, Resume(repaired)
  PROVE  ControlInv'
<1> DEFINE s == [settings EXCEPT !.pause = NoPause, !.retries = 0, !.next = "due"]
<1>0. settings \in Settings /\ available
  BY DEF ControlInv, TypeOK, Resume, MayResume
<1>1. /\ s \in Settings /\ s.next # "none" /\ s.consent = settings.consent
      /\ Parses(s) /\ (Active(settings) => Active(s))
  BY <1>0, RetryRange DEF Settings, Stamp, Parses, Active, Pause
<1>2. CASE Persist(s, available)
  <2>1. settings' = s /\ UNCHANGED <<process, awaited, running, claim>>
    BY <1>2 DEF Persist, Resume
  <2>2. claim' \in [Run -> Claims] /\ OneClaim' /\ CurrentRuns'
    BY <1>1, <2>1, ClaimsKept
  <2>3. s.consent = NoConsent => file.consent = NoConsent
    BY <1>0, <1>1 DEF ControlInv, ConsentIsKnown
  <2>4. awaited' \in {NoPause} \cup Manual /\ running' \in BOOLEAN
        /\ process' \in {"loaded", "started", "stopped"}
    BY <2>1 DEF ControlInv, TypeOK
  <2> HIDE DEF s
  <2> QED BY <1>0, <1>1, <1>2, <2>2, <2>3, <2>4, PersistInv
<1>3. CASE UNCHANGED <<settings, file, available, timer, failures>>
  <2> UNCHANGED <<process, awaited, running, claim>>
    BY DEF Resume
  <2> QED
    BY <1>3 DEF ControlInv, TypeOK, OneClaim, MemoryMatchesFile, CurrentRuns,
       CadenceAlive, FileParses, RunsParse, NextIsKnown, ConsentIsKnown, Serving, Parses,
       Active
<1> QED BY <1>2, <1>3 DEF Resume

\* Settings the file has no room for are never claimed: the claim's own write
\* would have to succeed.
LEMMA ClaimInv ==
  ASSUME ControlInv, NEW r \in Run, Claim(r)
  PROVE  ControlInv'
<1>0. /\ settings \in Settings /\ available = TRUE /\ running = FALSE
      /\ claim \in [Run -> Claims] /\ process = "started" /\ Active(settings)
      /\ settings.next = "due" /\ settings.consent \in Schema \cup {NoConsent}
  BY DEF ControlInv, TypeOK, Claim, MayClaim, Settings
<1>1. \A q \in Run : claim[q].phase = "idle"
  BY <1>0 DEF ControlInv, OneClaim
<1> DEFINE c == [NoClaim EXCEPT !.phase = "claimed", !.consent = settings.consent]
<1>2. c \in Claims /\ c.phase = "claimed" /\ c.consent = settings.consent
      /\ c.fenced = FALSE
  BY <1>0 DEF NoClaim, Claims, Phase, Outcome
<1>3. Persist(settings, available) /\ settings' = settings
      /\ UNCHANGED <<process, awaited>>
  BY DEF Claim, Persist
<1>4. running' => Parses(settings)
  <2>1. Parses(file)
    BY DEF ControlInv, FileParses
  <2>2. ~Parses(settings) => file' = file
    BY DEF Claim, Persist
  <2> QED BY <1>3, <2>1, <2>2 DEF Claim, Persisted
<1>5. running' \in BOOLEAN
  BY DEF Claim
<1>6. claim' = IF running' THEN [claim EXCEPT ![r] = c] ELSE claim
  BY DEF Claim
<1> HIDE DEF c
<1>7. claim' \in [Run -> Claims] /\ OneClaim' /\ CurrentRuns'
  <2>1. CASE running'
    BY <1>0, <1>1, <1>2, <1>3, <1>6, <2>1 DEF OneClaim, CurrentRuns
  <2>2. CASE ~running'
    BY <1>0, <1>1, <1>6, <2>2 DEF OneClaim, CurrentRuns
  <2> QED BY <2>1, <2>2
<1>8. settings.consent # NoConsent
  BY <1>0 DEF Active
<1> QED
  BY <1>0, <1>3, <1>4, <1>5, <1>7, <1>8, PersistInv DEF ControlInv, TypeOK

LEMMA NotDueInv ==
  ASSUME ControlInv, NotDue
  PROVE  ControlInv'
<1>1. claim' \in [Run -> Claims] /\ OneClaim' /\ CurrentRuns'
  BY DEF NotDue, ControlInv, TypeOK, OneClaim, CurrentRuns, Active
<1> QED BY <1>1, ScheduleInv DEF NotDue, ControlInv, TypeOK

\* The runner is entered, or its race is decided: the claim goes on.
LEMMA GoesOnInv ==
  ASSUME ControlInv, NEW r \in Run, NEW c \in Claims, claim[r].phase # "idle",
         c.phase # "idle", c.fenced = claim[r].fenced, c.consent = claim[r].consent,
         claim' = [claim EXCEPT ![r] = c],
         UNCHANGED <<process, settings, file, available, awaited, running, timer, failures>>
  PROVE  ControlInv'
<1>1. TypeOK'
  BY DEF ControlInv, TypeOK
<1>2. OneClaim'
  BY DEF ControlInv, TypeOK, OneClaim
<1>3. CurrentRuns'
  BY DEF ControlInv, TypeOK, CurrentRuns, Active
<1> QED
  BY <1>1, <1>2, <1>3 DEF ControlInv, MemoryMatchesFile, CadenceAlive, FileParses,
     RunsParse, NextIsKnown, ConsentIsKnown, Serving, Parses, Active

LEMMA EnterInv ==
  ASSUME ControlInv, NEW r \in Run, EnterRunner(r)
  PROVE  ControlInv'
<1> DEFINE c == [claim[r] EXCEPT !.phase = "running"]
<1>1. /\ c \in Claims /\ c.phase # "idle" /\ c.fenced = claim[r].fenced
      /\ c.consent = claim[r].consent
  BY DEF ControlInv, TypeOK, Claims, Phase
<1>2. claim' = [claim EXCEPT ![r] = c]
  BY DEF EnterRunner
<1> HIDE DEF c
<1> QED BY <1>1, <1>2, GoesOnInv DEF EnterRunner

LEMMA EndsInv ==
  ASSUME ControlInv, NEW r \in Run, NEW outcome \in Outcome, RunnerEnds(r, outcome)
  PROVE  ControlInv'
<1> DEFINE c == [claim[r] EXCEPT !.phase = "settling", !.outcome = outcome]
<1>1. /\ c \in Claims /\ c.phase # "idle" /\ c.fenced = claim[r].fenced
      /\ c.consent = claim[r].consent
  BY DEF ControlInv, TypeOK, Claims, Phase
<1>2. claim' = [claim EXCEPT ![r] = c]
  BY DEF RunnerEnds
<1> HIDE DEF c
<1> QED BY <1>1, <1>2, GoesOnInv DEF RunnerEnds

LEMMA WithdrawInv ==
  ASSUME ControlInv, NEW r \in Run, Withdraw(r)
  PROVE  ControlInv'
<1>1. claim' \in [Run -> Claims] /\ OneClaim' /\ CurrentRuns'
  BY ClaimEnds DEF Withdraw
<1> QED BY <1>1, ScheduleInv DEF Withdraw, ControlInv, TypeOK

\* What a settlement that counts writes: it fits into the file, it names a next
\* attempt unless it pauses, and it is of the consent in force.
LEMMA SettledSettings ==
  ASSUME settings \in Settings, Parses(settings), NEW outcome \in Outcome,
         NEW s \in Settled(outcome)
  PROVE  /\ s \in Settings /\ s.consent = settings.consent
         /\ Active(s) => s.next # "none"
<1> USE RetryRange DEF Settings, Stamp, Pause, NoPause, Automatic
<1>0. settings.retries + 1 \in 0 .. RetryLimit + 1
  BY DEF Parses
<1>1. CASE outcome = "synced"
  BY <1>1 DEF Settled
<1>2. CASE outcome = "partial"
  BY <1>2 DEF Settled
<1>3. CASE outcome = "exhausted"
  BY <1>3 DEF Settled
<1>4. CASE outcome = "collision"
  BY <1>4 DEF Settled
<1>5. CASE outcome = "failed"
  <2>1. PICK next \in {"soon", "far"} :
          s = [settings EXCEPT !.pause = NoPause, !.retries = @ + 1, !.next = next,
                               !.backlog = TRUE]
    BY <1>5 DEF Settled
  <2> QED BY <1>0, <2>1
<1>6. CASE outcome = "refused"
  <2>1. s = [settings EXCEPT !.pause = "refused", !.retries = 0, !.next = "none",
                             !.backlog = TRUE]
    BY <1>6 DEF Settled
  <2> QED BY <2>1 DEF Active
<1> QED BY <1>1, <1>2, <1>3, <1>4, <1>5, <1>6 DEF Outcome

LEMMA SettleInv ==
  ASSUME ControlInv, NEW r \in Run, Settle(r)
  PROVE  ControlInv'
<1>1. claim' \in [Run -> Claims] /\ OneClaim' /\ CurrentRuns'
  BY ClaimEnds DEF Settle
<1>2. running' = FALSE /\ UNCHANGED <<process, awaited>>
  BY DEF Settle
<1>3. CASE UNCHANGED <<settings, file, available, failures>> /\ Schedule
  BY <1>1, <1>2, <1>3, ScheduleInv DEF ControlInv, TypeOK
<1>4. CASE ~claim[r].fenced /\ \E s \in Settled(claim[r].outcome) : Persist(s, available)
  <2>1. PICK s \in Settled(claim[r].outcome) : Persist(s, available)
    BY <1>4
  <2>2. /\ settings \in Settings /\ available \in BOOLEAN
        /\ claim[r].outcome \in Outcome /\ claim[r].phase # "idle"
    BY DEF ControlInv, TypeOK, Claims, Settle
  <2>3. Parses(settings)
    BY <2>2 DEF ControlInv, OneClaim, RunsParse
  <2>4. settings.consent # NoConsent
    BY <1>4, <2>2 DEF ControlInv, CurrentRuns, Active
  <2>5. /\ s \in Settings /\ s.consent = settings.consent
        /\ Active(s) => s.next # "none"
    BY <2>1, <2>2, <2>3, SettledSettings
  <2> QED BY <1>1, <1>2, <2>1, <2>2, <2>4, <2>5, PersistInv DEF ControlInv, TypeOK
<1> QED BY <1>3, <1>4 DEF Settle

LEMMA NextControlInv ==
  ASSUME ControlInv, [Next]_control
  PROVE  ControlInv'
<1>1. CASE Operator
  BY <1>1, PauseInv, PauseRefusedInv, ApproveInv, ResumeInv, NotDueInv DEF Operator
<1>2. CASE Delivery
  <2>1. \A r \in Run : DeadlineReached(r) => \E outcome \in Outcome : RunnerEnds(r, outcome)
    BY DEF DeadlineReached, Outcome
  <2> QED BY <1>2, <2>1, ClaimInv, EnterInv, WithdrawInv, SettleInv, EndsInv DEF Delivery
<1>3. CASE Lifecycle
  BY <1>3, StartInv, StopInv, ElapseInv, LoadInv DEF Lifecycle
<1>4. CASE UNCHANGED control
  BY <1>4 DEF control, ControlInv, TypeOK, OneClaim, MemoryMatchesFile, CurrentRuns,
     CadenceAlive, FileParses, RunsParse, NextIsKnown, ConsentIsKnown, Serving, Parses,
     Active
<1> QED BY <1>1, <1>2, <1>3, <1>4 DEF Next

\* What the file says of the consent, when the settings are written.
LEMMA WriteKeepsConsent ==
  ASSUME NEW s, NEW a, Persist(s, a), s.consent = NoConsent => file.consent = NoConsent
  PROVE  file.consent # NoConsent => file'.consent # NoConsent
BY DEF Persist

LEMMA NextKeepsConsent ==
  ASSUME ControlInv, [Next]_control
  PROVE  file.consent # NoConsent => file'.consent # NoConsent
<1> SUFFICES ASSUME file.consent # NoConsent, file' # file
             PROVE  file'.consent # NoConsent
  OBVIOUS
<1>0. settings \in Settings /\ (available => settings.consent # NoConsent)
  BY DEF ControlInv, TypeOK, ConsentIsKnown
<1>1. ASSUME NEW reason \in Manual, PauseForDevice(reason)
      PROVE  file'.consent # NoConsent
  <2>1. settings.consent # NoConsent
    BY <1>1 DEF PauseForDevice, ControlInv, ConsentIsKnown, Manual, NoPause, Disconnect, Repair
  <2> DEFINE s == [settings EXCEPT !.pause = reason, !.next = "none"]
  <2>2. s.consent # NoConsent /\ Persist(s, TRUE)
    BY <1>0, <1>1, <2>1 DEF Settings, PauseForDevice
  <2> HIDE DEF s
  <2> QED BY <2>2, WriteKeepsConsent
<1>2. ASSUME NEW schema \in Schema, Approve(schema)
      PROVE  file'.consent # NoConsent
  <2> PICK next \in {"due", "soon"} :
        Persist([settings EXCEPT
                   !.consent = schema, !.pause = NoPause, !.retries = 0,
                   !.next = next,
                   !.backlog = @ \/ settings.consent # schema], available)
    BY <1>2 DEF Approve
  <2> DEFINE s == [settings EXCEPT
                     !.consent = schema, !.pause = NoPause, !.retries = 0,
                     !.next = next,
                     !.backlog = @ \/ settings.consent # schema]
  <2>1. s.consent # NoConsent /\ Persist(s, available)
    BY <1>0 DEF Settings
  <2> HIDE DEF s
  <2> QED BY <2>1, WriteKeepsConsent
<1>3. ASSUME NEW repaired \in BOOLEAN, Resume(repaired)
      PROVE  file'.consent # NoConsent
  <2> DEFINE s == [settings EXCEPT !.pause = NoPause, !.retries = 0, !.next = "due"]
  <2>1. s.consent # NoConsent /\ Persist(s, available)
    BY <1>0, <1>3 DEF Settings, Resume, MayResume
  <2> HIDE DEF s
  <2> QED BY <2>1, WriteKeepsConsent
<1>4. ASSUME NEW r \in Run, Claim(r)
      PROVE  file'.consent # NoConsent
  <2>1. settings.consent # NoConsent /\ Persist(settings, available)
    BY <1>0, <1>4 DEF Claim, MayClaim
  <2> QED BY <2>1, WriteKeepsConsent
<1>5. ASSUME NEW r \in Run, Settle(r)
      PROVE  file'.consent # NoConsent
  <2>1. PICK s \in Settled(claim[r].outcome) : Persist(s, available) /\ ~claim[r].fenced
    BY <1>5 DEF Settle
  <2>2. claim[r].outcome \in Outcome /\ claim[r].phase # "idle"
    BY <1>5 DEF ControlInv, TypeOK, Claims, Settle
  <2>3. Parses(settings) /\ settings.consent # NoConsent
    BY <2>1, <2>2 DEF ControlInv, OneClaim, RunsParse, CurrentRuns, Active
  <2>4. s.consent # NoConsent
    BY <1>0, <2>1, <2>2, <2>3, SettledSettings
  <2> QED BY <2>1, <2>4, WriteKeepsConsent
<1>6. ASSUME Start
      PROVE  file'.consent # NoConsent
  <2>1. ASSUME NEW next \in {"due", "soon"}, available,
               Persist([settings EXCEPT !.next = next], available)
        PROVE  file'.consent # NoConsent
    <3> DEFINE s == [settings EXCEPT !.next = next]
    <3>1. s.consent # NoConsent /\ Persist(s, available)
      BY <1>0, <2>1 DEF Settings
    <3> HIDE DEF s
    <3> QED BY <3>1, WriteKeepsConsent
  <2>2. ASSUME available,
               Persist([settings EXCEPT !.next = "soon", !.retries = 0], available)
        PROVE  file'.consent # NoConsent
    <3> DEFINE s == [settings EXCEPT !.next = "soon", !.retries = 0]
    <3>1. s.consent # NoConsent /\ Persist(s, available)
      BY <1>0, <2>2 DEF Settings
    <3> HIDE DEF s
    <3> QED BY <3>1, WriteKeepsConsent
  <2> QED BY <1>6, <2>1, <2>2 DEF Start
<1>7. ASSUME Elapse
      PROVE  file'.consent # NoConsent
  BY <1>7 DEF Elapse, ControlInv, TypeOK, Settings
<1>8. CASE Operator
  BY <1>1, <1>2, <1>3, <1>8 DEF Operator, PauseRefused, NotDue
<1>9. CASE Delivery
  BY <1>4, <1>5, <1>9 DEF Delivery, EnterRunner, Withdraw, DeadlineReached, RunnerEnds
<1>10. CASE Lifecycle
  BY <1>6, <1>7, <1>10 DEF Lifecycle, Stop, Load
<1> QED BY <1>8, <1>9, <1>10 DEF Next, control

(***************************************************************************)
(* The theorems.                                                           *)
(***************************************************************************)
\* The inductive invariant holds in every state of the controller.
THEOREM SpecControlInv == Spec => []ControlInv
BY InitControlInv, NextControlInv, PTL DEF Spec

\* The types: no chain of failures brings the retries past the one step that
\* the file refuses.
THEOREM SpecTypeOK == Spec => []TypeOK
<1> ControlInv => TypeOK BY DEF ControlInv
<1> QED BY SpecControlInv, PTL

\* One run at a time, for any number of names to claim them under.
THEOREM SpecOneClaim == Spec => []OneClaim
<1> ControlInv => OneClaim BY DEF ControlInv
<1> QED BY SpecControlInv, PTL

\* Memory and file agree while the settings are available, however many writes
\* have failed.
THEOREM SpecMemoryMatchesFile == Spec => []MemoryMatchesFile
<1> ControlInv => MemoryMatchesFile BY DEF ControlInv
<1> QED BY SpecControlInv, PTL

\* A run that counts is of the consent in force, for any set of schemas.
THEOREM SpecCurrentRuns == Spec => []CurrentRuns
<1> ControlInv => CurrentRuns BY DEF ControlInv
<1> QED BY SpecControlInv, PTL

\* The cadence survives every operation, for any limit of the retries.
THEOREM SpecCadenceAlive == Spec => []CadenceAlive
<1> ControlInv => CadenceAlive BY DEF ControlInv
<1> QED BY SpecControlInv, PTL

\* A consent on file is never lost again.
THEOREM SpecConsentKept == Spec => ConsentKept
BY SpecControlInv, NextKeepsConsent, PTL DEF Spec, ConsentKept
=============================================================================
