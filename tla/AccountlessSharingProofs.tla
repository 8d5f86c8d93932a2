----------------------- MODULE AccountlessSharingProofs -----------------------
(***************************************************************************)
(* For any number of passes: the scheduler of accountless sharing keeps    *)
(* going, its status is true, and no published index is forgotten; and the *)
(* companion with its channel, its passes and the work they abandon uses   *)
(* the scheduler by its own operations, so that the same holds of it.      *)
(* For any length of the two message queues besides: a fence that has come *)
(* back leaves nobody who may send, and a secret has its binding.          *)
(***************************************************************************)
EXTENDS AccountlessSharing, TLAPS

USE PassConstants

(***************************************************************************)
(* The inductive invariant.  There is one pass; one that counts belongs to *)
(* a started scheduler; one that does not is followed by another and shows *)
(* nothing; and what a pass that leaves has decided is what its release    *)
(* finds.                                                                  *)
(***************************************************************************)
OnePass == \A p \in Pass : pass[p].phase # "idle" <=> pending = p

Settled(p) == pass[p].phase = "leaving"

PassesAreKnown ==
  \A p \in Pass : pass[p].phase # "idle" =>
    /\ ~pass[p].fenced => process = "started"
    /\ pass[p].fenced => state = "off"
    /\ pass[p].fenced /\ process = "started" => rerun
    /\ Settled(p) => state # "uploading"
    /\ Settled(p) /\ ~pass[p].fenced =>
         /\ state # "paused" => timer # "off"
         /\ state = "pending" => timer = "soon"

QuietUnlessStarted ==
  /\ process # "started" => timer = "off" /\ state = "off"
  /\ process = "new" => pending = NoPass

UploadingIsUnderWay ==
  state = "uploading" => pending # NoPass /\ pass[pending].phase = "uploading"

SchedulerInv ==
  /\ SchedulerTypeOK /\ OnePass /\ PassesAreKnown /\ QuietUnlessStarted
  /\ UploadingIsUnderWay /\ KeepsGoing /\ StatusIsTrue

LEMMA InitSchedulerInv == SchedulerInit => SchedulerInv
<1> SUFFICES ASSUME SchedulerInit PROVE SchedulerInv
  OBVIOUS
<1>1. pass \in [Pass -> Passes] /\ \A p \in Pass : pass[p].phase = "idle"
  BY DEF SchedulerInit, Passes, Phases, IdlePass
<1>2. SchedulerTypeOK
  BY <1>1 DEF SchedulerInit, SchedulerTypeOK, Timers, States
<1>3. OnePass
  BY <1>1 DEF SchedulerInit, OnePass
<1> QED
  BY <1>1, <1>2, <1>3 DEF SchedulerInit, SchedulerInv, PassesAreKnown,
     QuietUnlessStarted, UploadingIsUnderWay, KeepsGoing, StatusIsTrue

\* A pass goes on or is decided, and no other is under way.
LEMMA PassMoves ==
  ASSUME SchedulerInv, NEW p \in Pass, pass[p].phase # "idle",
         pass' \in [Pass -> Passes], pass'[p].phase # "idle",
         \A q \in Pass : q # p => pass'[q] = pass[q],
         pass'[p].fenced = pass[p].fenced,
         UNCHANGED <<process, pending, rerun>>,
         timer' \in Timers, state' \in States, published' \in BOOLEAN,
         pass[p].fenced => UNCHANGED <<timer, state>>,
         state' = "uploading" => pass'[p].phase = "uploading",
         pass'[p].phase = "leaving" /\ ~pass[p].fenced =>
           /\ state' # "uploading"
           /\ state' # "paused" => timer' # "off"
           /\ state' = "pending" => timer' = "soon"
  PROVE  SchedulerInv'
<1>1. pending = p /\ p # NoPass /\ (pass[p].fenced => state = "off")
      /\ (~pass[p].fenced => process = "started")
  BY DEF SchedulerInv, OnePass, PassesAreKnown
<1>2. SchedulerTypeOK' /\ OnePass'
  BY DEF SchedulerInv, SchedulerTypeOK, OnePass
<1>3. UploadingIsUnderWay'
  BY <1>1 DEF UploadingIsUnderWay
<1>4. PassesAreKnown'
  BY <1>1 DEF SchedulerInv, OnePass, PassesAreKnown, Settled
<1>5. QuietUnlessStarted'
  BY <1>1 DEF SchedulerInv, QuietUnlessStarted
<1>6. KeepsGoing' /\ StatusIsTrue'
  BY <1>1 DEF SchedulerInv, KeepsGoing, StatusIsTrue
<1> QED BY <1>2, <1>3, <1>4, <1>5, <1>6 DEF SchedulerInv

LEMMA LeaveInv ==
  ASSUME SchedulerInv, NEW p \in Pass, NEW s \in States, NEW delay \in Timers,
         pass[p].phase \in {"asking", "uploading"}, ~pass[p].fenced, Leave(p, s, delay),
         s # "uploading", s = "pending" => delay = "soon", s # "paused" => delay # "off"
  PROVE  SchedulerInv'
<1>1. process = "started" /\ pass \in [Pass -> Passes] /\ timer \in Timers
  BY DEF SchedulerInv, PassesAreKnown, SchedulerTypeOK
<1>2. /\ pass' \in [Pass -> Passes] /\ pass'[p].phase = "leaving"
      /\ pass'[p].fenced = pass[p].fenced /\ \A q \in Pass : q # p => pass'[q] = pass[q]
  BY <1>1 DEF Leave, Passes, Phases
<1>3. timer' = IF delay = "off" THEN timer ELSE delay
  BY <1>1 DEF Leave, Arm
<1> QED BY <1>1, <1>2, <1>3, PassMoves DEF Leave

LEMMA PassStepInv ==
  ASSUME SchedulerInv, NEW p \in Pass, PassStep(p)
  PROVE  SchedulerInv'
<1>0. pass \in [Pass -> Passes] /\ SchedulerTypeOK /\ p # NoPass
  BY DEF SchedulerInv, SchedulerTypeOK
<1>1. CASE BeginPass(p)
  <2>0. \A q \in Pass : pass[q].phase = "idle"
    BY <1>1 DEF BeginPass, SchedulerInv, OnePass
  <2>1. pass' \in [Pass -> Passes] /\ \A q \in Pass :
          IF q = p THEN pass'[q].phase = "asking" /\ ~pass'[q].fenced
          ELSE pass'[q] = pass[q] /\ pass[q].phase = "idle"
    <3>1. [IdlePass EXCEPT !.phase = "asking"] \in Passes /\ pass[p] = IdlePass
      BY <1>1 DEF BeginPass, Passes, Phases, IdlePass
    <3>2. pass' = [pass EXCEPT ![p] = [IdlePass EXCEPT !.phase = "asking"]]
      BY <1>0, <1>1, <3>1 DEF BeginPass
    <3> QED BY <1>0, <2>0, <3>1, <3>2 DEF IdlePass
  <2>2. process = "started" /\ state # "uploading"
    BY <1>1 DEF BeginPass, SchedulerInv, QuietUnlessStarted, UploadingIsUnderWay
  <2>3. SchedulerTypeOK' /\ QuietUnlessStarted'
    BY <1>0, <1>1, <2>1, <2>2 DEF BeginPass, SchedulerTypeOK, QuietUnlessStarted, Timers
  <2>4. OnePass' /\ PassesAreKnown'
    BY <1>1, <2>1, <2>2 DEF BeginPass, OnePass, PassesAreKnown, Settled
  <2>5. UploadingIsUnderWay' /\ KeepsGoing' /\ StatusIsTrue'
    BY <1>0, <1>1, <2>1, <2>2 DEF BeginPass, UploadingIsUnderWay, KeepsGoing, StatusIsTrue
  <2> QED BY <2>3, <2>4, <2>5 DEF SchedulerInv
<1>2. CASE LeaveFenced(p)
  <2>1. pass' \in [Pass -> Passes] /\ pass'[p].phase = "leaving"
      /\ pass'[p].fenced = pass[p].fenced /\ \A q \in Pass : q # p => pass'[q] = pass[q]
    BY <1>0, <1>2 DEF LeaveFenced, Passes, Phases
  <2>2. state = "off"
    BY <1>2 DEF LeaveFenced, SchedulerInv, PassesAreKnown
  <2> QED BY <1>0, <1>2, <2>1, <2>2, PassMoves DEF LeaveFenced, SchedulerTypeOK
<1>3. CASE Retried(p)
  BY <1>3, LeaveInv DEF Retried, States, Timers
<1>4. CASE Release(p)
  <2>1. pass' \in [Pass -> Passes] /\ \A q \in Pass : pass'[q].phase = "idle"
    BY <1>0, <1>4 DEF Release, IdlePass, Passes, Phases, SchedulerInv, OnePass
  <2>2. /\ state # "uploading" /\ (~pass[p].fenced => process = "started")
        /\ (pass[p].fenced => state = "off") /\ (pass[p].fenced /\ process = "started" => rerun)
        /\ (process # "started" => timer = "off" /\ state = "off")
        /\ ~pass[p].fenced => /\ state # "paused" => timer # "off"
                              /\ state = "pending" => timer = "soon"
    BY <1>4 DEF Release, SchedulerInv, PassesAreKnown, Settled, QuietUnlessStarted
  <2>3. CASE rerun /\ process # "stopped"
    BY <1>0, <1>4, <2>1, <2>2, <2>3 DEF Release, Arm, SchedulerInv, SchedulerTypeOK, OnePass,
       PassesAreKnown, Settled, QuietUnlessStarted, UploadingIsUnderWay, KeepsGoing,
       StatusIsTrue, Timers
  <2>4. CASE ~(rerun /\ process # "stopped")
    BY <1>0, <1>4, <2>1, <2>2, <2>4 DEF Release, PullForward, Arm, SchedulerInv,
       SchedulerTypeOK, OnePass,
       PassesAreKnown, Settled, QuietUnlessStarted, UploadingIsUnderWay, KeepsGoing,
       StatusIsTrue, Timers, States
  <2> QED BY <2>3, <2>4
<1>5. CASE Deadline(p)
  <2>1. pass' \in [Pass -> Passes] /\ pass'[p].phase = pass[p].phase
      /\ pass'[p].fenced = pass[p].fenced /\ \A q \in Pass : q # p => pass'[q] = pass[q]
    BY <1>0, <1>5 DEF Deadline, Passes
  <2>2. state = "uploading" => pass[p].phase = "uploading"
    BY <1>5 DEF Deadline, SchedulerInv, UploadingIsUnderWay
  <2> QED BY <1>0, <1>5, <2>1, <2>2, PassMoves DEF Deadline, SchedulerTypeOK
<1>6. ASSUME NEW answer \in {"yes", "no", "denied"}, Preferred(p, answer)
      PROVE  SchedulerInv'
  <2>1. CASE answer = "yes"
    <3>1. pass' \in [Pass -> Passes] /\ pass'[p].phase = "uploading"
      /\ pass'[p].fenced = pass[p].fenced /\ \A q \in Pass : q # p => pass'[q] = pass[q]
      BY <1>0, <1>6, <2>1 DEF Preferred, Passes, Phases
    <3> QED BY <1>0, <1>6, <2>1, <3>1, PassMoves DEF Preferred, Counts, SchedulerTypeOK, States
  <2>2. CASE answer # "yes"
    BY <1>6, <2>2, LeaveInv DEF Preferred, Counts, States, Timers
  <2> QED BY <2>1, <2>2
<1>7. ASSUME NEW more \in BOOLEAN, Succeeded(p, more)
      PROVE  SchedulerInv'
  BY <1>7, LeaveInv DEF Succeeded, Counts, States, Timers
<1>8. CASE Halts(p)
  BY <1>8, LeaveInv DEF Halts, Counts, States, Timers
<1> QED BY <1>1, <1>2, <1>3, <1>4, <1>5, <1>6, <1>7, <1>8 DEF PassStep

\* Every pass is fenced, so that none counts any more.
LEMMA FenceInv ==
  ASSUME SchedulerInv, Fence, process' \in {"started", "stopped", "new"}, UNCHANGED pending,
         timer' \in Timers, state' = "off", published' = FALSE, rerun' \in BOOLEAN,
         process' # "started" => timer' = "off",
         process' = "new" => process = "new",
         process' = "started" =>
           IF pending = NoPass THEN timer' # "off" ELSE rerun'
  PROVE  SchedulerInv'
<1>1. pass' \in [Pass -> Passes]
      /\ \A p \in Pass : /\ pass'[p].phase = pass[p].phase
                         /\ pass[p].phase # "idle" => pass'[p].fenced
  BY DEF Fence, SchedulerInv, SchedulerTypeOK, Passes
<1> QED BY <1>1 DEF SchedulerInv, SchedulerTypeOK, OnePass, PassesAreKnown, Settled,
           QuietUnlessStarted, UploadingIsUnderWay, KeepsGoing, StatusIsTrue, States

\* No pass is begun or ends, and the timer comes closer or stays.
LEMMA TimerMoves ==
  ASSUME SchedulerInv, process' = "started", process # "stopped", UNCHANGED <<pending, pass, rerun>>,
         process = "new" => pending = NoPass,
         timer' \in Timers, timer # "off" => timer' # "off", timer = "soon" => timer' = "soon",
         state' \in States, published' \in BOOLEAN,
         pending = NoPass => timer' # "off" \/ process = "started",
         state' = state \/ (state' = "pending" /\ timer' = "soon" /\ pending = NoPass)
  PROVE  SchedulerInv'
<1>1. SchedulerTypeOK' /\ OnePass' /\ QuietUnlessStarted' /\ UploadingIsUnderWay'
  BY DEF SchedulerInv, SchedulerTypeOK, OnePass, QuietUnlessStarted, UploadingIsUnderWay
<1>2. PassesAreKnown'
  <2> SUFFICES ASSUME NEW p \in Pass, pass[p].phase # "idle"
               PROVE  /\ pass[p].fenced => state' = "off" /\ rerun
                      /\ Settled(p) => state' # "uploading"
                      /\ Settled(p) /\ ~pass[p].fenced =>
                           /\ state' # "paused" => timer' # "off"
                           /\ state' = "pending" => timer' = "soon"
    BY DEF PassesAreKnown, Settled
  <2>1. pending = p /\ p # NoPass /\ process = "started" /\ state' = state
    BY DEF SchedulerInv, OnePass, SchedulerTypeOK
  <2> QED BY <2>1 DEF SchedulerInv, PassesAreKnown
<1>3. KeepsGoing' /\ StatusIsTrue'
  BY DEF SchedulerInv, SchedulerTypeOK, OnePass, PassesAreKnown, KeepsGoing, StatusIsTrue,
     QuietUnlessStarted
<1> QED BY <1>1, <1>2, <1>3 DEF SchedulerInv

LEMMA NextSchedulerInv ==
  ASSUME SchedulerInv, [SchedulerNext]_scheduler
  PROVE  SchedulerInv'
<1>0. SchedulerTypeOK /\ QuietUnlessStarted
  BY DEF SchedulerInv
<1>1. CASE StartScheduler
  <2>1. pending = NoPass
    BY <1>0, <1>1 DEF StartScheduler, QuietUnlessStarted
  <2> QED BY <1>0, <1>1, <2>1, TimerMoves DEF StartScheduler, SchedulerTypeOK, Timers
<1>2. CASE ComesCloser
  BY <1>0, <1>2, TimerMoves DEF ComesCloser, SchedulerTypeOK, QuietUnlessStarted, Timers
<1>3. CASE IndexPublished
  <2>1. /\ process = "started" /\ UNCHANGED <<process, pending, pass, rerun>>
        /\ published' \in BOOLEAN
        /\ \/ UNCHANGED <<timer, state>>
           \/ state' = "pending" /\ timer' = "soon" /\ pending = NoPass
    BY <1>0, <1>3 DEF IndexPublished, PullForward, Arm, SchedulerTypeOK
  <2> QED BY <1>0, <2>1, TimerMoves DEF SchedulerTypeOK, Timers, States
<1> USE DEF SchedulerInv, SchedulerTypeOK, OnePass, PassesAreKnown, Settled,
           QuietUnlessStarted, UploadingIsUnderWay, KeepsGoing, StatusIsTrue, Timers, States
<1>4. CASE PreferenceChanged
  <2> timer' \in Timers /\ (process # "started" => timer' = "off")
    BY <1>4 DEF PreferenceChanged, Arm
  <2> process = "started" => IF pending = NoPass THEN timer' # "off" ELSE rerun'
    BY <1>4 DEF PreferenceChanged, Arm
  <2> QED BY <1>4, FenceInv DEF PreferenceChanged
<1>5. CASE StopScheduler
  BY <1>5, FenceInv DEF StopScheduler
<1>6. CASE NewProcess
  BY <1>6 DEF NewProcess, IdlePass, Passes, Phases
<1>7. CASE \E p \in Pass : PassStep(p)
  BY <1>7, PassStepInv
<1>8. CASE UNCHANGED scheduler
  BY <1>8 DEF scheduler
<1> QED BY <1>1, <1>2, <1>3, <1>4, <1>5, <1>6, <1>7, <1>8 DEF SchedulerNext

\* What an index published during a pass comes to.
LEMMA PublicationStep ==
  ASSUME SchedulerInv, [SchedulerNext]_scheduler, published, ~published'
  PROVE  timer' = "soon" \/ rerun' \/ state' \in {"off", "retry_wait", "paused"}
<1>0. /\ state \in States /\ process \in {"new", "started", "stopped"}
      /\ (process # "started" => state = "off")
  BY DEF SchedulerInv, SchedulerTypeOK, QuietUnlessStarted
<1>1. ASSUME NEW p \in Pass, pass[p].phase \in {"asking", "uploading"}, ~pass[p].fenced,
             NEW s, NEW delay, Leave(p, s, delay), s \in {"off", "retry_wait", "paused"}
                                                   \/ delay = "soon"
      PROVE  timer' = "soon" \/ state' \in {"off", "retry_wait", "paused"}
  <2>1. process = "started"
    BY <1>1 DEF SchedulerInv, PassesAreKnown
  <2> QED BY <1>1, <2>1 DEF Leave, Arm
<1>2. ASSUME NEW p \in Pass, PassStep(p)
      PROVE  timer' = "soon" \/ rerun' \/ state' \in {"off", "retry_wait", "paused"}
  <2>1. CASE BeginPass(p) \/ LeaveFenced(p) \/ Deadline(p)
    BY <2>1 DEF BeginPass, LeaveFenced, Deadline
  <2>2. CASE Retried(p)
    BY <1>1, <2>2 DEF Retried
  <2>3. CASE \E answer \in {"yes", "no", "denied"} : Preferred(p, answer)
    BY <1>1, <2>3 DEF Preferred, Counts
  <2>4. CASE \E more \in BOOLEAN : Succeeded(p, more)
    BY <1>1, <2>4 DEF Succeeded, Counts
  <2>5. CASE Halts(p)
    BY <1>1, <2>5 DEF Halts, Counts
  <2>6. CASE Release(p)
    <3>1. state # "uploading"
      BY <2>6 DEF Release, SchedulerInv, PassesAreKnown, Settled
    <3> QED BY <1>0, <2>6, <3>1 DEF Release, PullForward, Arm, States
  <2> QED BY <1>2, <2>1, <2>2, <2>3, <2>4, <2>5, <2>6 DEF PassStep
<1>3. CASE PreferenceChanged \/ StopScheduler \/ NewProcess
  BY <1>3 DEF PreferenceChanged, StopScheduler, NewProcess
<1>4. CASE StartScheduler \/ ComesCloser \/ IndexPublished \/ UNCHANGED scheduler
  BY <1>4 DEF StartScheduler, ComesCloser, IndexPublished, PullForward, scheduler
<1> QED BY <1>2, <1>3, <1>4 DEF SchedulerNext

(***************************************************************************)
(* The theorems.                                                           *)
(***************************************************************************)
\* The inductive invariant holds in every state of the scheduler.
THEOREM SchedulerSpecInv == SchedulerSpec => []SchedulerInv
BY InitSchedulerInv, NextSchedulerInv, PTL DEF SchedulerSpec

\* The types.
THEOREM SchedulerSpecTypeOK == SchedulerSpec => []SchedulerTypeOK
<1> SchedulerInv => SchedulerTypeOK BY DEF SchedulerInv
<1> QED BY SchedulerSpecInv, PTL

\* The scheduler never comes to a stop by itself, however its passes end.
THEOREM SchedulerKeepsGoing == SchedulerSpec => []KeepsGoing
<1> SchedulerInv => KeepsGoing BY DEF SchedulerInv
<1> QED BY SchedulerSpecInv, PTL

\* The status says what the timer waits for.
THEOREM SchedulerStatusIsTrue == SchedulerSpec => []StatusIsTrue
<1> SchedulerInv => StatusIsTrue BY DEF SchedulerInv
<1> QED BY SchedulerSpecInv, PTL

\* An index published during a pass is followed by a pass.
THEOREM SchedulerPublicationIsKept == SchedulerSpec => PublicationIsKept
BY SchedulerSpecInv, PublicationStep, PTL DEF SchedulerSpec, PublicationIsKept

(***************************************************************************)
(* The composed system.  Nothing that the desktop process, the operator or *)
(* the channel does touches the scheduler, but for a fence that arrives;   *)
(* and a pass moves it only by the scheduler's operations for that pass,   *)
(* work that has been abandoned not at all.                                *)
(***************************************************************************)
LEMMA OutsideLeavesScheduler ==
  ASSUME Operator \/ Desktop
  PROVE  UNCHANGED scheduler
<1>1. ASSUME NEW c \in Call, NEW value \in BOOLEAN, CallBegins(c, value)
      PROVE  UNCHANGED scheduler
  BY <1>1 DEF CallBegins
<1>2. ASSUME NEW c \in Call, CallSaves(c) \/ CallFails(c) \/ CallReturns(c) \/ FenceTimesOut(c)
      PROVE  UNCHANGED scheduler
  BY <1>2 DEF CallSaves, CallFails, CallReturns, CallEnds, FenceTimesOut
<1>3. CASE Desktop
  BY <1>3 DEF Desktop, ParentReceives, Authorizes, FetchesSecret, StoresSecret
<1> QED BY <1>1, <1>2, <1>3 DEF Operator

LEMMA PassWorkIsScheduled ==
  ASSUME NEW p \in Pass, PassWork(p)
  PROVE  PassStep(p) \/ UNCHANGED scheduler
<1>1. CASE PassBegins(p)
  BY <1>1 DEF PassBegins, PassStep
<1>2. CASE PassDecides(p)
  <2>1. CASE LeaveFenced(p) \/ Retried(p)
    BY <2>1 DEF PassStep
  <2>2. CASE Preferred(p, ask[p])
    <3>1. ask[p] \in {"yes", "no", "denied"}
      BY <2>2 DEF Preferred
    <3> QED BY <2>2, <3>1 DEF PassStep
  <2> QED BY <1>2, <2>1, <2>2 DEF PassDecides
<1>3. CASE Abandons(p)
  BY <1>3 DEF Abandons, PassStep
<1>4. CASE PassReleases(p) \/ PassTimesOut(p)
  BY <1>4 DEF PassReleases, PassTimesOut, PassStep
<1>5. CASE WorkerEnds(p)
  BY <1>5 DEF WorkerEnds, PassStep
<1>6. CASE WorkerAsks(p) \/ Sends(p) \/ HasSecret(p) \/ Binds(p) \/ Bound(p)
  BY <1>6 DEF WorkerAsks, Sends, HasSecret, Binds, Bound
<1> QED BY <1>1, <1>2, <1>3, <1>4, <1>5, <1>6 DEF PassWork

LEMMA SharingStepsSchedule ==
  ASSUME [SharingNext]_sharing
  PROVE  [SchedulerNext]_scheduler
<1>1. CASE Operator \/ Desktop
  BY <1>1, OutsideLeavesScheduler
<1>2. CASE ChildReceives
  BY <1>2 DEF ChildReceives, ChildInvalidated, ChildAnswered, SchedulerNext
<1>3. ASSUME NEW c \in Client, RequestTimesOut(c)
      PROVE  UNCHANGED scheduler
  BY <1>3 DEF RequestTimesOut
<1>4. ASSUME NEW p \in Pass, PassWork(p)
      PROVE  [SchedulerNext]_scheduler
  BY <1>4, PassWorkIsScheduled DEF SchedulerNext
<1>5. CASE Starts \/ Stops \/ Disposes \/ CompanionExits \/ TimePasses \/ Publishes
  BY <1>5 DEF Starts, Stops, Disposes, CompanionExits, TimePasses, Publishes, SchedulerNext
<1>6. CASE UNCHANGED sharing
  BY <1>6 DEF sharing
<1> QED BY <1>1, <1>2, <1>3, <1>4, <1>5, <1>6 DEF SharingNext, Companion

\* Fences, crashes, abandoned work and timeouts move the scheduler only by
\* operations of its own.
THEOREM SharingImplementsScheduler == SharingSpec => ImplementsScheduler
<1>1. SharingInit => SchedulerInit
  BY DEF SharingInit
<1> QED BY <1>1, SharingStepsSchedule, PTL DEF SharingSpec, ImplementsScheduler, SchedulerSpec

\* Sharing never comes to a stop by itself, whatever its passes are told.
THEOREM SharingKeepsGoing == SharingSpec => []KeepsGoing
BY SharingImplementsScheduler, SchedulerKeepsGoing, PTL DEF ImplementsScheduler

\* An index published during a pass is followed by a pass, whatever the desktop
\* process answers meanwhile.
THEOREM SharingPublicationIsKept == SharingSpec => PublicationIsKept
BY SharingImplementsScheduler, SchedulerPublicationIsKept, PTL DEF ImplementsScheduler

(***************************************************************************)
(* Messages and queues.  Whatever happens to a queue, its messages are     *)
(* messages it held, in their order, at most one of them taken from the    *)
(* front and some of them readdressed to Nobody, and at most one new one   *)
(* behind them.                                                            *)
(***************************************************************************)
LEMMA MessageTypes ==
  /\ \A m \in ToChild :
       /\ m.kind \in {"response", "invalidate"} /\ m.to \in Client \cup Call \cup {Nobody}
       /\ m.kind = "response" => m.to \in Client \cup {Nobody} /\ m.what \in Answers
       /\ m.kind = "invalidate" => m.to \in Call \cup {Nobody} /\ m.what = "fence"
       /\ m = [kind |-> m.kind, to |-> m.to, what |-> m.what]
       /\ [m EXCEPT !.to = Nobody] \in ToChild
  /\ \A m \in ToParent :
       /\ m.kind \in {"request", "invalidated"} /\ m.to \in Client \cup Call \cup {Nobody}
       /\ m.kind = "request" => m.to \in Client \cup {Nobody} /\ m.what \in Ops
       /\ m.kind = "invalidated" => m.to \in Call \cup {Nobody} /\ m.what = "fence"
       /\ m = [kind |-> m.kind, to |-> m.to, what |-> m.what]
       /\ [m EXCEPT !.to = Nobody] \in ToParent
BY DEF ToChild, ToParent, Response, Invalidate, Request, Invalidated

LEMMA MessageFields ==
  /\ \A c, a : LET m == Response(c, a) IN m.kind = "response" /\ m.to = c /\ m.what = a
  /\ \A c, op : LET m == Request(c, op) IN m.kind = "request" /\ m.to = c /\ m.what = op
  /\ \A c : LET m == Invalidate(c) IN m.kind = "invalidate" /\ m.to = c /\ m.what = "fence"
  /\ \A c : LET m == Invalidated(c) IN m.kind = "invalidated" /\ m.to = c /\ m.what = "fence"
BY DEF Response, Request, Invalidate, Invalidated

LEMMA MessagesSent ==
  /\ \A c \in Client \cup {Nobody} : \A a \in Answers : Response(c, a) \in ToChild
  /\ \A c \in Call \cup {Nobody} : Invalidate(c) \in ToChild /\ Invalidated(c) \in ToParent
  /\ \A c \in Client \cup {Nobody} : \A op \in Ops : Request(c, op) \in ToParent
BY DEF ToChild, ToParent

\* n is m, or m readdressed.
Same(m, n) == n.kind = m.kind /\ n.what = m.what /\ n.to \in {m.to, Nobody}

\* r is what has become of q: d messages are gone from its front, and a message
\* of M may stand at its end.
Carries(q, r, d, M) ==
  \A i \in DOMAIN r :
    \/ i + d \in DOMAIN q /\ Same(q[i + d], r[i])
    \/ i = Len(r) /\ r[i] \in M

LEMMA AppendIsCarried ==
  ASSUME NEW S, NEW q \in Seq(S), NEW m \in S
  PROVE  /\ Append(q, m) \in Seq(S) /\ Carries(q, Append(q, m), 0, {m})
         /\ DOMAIN q = 1..Len(q) /\ DOMAIN Append(q, m) = 1..(Len(q) + 1)
         /\ \A i \in DOMAIN q : Append(q, m)[i] = q[i]
         /\ Append(q, m)[Len(q) + 1] = m /\ Len(q) \in Nat
BY DEF Carries, Same

LEMMA TailIsCarried ==
  ASSUME NEW S, NEW q \in Seq(S), q # <<>>
  PROVE  /\ Tail(q) \in Seq(S) /\ Carries(q, Tail(q), 1, {})
         /\ Head(q) = q[1] /\ 1 \in DOMAIN q
         /\ \A i \in DOMAIN Tail(q) : i + 1 \in DOMAIN q /\ i + 1 # 1 /\ Tail(q)[i] = q[i + 1]
BY DEF Carries, Same

LEMMA StaysCarried ==
  ASSUME NEW S, NEW q \in Seq(S)
  PROVE  Carries(q, q, 0, {}) /\ DOMAIN q = 1..Len(q)
BY DEF Carries, Same

\* Forgetting a set of parties.
LEMMA ForgetsIsCarried ==
  ASSUME NEW who, NEW q, q \in Seq(ToChild) \/ q \in Seq(ToParent)
  PROVE  /\ q \in Seq(ToChild) => Forgets(q, who) \in Seq(ToChild)
         /\ q \in Seq(ToParent) => Forgets(q, who) \in Seq(ToParent)
         /\ Carries(q, Forgets(q, who), 0, {})
         /\ DOMAIN Forgets(q, who) \subseteq DOMAIN q
         /\ \A i \in DOMAIN Forgets(q, who) :
              /\ Same(q[i], Forgets(q, who)[i])
              /\ Forgets(q, who)[i].to = IF q[i].to \in who THEN Nobody ELSE q[i].to
              /\ q[i].to \notin who => Forgets(q, who)[i] = q[i]
<1> DEFINE F == Forgets(q, who)
           n == IF EndsIdly(q, who) THEN Len(q) - 1 ELSE Len(q)
<1>1. \A i \in 1..n : F[i] = IF q[i].to \in who THEN [q[i] EXCEPT !.to = Nobody] ELSE q[i]
  BY DEF Forgets
<1>2. /\ DOMAIN q = 1..Len(q) /\ Len(q) \in Nat /\ DOMAIN F = 1..n
      /\ n \in Nat /\ 1..n \subseteq DOMAIN q
  BY DEF Forgets, EndsIdly
<1>3. F = [i \in 1..n |-> F[i]]
  BY DEF Forgets
<1> HIDE DEF F, n
<1>4. q \in Seq(ToChild) => \A i \in 1..n : q[i] \in ToChild /\ F[i] \in ToChild
  BY <1>1, <1>2, MessageTypes
<1>5. q \in Seq(ToParent) => \A i \in 1..n : q[i] \in ToParent /\ F[i] \in ToParent
  BY <1>1, <1>2, MessageTypes
<1>6. \A i \in 1..n : /\ F[i].kind = q[i].kind /\ F[i].what = q[i].what
                      /\ F[i].to = IF q[i].to \in who THEN Nobody ELSE q[i].to
  <2> SUFFICES ASSUME NEW i \in 1..n
               PROVE  /\ F[i].kind = q[i].kind /\ F[i].what = q[i].what
                      /\ F[i].to = IF q[i].to \in who THEN Nobody ELSE q[i].to
    OBVIOUS
  <2>1. q[i] = [kind |-> q[i].kind, to |-> q[i].to, what |-> q[i].what]
    BY <1>2, <1>4, <1>5, MessageTypes
  <2>2. [q[i] EXCEPT !.to = Nobody] = [kind |-> q[i].kind, to |-> Nobody, what |-> q[i].what]
    BY <2>1
  <2> QED BY <1>1, <2>1, <2>2
<1>7. /\ q \in Seq(ToChild) => F \in Seq(ToChild)
      /\ q \in Seq(ToParent) => F \in Seq(ToParent)
  <2>1. ASSUME NEW S, \A i \in 1..n : F[i] \in S
        PROVE  F \in Seq(S)
    BY <1>2, <1>3, <2>1
  <2> QED BY <1>4, <1>5, <2>1
<1> QED BY <1>1, <1>2, <1>6, <1>7 DEF Carries, Same, F

LEMMA ForgottenIsNotNamed ==
  ASSUME NEW who, NEW q, q \in Seq(ToChild) \/ q \in Seq(ToParent), NEW c \in who, c # Nobody
  PROVE  \A i \in DOMAIN Forgets(q, who) : Forgets(q, who)[i].to # c
<1>1. \A i \in DOMAIN Forgets(q, who) : Forgets(q, who)[i].to = IF q[i].to \in who THEN Nobody ELSE q[i].to
  BY ForgetsIsCarried
<1> QED BY <1>1

(***************************************************************************)
(* Types.                                                                  *)
(***************************************************************************)
LEMMA AskTypes ==
  ASSUME SharingTypeOK
  PROVE  /\ \A c \in Client, a \in {"none"} \cup Ops \cup Answers :
              [ask EXCEPT ![c] = a] \in [Client -> {"none"} \cup Ops \cup Answers]
         /\ \A p \in Pass, w \in {"none", "working", "clearing", "fetching", "binding", "removing"} :
              [worker EXCEPT ![p] = w]
                \in [Pass -> {"none", "working", "clearing", "fetching", "binding", "removing"}]
         /\ [serving EXCEPT !.client = Nobody] \in Servings
         /\ NoServing \in Servings
BY DEF SharingTypeOK, Servings, NoServing, Ops

\* A client that asks, and one that is answered.
LEMMA AsksType ==
  ASSUME SharingTypeOK, NEW c \in Client, NEW op \in Ops, Asks(c, op)
  PROVE  /\ ask' \in [Client -> {"none"} \cup Ops \cup Answers]
         /\ toChild' \in Seq(ToChild) /\ toParent' \in Seq(ToParent)
<1>1. "retry" \in Answers /\ Request(c, op) \in ToParent
  BY MessagesSent DEF Answers
<1>2. Append(toParent, Request(c, op)) \in Seq(ToParent)
  BY <1>1, AppendIsCarried DEF SharingTypeOK
<1>3. \A a \in {"none"} \cup Ops \cup Answers :
        [ask EXCEPT ![c] = a] \in [Client -> {"none"} \cup Ops \cup Answers]
  BY AskTypes
<1>4. ask' \in [Client -> {"none"} \cup Ops \cup Answers]
  BY <1>1, <1>3 DEF Asks
<1>5. toChild' \in Seq(ToChild) /\ toParent' \in Seq(ToParent)
  BY <1>2 DEF Asks, SharingTypeOK
<1> QED BY <1>4, <1>5

LEMMA AnsweredType ==
  ASSUME SharingTypeOK, NEW a \in Answers, Answered(a)
  PROVE  toChild' \in Seq(ToChild) /\ serving' \in Servings
<1>1. serving.client # Nobody => Response(serving.client, a) \in ToChild
  BY MessagesSent DEF SharingTypeOK, Servings
<1>2. serving.client # Nobody => Append(toChild, Response(serving.client, a)) \in Seq(ToChild)
  BY <1>1, AppendIsCarried DEF SharingTypeOK
<1> QED BY <1>2, AskTypes DEF Answered, Replies, SharingTypeOK

LEMMA OperatorType ==
  ASSUME SharingTypeOK, Operator
  PROVE  SharingTypeOK'
<1>0. UNCHANGED scheduler
  BY OutsideLeavesScheduler
<1>1. SchedulerTypeOK'
  BY <1>0 DEF SharingTypeOK, SchedulerTypeOK, scheduler
<1>2. \A s \in BOOLEAN : [serving EXCEPT !.stale = s] \in Servings
  BY DEF SharingTypeOK, Servings
<1>3. GrowsStale => serving' \in Servings
  BY <1>2 DEF GrowsStale
<1>4. \A c \in Call, r \in Calls : [call EXCEPT ![c] = r] \in [Call -> Calls]
  BY DEF SharingTypeOK
<1>5. \A c \in Call : call[c] \in Calls
  BY DEF SharingTypeOK
<1>6. ASSUME NEW c \in Call, NEW value \in BOOLEAN, CallBegins(c, value)
      PROVE  SharingTypeOK'
  <2>1. toChild' \in Seq(ToChild)
    BY <1>6, MessagesSent, AppendIsCarried DEF CallBegins, SharingTypeOK
  <2>2. [phase |-> "saving", value |-> value, fence |-> "open"] \in Calls
    BY DEF Calls
  <2> QED BY <1>1, <1>3, <1>4, <1>6, <2>1, <2>2 DEF CallBegins, SharingTypeOK, companion
<1>7. ASSUME NEW c \in Call, CallSaves(c)
      PROVE  SharingTypeOK'
  <2>1. [call[c] EXCEPT !.phase = "waiting"] \in Calls
    BY <1>5 DEF Calls
  <2>2. call' \in [Call -> Calls]
    BY <1>4, <1>7, <2>1 DEF CallSaves
  <2> QED BY <1>1, <1>7, <2>2 DEF CallSaves, SharingTypeOK, companion, broker
<1>8. ASSUME NEW c \in Call, NEW off \in BOOLEAN, CallEnds(c, off),
             preference' \in {"on", "off", "unavailable"}
      PROVE  SharingTypeOK'
  <2>1. IdleCall \in Calls
    BY DEF IdleCall, Calls
  <2>2. toChild' \in Seq(ToChild) /\ toParent' \in Seq(ToParent)
    BY <1>8, MessagesSent, AppendIsCarried, ForgetsIsCarried DEF CallEnds, SharingTypeOK
  <2> QED BY <1>1, <1>3, <1>4, <1>8, <2>1, <2>2 DEF CallEnds, SharingTypeOK, companion
<1>9. ASSUME NEW c \in Call, CallFails(c) \/ CallReturns(c)
      PROVE  SharingTypeOK'
  <2>1. call[c].value \in BOOLEAN
    BY <1>5 DEF Calls
  <2> QED BY <1>8, <1>9, <2>1 DEF CallFails, CallReturns, SharingTypeOK
<1>10. ASSUME NEW c \in Call, FenceTimesOut(c)
      PROVE  SharingTypeOK'
  <2>1. [call[c] EXCEPT !.fence = "failed"] \in Calls
    BY <1>5 DEF Calls
  <2>2. toChild' \in Seq(ToChild) /\ toParent' \in Seq(ToParent)
    BY <1>10, ForgetsIsCarried DEF FenceTimesOut, SharingTypeOK
  <2>3. call' \in [Call -> Calls]
    BY <1>4, <1>10, <2>1 DEF FenceTimesOut
  <2> QED BY <1>1, <1>10, <2>2, <2>3 DEF FenceTimesOut, SharingTypeOK, companion, broker
<1> QED BY <1>6, <1>7, <1>9, <1>10 DEF Operator

LEMMA DesktopType ==
  ASSUME SharingTypeOK, Desktop
  PROVE  SharingTypeOK'
<1>0. UNCHANGED scheduler
  BY OutsideLeavesScheduler
<1>1. SchedulerTypeOK'
  BY <1>0 DEF SharingTypeOK, SchedulerTypeOK, scheduler
<1>2. CASE ParentReceives
  <2>1. toParent' \in Seq(ToParent) /\ Head(toParent) \in ToParent
    BY <1>2, TailIsCarried DEF ParentReceives, SharingTypeOK
  <2>2. CASE Acknowledged(Head(toParent))
    <3>1. \A c \in Call : [call[c] EXCEPT !.fence = "passed"] \in Calls
      BY DEF SharingTypeOK, Calls
    <3>2. call' \in [Call -> Calls]
      BY <2>2, <3>1 DEF Acknowledged, SharingTypeOK
    <3> QED BY <1>1, <1>2, <2>1, <2>2, <3>2 DEF ParentReceives, Acknowledged, SharingTypeOK, companion
  <2>3. CASE Requested(Head(toParent))
    <3>1. Head(toParent).to \in Client \cup {Nobody} /\ Head(toParent).what \in Ops
      BY <2>1, <2>3, MessageTypes DEF Requested
    <3>2. [client |-> Head(toParent).to, op |-> Head(toParent).what, step |-> "authorizing",
           stale |-> FALSE] \in Servings
      BY <3>1 DEF Servings
    <3>3. Append(toChild, Response(Head(toParent).to, "retry")) \in Seq(ToChild)
      <4>1. Response(Head(toParent).to, "retry") \in ToChild
        BY <3>1, MessagesSent DEF Answers
      <4> QED BY <4>1, AppendIsCarried DEF SharingTypeOK
    <3>4. toChild' \in Seq(ToChild) /\ serving' \in Servings
      BY <2>3, <3>2, <3>3 DEF Requested, Replies, SharingTypeOK
    <3> QED BY <1>1, <1>2, <2>1, <2>3, <3>4 DEF ParentReceives, Requested, SharingTypeOK, companion
  <2> QED BY <1>2, <2>2, <2>3 DEF ParentReceives
<1>3. CASE Authorizes
  <2>1. Authorization \in Answers /\ "denied" \in Answers
    BY DEF Authorization, Answers
  <2>2. \A s \in {"authorizing", "fetching", "storing"} : [serving EXCEPT !.step = s] \in Servings
    BY DEF SharingTypeOK, Servings
  <2>3. toChild' \in Seq(ToChild) /\ serving' \in Servings
    BY <1>3, <2>1, <2>2, AnsweredType DEF Authorizes, SharingTypeOK
  <2> QED BY <1>1, <1>3, <2>3 DEF Authorizes, SharingTypeOK, companion, desktop
<1>4. CASE FetchesSecret \/ StoresSecret
  <2>1. {"denied", "yes", "absent", "retry", "uncertain"} \subseteq Answers
    BY DEF Answers
  <2>2. toChild' \in Seq(ToChild) /\ serving' \in Servings
    BY <1>4, <2>1, AnsweredType DEF FetchesSecret, StoresSecret
  <2>3. secret' \in BOOLEAN
    BY <1>4 DEF FetchesSecret, StoresSecret, SharingTypeOK
  <2> QED BY <1>1, <1>4, <2>2, <2>3 DEF FetchesSecret, StoresSecret, SharingTypeOK, companion, desktop
<1> QED BY <1>2, <1>3, <1>4 DEF Desktop

LEMMA PassWorkType ==
  ASSUME SharingTypeOK, SchedulerTypeOK', NEW p \in Pass, PassWork(p)
  PROVE  SharingTypeOK'
<1>0. p \in Client /\ {"preference", "read"} \subseteq Ops /\ {"yes", "retry"} \subseteq Answers
  BY SharingConstants DEF Ops, Answers
<1>1. CASE PassBegins(p)
  BY <1>0, <1>1, AsksType DEF PassBegins, Undisturbed, desktop, broker, SharingTypeOK
<1>2. CASE PassDecides(p)
  BY <1>0, <1>2, AskTypes
     DEF PassDecides, Becomes, AskTaken, Undisturbed, desktop, broker, SharingTypeOK
<1>3. CASE Abandons(p)
  <2>1. /\ ask' \in [Client -> {"none"} \cup Ops \cup Answers] /\ serving' \in Servings
        /\ toChild' \in Seq(ToChild) /\ toParent' \in Seq(ToParent)
    <3>1. Forgets(toChild, {p}) \in Seq(ToChild) /\ Forgets(toParent, {p}) \in Seq(ToParent)
      BY ForgetsIsCarried DEF SharingTypeOK
    <3>2. [serving EXCEPT !.client = Nobody] \in Servings
          /\ [ask EXCEPT ![p] = "none"] \in [Client -> {"none"} \cup Ops \cup Answers]
      BY <1>0, AskTypes
    <3> QED BY <1>3, <3>1, <3>2 DEF Abandons, SharingTypeOK
  <2> QED BY <1>3, <2>1 DEF Abandons, desktop, SharingTypeOK
<1>4. CASE PassReleases(p) \/ PassTimesOut(p)
  BY <1>4 DEF PassReleases, PassTimesOut, desktop, broker, companion, SharingTypeOK
<1>5. CASE WorkerAsks(p)
  BY <1>0, <1>5, AskTypes, AsksType
     DEF WorkerAsks, Becomes, Undisturbed, desktop, broker, SharingTypeOK
<1>6. CASE Sends(p) \/ HasSecret(p) \/ Bound(p)
  BY <1>0, <1>6, AskTypes
     DEF Sends, HasSecret, Bound, Becomes, AskTaken, Undisturbed, desktop, broker, SharingTypeOK
<1>7. CASE Binds(p)
  <2>1. Append(toParent, Request(p, "create")) \in Seq(ToParent)
    BY <1>0, MessagesSent, AppendIsCarried DEF SharingTypeOK, Ops
  <2>2. "create" \in Ops
    BY DEF Ops
  <2>3. /\ ask' \in [Client -> {"none"} \cup Ops \cup Answers]
        /\ toParent' \in Seq(ToParent)
    <3>1. \A a \in {"create", "retry"} :
            [ask EXCEPT ![p] = a] \in [Client -> {"none"} \cup Ops \cup Answers]
      BY <1>0, <2>2, AskTypes
    <3> QED BY <1>7, <2>1, <3>1 DEF Binds, SharingTypeOK
  <2> QED BY <1>7, <2>3, AskTypes DEF Binds, Becomes, desktop, broker, SharingTypeOK
<1>8. CASE WorkerEnds(p)
  BY <1>0, <1>8, AskTypes DEF WorkerEnds, Becomes, desktop, broker, SharingTypeOK
<1> QED BY <1>1, <1>2, <1>3, <1>4, <1>5, <1>6, <1>7, <1>8 DEF PassWork

LEMMA CompanionType ==
  ASSUME SharingTypeOK, SchedulerTypeOK', Companion
  PROVE  SharingTypeOK'
<1>0. {"denied", "retry", "uncertain"} \subseteq Answers /\ \A c \in Client : ask[c] \in {"none"} \cup Ops \cup Answers
  BY DEF Answers, SharingTypeOK
<1>1. CASE ChildReceives
  <2>1. Head(toChild) \in ToChild /\ Tail(toChild) \in Seq(ToChild)
    BY <1>1, TailIsCarried DEF ChildReceives, SharingTypeOK
  <2>2. CASE ChildInvalidated(Head(toChild))
    <3>1. Head(toChild).to \in Call \cup {Nobody}
      BY <2>1, <2>2, MessageTypes DEF ChildInvalidated
    <3>2. Append(toParent, Invalidated(Head(toChild).to)) \in Seq(ToParent)
      BY <3>1, MessagesSent, AppendIsCarried DEF SharingTypeOK
    <3>3. toChild' \in Seq(ToChild) /\ toParent' \in Seq(ToParent)
      <4>1. \A q \in Seq(ToChild) : \A who : Forgets(q, who) \in Seq(ToChild)
        BY ForgetsIsCarried
      <4>2. \A q \in Seq(ToParent) : \A who : Forgets(q, who) \in Seq(ToParent)
        BY ForgetsIsCarried
      <4> QED BY <2>1, <2>2, <3>2, <4>1, <4>2 DEF ChildInvalidated
    <3>4. serving' \in Servings /\ ask' \in [Client -> {"none"} \cup Ops \cup Answers]
      BY <1>0, <2>2, AskTypes DEF ChildInvalidated, SharingTypeOK
    <3> QED BY <1>1, <3>3, <3>4 DEF ChildReceives, desktop, SharingTypeOK
  <2>3. CASE ChildAnswered(Head(toChild))
    <3>1. Head(toChild).what \in Answers
      BY <2>1, <2>3, MessageTypes DEF ChildAnswered
    <3>2. ask' \in [Client -> {"none"} \cup Ops \cup Answers]
      BY <1>0, <2>3, <3>1 DEF ChildAnswered
    <3> QED BY <1>1, <2>1, <2>3, <3>2 DEF ChildReceives, ChildAnswered, desktop, SharingTypeOK
  <2>4. CASE closed /\ toChild' = Tail(toChild) /\ UNCHANGED <<ask, toParent, serving>>
    BY <1>1, <2>1, <2>4 DEF ChildReceives, desktop, SharingTypeOK
  <2> QED BY <1>1, <2>2, <2>3, <2>4 DEF ChildReceives
<1>2. ASSUME NEW c \in Client, RequestTimesOut(c)
      PROVE  SharingTypeOK'
  <2>1. /\ ask' \in [Client -> {"none"} \cup Ops \cup Answers] /\ serving' \in Servings
        /\ toChild' \in Seq(ToChild) /\ toParent' \in Seq(ToParent)
    BY <1>0, <1>2, AskTypes, ForgetsIsCarried DEF RequestTimesOut, SharingTypeOK
  <2> QED BY <1>2, <2>1 DEF RequestTimesOut, desktop, SharingTypeOK
<1>3. ASSUME NEW p \in Pass, PassWork(p)
      PROVE  SharingTypeOK'
  BY <1>3, PassWorkType
<1>4. CASE Starts \/ Stops \/ TimePasses \/ Publishes
  BY <1>4 DEF Starts, Stops, TimePasses, Publishes, Alone, desktop, broker, companion, SharingTypeOK
<1>5. CASE Disposes
  <2>1. toChild' \in Seq(ToChild) /\ toParent' \in Seq(ToParent)
    BY <1>5, ForgetsIsCarried DEF Disposes, SharingTypeOK
  <2>2. ask' \in [Client -> {"none"} \cup Ops \cup Answers] /\ serving' \in Servings
    BY <1>0, <1>5, AskTypes DEF Disposes, SharingTypeOK
  <2> QED BY <1>5, <2>1, <2>2 DEF Disposes, desktop, SharingTypeOK
<1>6. CASE CompanionExits
  <2>1. \A c \in Call : [call[c] EXCEPT !.fence = "failed"] \in Calls
    BY DEF SharingTypeOK, Calls
  <2>2. call' \in [Call -> Calls]
    BY <1>6, <2>1 DEF CompanionExits, SharingTypeOK
  <2>3. toChild' \in Seq(ToChild) /\ toParent' \in Seq(ToParent) /\ serving' \in Servings
    BY <1>6, AskTypes DEF CompanionExits
  <2> QED BY <1>6, <2>2, <2>3 DEF CompanionExits, SharingTypeOK
<1> QED BY <1>1, <1>2, <1>3, <1>4, <1>5, <1>6 DEF Companion

LEMMA SharingTypeStep ==
  ASSUME SharingTypeOK, SchedulerInv, [SharingNext]_sharing
  PROVE  SharingTypeOK'
<1>1. SchedulerTypeOK'
  BY SharingStepsSchedule, NextSchedulerInv DEF SchedulerInv
<1>2. CASE UNCHANGED sharing
  BY <1>1, <1>2 DEF sharing, desktop, broker, companion, SharingTypeOK
<1> QED BY <1>1, <1>2, OperatorType, DesktopType, CompanionType DEF SharingNext

(***************************************************************************)
(* The channel.  Whoever is named in a message is waiting for its answer,  *)
(* and is named once: nobody has two requests, or two fences, under way.   *)
(***************************************************************************)
Waits(c) == call[c].phase # "idle" /\ call[c].fence = "open"

\* A fence on its way, or its acknowledgement, is that of a change under way.
FencesAreAwaited ==
  /\ \A i \in DOMAIN toChild : toChild[i].to \in Call => Waits(toChild[i].to)
  /\ \A i \in DOMAIN toParent : toParent[i].to \in Call => Waits(toParent[i].to)

\* A request is what its client still asks; an answer finds it asking.
RequestsAreAwaited ==
  /\ \A i \in DOMAIN toParent : toParent[i].to \in Client =>
       ask[toParent[i].to] = toParent[i].what
  /\ serving.client \in Client => ask[serving.client] = serving.op
  /\ \A i \in DOMAIN toChild : toChild[i].to \in Client => ask[toChild[i].to] \in Ops

\* Wherever it is, there is one message, or one request served, for each name.
OneAtATime ==
  /\ \A i, j \in DOMAIN toParent :
       toParent[i].to = toParent[j].to /\ toParent[i].to # Nobody => i = j
  /\ \A i, j \in DOMAIN toChild :
       toChild[i].to = toChild[j].to /\ toChild[i].to # Nobody => i = j
  /\ \A i \in DOMAIN toParent, j \in DOMAIN toChild :
       toParent[i].to = toChild[j].to => toParent[i].to = Nobody
  /\ serving.client # Nobody =>
       /\ \A i \in DOMAIN toParent : toParent[i].to # serving.client
       /\ \A i \in DOMAIN toChild : toChild[i].to # serving.client

\* What the desktop fetches or stores is what it was asked to.
ServingIsSound ==
  /\ serving.op = "none" => serving = NoServing
  /\ serving.step = "fetching" => serving.op = "read"
  /\ serving.step = "storing" => serving.op = "create"

ChannelInv == FencesAreAwaited /\ RequestsAreAwaited /\ OneAtATime /\ ServingIsSound

\* Not named once so many messages have been taken from the front.
Free(c, d, e) ==
  /\ \A i \in DOMAIN toChild : i > d => toChild[i].to # c
  /\ \A i \in DOMAIN toParent : i > e => toParent[i].to # c

\* Named by a new message, if at all.
Only(r, M, c) == \A i \in DOMAIN r : r[i].to = c => r[i] \in M

LEMMA CarriedNames ==
  ASSUME NEW S, NEW q \in Seq(S), NEW r \in Seq(S), NEW d \in {0, 1}, NEW M, Carries(q, r, d, M)
  PROVE  \A i \in DOMAIN r :
           /\ i \in Nat /\ i > 0
           /\ \/ /\ i + d \in DOMAIN q /\ i + d > d
                 /\ r[i].kind = q[i + d].kind /\ r[i].what = q[i + d].what
                 /\ r[i].to = q[i + d].to \/ r[i].to = Nobody
              \/ i = Len(r) /\ r[i] \in M
BY DEF Carries, Same

LEMMA OneAtATimeMoves ==
  ASSUME SharingTypeOK, SharingTypeOK', OneAtATime,
         NEW d \in {0, 1}, NEW e \in {0, 1}, NEW M, NEW N,
         Carries(toChild, toChild', d, M), Carries(toParent, toParent', e, N),
         M = {} \/ N = {},
         \A m \in M \cup N : m.to = Nobody \/ (Free(m.to, d, e) /\ serving'.client # m.to),
         serving'.client \in {serving.client, Nobody} \/ Free(serving'.client, d, e)
  PROVE  OneAtATime'
<1> DEFINE OldC(i) == /\ i + d \in DOMAIN toChild /\ i + d > d
                      /\ toChild'[i].to = toChild[i + d].to \/ toChild'[i].to = Nobody
           OldP(i) == /\ i + e \in DOMAIN toParent /\ i + e > e
                      /\ toParent'[i].to = toParent[i + e].to \/ toParent'[i].to = Nobody
<1>1. \A i \in DOMAIN toChild' : i \in Nat /\ (OldC(i) \/ (i = Len(toChild') /\ toChild'[i] \in M))
  BY CarriedNames DEF SharingTypeOK
<1>2. \A i \in DOMAIN toParent' : i \in Nat /\ (OldP(i) \/ (i = Len(toParent') /\ toParent'[i] \in N))
  BY CarriedNames DEF SharingTypeOK
<1>3. ASSUME NEW i \in DOMAIN toParent', NEW j \in DOMAIN toParent',
             toParent'[i].to = toParent'[j].to, toParent'[i].to # Nobody
      PROVE  i = j
  <2>1. CASE OldP(i) /\ OldP(j)
    BY <1>2, <1>3, <2>1 DEF OneAtATime
  <2>2. CASE OldP(i) /\ toParent'[j] \in N
    BY <1>2, <1>3, <2>2 DEF Free
  <2>3. CASE OldP(j) /\ toParent'[i] \in N
    BY <1>2, <1>3, <2>3 DEF Free
  <2> QED BY <1>2, <2>1, <2>2, <2>3
<1>4. ASSUME NEW i \in DOMAIN toChild', NEW j \in DOMAIN toChild',
             toChild'[i].to = toChild'[j].to, toChild'[i].to # Nobody
      PROVE  i = j
  <2>1. CASE OldC(i) /\ OldC(j)
    BY <1>1, <1>4, <2>1 DEF OneAtATime
  <2>2. CASE OldC(i) /\ toChild'[j] \in M
    BY <1>1, <1>4, <2>2 DEF Free
  <2>3. CASE OldC(j) /\ toChild'[i] \in M
    BY <1>1, <1>4, <2>3 DEF Free
  <2> QED BY <1>1, <2>1, <2>2, <2>3
<1>5. ASSUME NEW i \in DOMAIN toParent', NEW j \in DOMAIN toChild',
             toParent'[i].to = toChild'[j].to
      PROVE  toParent'[i].to = Nobody
  <2>1. CASE OldP(i) /\ OldC(j)
    BY <1>5, <2>1 DEF OneAtATime
  <2>2. CASE OldP(i) /\ toChild'[j] \in M
    BY <1>5, <2>2 DEF Free
  <2>3. CASE OldC(j) /\ toParent'[i] \in N
    BY <1>5, <2>3 DEF Free
  <2> QED BY <1>1, <1>2, <2>1, <2>2, <2>3
<1>6. ASSUME serving'.client # Nobody
      PROVE  /\ \A i \in DOMAIN toParent' : toParent'[i].to # serving'.client
             /\ \A i \in DOMAIN toChild' : toChild'[i].to # serving'.client
  <2>1. CASE serving'.client = serving.client
    BY <1>1, <1>2, <1>6, <2>1 DEF OneAtATime
  <2>2. CASE Free(serving'.client, d, e)
    BY <1>1, <1>2, <1>6, <2>2 DEF Free
  <2> QED BY <1>6, <2>1, <2>2
<1> QED BY <1>3, <1>4, <1>5, <1>6 DEF OneAtATime

LEMMA AwaitedMoves ==
  ASSUME SharingTypeOK, SharingTypeOK', FencesAreAwaited, RequestsAreAwaited,
         NEW d \in {0, 1}, NEW e \in {0, 1}, NEW M, NEW N,
         Carries(toChild, toChild', d, M), Carries(toParent, toParent', e, N),
         \A m \in M \cup N : m.to \in Call => Waits(m.to)',
         \A c \in Call : \/ Waits(c) => Waits(c)'
                         \/ Only(toChild', M, c) /\ Only(toParent', N, c),
         \A m \in M : m.to \in Client => ask'[m.to] \in Ops,
         \A m \in N : m.to \in Client => ask'[m.to] = m.what,
         serving'.client \in Client =>
           \/ ask'[serving'.client] = serving'.op
           \/ /\ serving'.client = serving.client /\ serving'.op = serving.op
              /\ ask'[serving.client] = ask[serving.client],
         \A c \in Client : \/ ask'[c] = ask[c]
                           \/ Only(toChild', M, c) /\ Only(toParent', N, c)
  PROVE  FencesAreAwaited' /\ RequestsAreAwaited'
<1>0. Nobody \notin Client \cup Call
  BY SharingConstants
<1>1. \A i \in DOMAIN toChild' :
        \/ toChild'[i] \in M \/ toChild'[i].to = Nobody
        \/ i + d \in DOMAIN toChild /\ toChild'[i].to = toChild[i + d].to
  BY CarriedNames DEF SharingTypeOK
<1>2. \A i \in DOMAIN toParent' :
        \/ toParent'[i] \in N \/ toParent'[i].to = Nobody
        \/ /\ i + e \in DOMAIN toParent /\ toParent'[i].to = toParent[i + e].to
           /\ toParent'[i].what = toParent[i + e].what
  BY CarriedNames DEF SharingTypeOK
<1>3. \A i \in DOMAIN toChild', c \in Call : toChild'[i].to = c => Waits(c)'
  <2> SUFFICES ASSUME NEW i \in DOMAIN toChild', NEW c \in Call, toChild'[i].to = c
               PROVE  Waits(c)'
    OBVIOUS
  <2>1. CASE toChild'[i] \in M
    BY <2>1 DEF Waits
  <2>2. CASE toChild'[i] \notin M
    <3>1. i + d \in DOMAIN toChild /\ toChild[i + d].to = c
      BY <1>0, <1>1, <2>2
    <3>2. Waits(c)
      BY <3>1 DEF FencesAreAwaited
    <3> QED BY <2>2, <3>2 DEF Only
  <2> QED BY <2>1, <2>2
<1>4. \A i \in DOMAIN toParent', c \in Call : toParent'[i].to = c => Waits(c)'
  <2> SUFFICES ASSUME NEW i \in DOMAIN toParent', NEW c \in Call, toParent'[i].to = c
               PROVE  Waits(c)'
    OBVIOUS
  <2>1. CASE toParent'[i] \in N
    BY <2>1 DEF Waits
  <2>2. CASE toParent'[i] \notin N
    <3>1. i + e \in DOMAIN toParent /\ toParent[i + e].to = c
      BY <1>0, <1>2, <2>2
    <3>2. Waits(c)
      BY <3>1 DEF FencesAreAwaited
    <3> QED BY <2>2, <3>2 DEF Only
  <2> QED BY <2>1, <2>2
<1>5. FencesAreAwaited'
  BY <1>3, <1>4 DEF FencesAreAwaited, Waits
<1>6. \A i \in DOMAIN toParent' : toParent'[i].to \in Client =>
        ask'[toParent'[i].to] = toParent'[i].what
  BY <1>0, <1>2 DEF RequestsAreAwaited, Only
<1>7. \A i \in DOMAIN toChild' : toChild'[i].to \in Client => ask'[toChild'[i].to] \in Ops
  BY <1>0, <1>1 DEF RequestsAreAwaited, Only
<1>8. serving'.client \in Client => ask'[serving'.client] = serving'.op
  BY DEF RequestsAreAwaited
<1>9. RequestsAreAwaited'
  BY <1>6, <1>7, <1>8 DEF RequestsAreAwaited
<1> QED BY <1>5, <1>9

\* What is being handled goes on, stale or for nobody.
ServingStays ==
  serving' \in {serving, [serving EXCEPT !.client = Nobody],
                [serving EXCEPT !.stale = serving.op # "none"]}

LEMMA ServingStaysSound ==
  ASSUME SharingTypeOK, ServingIsSound, ServingStays
  PROVE  /\ ServingIsSound' /\ serving'.client \in {serving.client, Nobody}
         /\ serving'.op = serving.op
<1>1. /\ serving'.client \in {serving.client, Nobody} /\ serving'.op = serving.op
      /\ serving'.step = serving.step
      /\ serving.op = "none" => serving' = serving
  BY DEF ServingStays, SharingTypeOK, Servings, ServingIsSound, NoServing
<1> QED BY <1>1 DEF ServingIsSound

\* Who waits for nothing on the channel is not named.
LEMMA NotNamed ==
  ASSUME SharingTypeOK, ChannelInv
  PROVE  /\ \A c \in Client : ask[c] \notin Ops => Free(c, 0, 0) /\ serving.client # c
         /\ \A c \in Call : ~Waits(c) => Free(c, 0, 0) /\ serving.client # c
<1>1. serving.client \in Client \cup {Nobody} /\ serving.op \in Ops \cup {"none"}
  BY DEF SharingTypeOK, Servings
<1>2. \A i \in DOMAIN toParent : toParent[i] \in ToParent
  BY DEF SharingTypeOK
<1>3. \A i \in DOMAIN toParent : toParent[i].to \in Client => toParent[i].what \in Ops
  BY <1>2, MessageTypes, SharingConstants
<1>4. serving.client \in Client => serving.op \in Ops
  BY <1>1, SharingConstants DEF ChannelInv, ServingIsSound, NoServing
<1>5. \A c \in Client : ask[c] \notin Ops => Free(c, 0, 0) /\ serving.client # c
  BY <1>3, <1>4 DEF ChannelInv, RequestsAreAwaited, Free
<1>6. \A c \in Call : ~Waits(c) => Free(c, 0, 0) /\ serving.client # c
  BY <1>1, SharingConstants DEF ChannelInv, FencesAreAwaited, Free
<1> QED BY <1>5, <1>6

LEMMA ChannelStays ==
  ASSUME SharingTypeOK, SharingTypeOK', ChannelInv, UNCHANGED <<toChild, toParent>>,
         ServingStays, \A c \in Call : Waits(c) => Waits(c)',
         \A c \in Client : ask'[c] = ask[c] \/ ask[c] \notin Ops
  PROVE  ChannelInv'
<1>1. Carries(toChild, toChild', 0, {}) /\ Carries(toParent, toParent', 0, {})
  BY StaysCarried DEF SharingTypeOK
<1>2. ServingIsSound' /\ serving'.client \in {serving.client, Nobody} /\ serving'.op = serving.op
  BY ServingStaysSound DEF ChannelInv
<1>3. \A c \in Client : \/ ask'[c] = ask[c]
                        \/ Only(toChild', {}, c) /\ Only(toParent', {}, c) /\ serving'.client # c
  BY <1>2, NotNamed, SharingConstants DEF Free, Only, SharingTypeOK
<1>4. OneAtATime'
  BY <1>1, <1>2, OneAtATimeMoves DEF ChannelInv
<1>5. FencesAreAwaited' /\ RequestsAreAwaited'
  BY <1>1, <1>2, <1>3, AwaitedMoves, SharingConstants DEF ChannelInv
<1> QED BY <1>2, <1>4, <1>5 DEF ChannelInv

\* Some give up what they wait for.
LEMMA ChannelForgets ==
  ASSUME SharingTypeOK, SharingTypeOK', ChannelInv, NEW who,
         toChild' = Forgets(toChild, who), toParent' = Forgets(toParent, who),
         ServingStays, serving'.client \notin who,
         \A c \in Call : c \in who \/ (Waits(c) => Waits(c)'),
         \A c \in Client : c \in who \/ ask'[c] = ask[c]
  PROVE  ChannelInv'
<1>0. Nobody \notin Client \cup Call
  BY SharingConstants
<1>1. Carries(toChild, toChild', 0, {}) /\ Carries(toParent, toParent', 0, {})
  BY ForgetsIsCarried DEF SharingTypeOK
<1>2. ServingIsSound' /\ serving'.client \in {serving.client, Nobody} /\ serving'.op = serving.op
  BY ServingStaysSound DEF ChannelInv
<1>3. \A c \in who : c # Nobody => Only(toChild', {}, c) /\ Only(toParent', {}, c)
  BY ForgottenIsNotNamed DEF Only, SharingTypeOK
<1>4. OneAtATime'
  BY <1>1, <1>2, OneAtATimeMoves DEF ChannelInv
<1>5. FencesAreAwaited' /\ RequestsAreAwaited'
  BY <1>0, <1>1, <1>2, <1>3, AwaitedMoves DEF ChannelInv
<1> QED BY <1>2, <1>4, <1>5 DEF ChannelInv

\* A change that is over is forgotten.
LEMMA CallEndsCarries ==
  ASSUME SharingTypeOK, NEW c \in Call, NEW off, CallEnds(c, off)
  PROVE  /\ Carries(toChild, toChild', 0, {Invalidate(Nobody)})
         /\ Carries(toParent, toParent', 0, {})
         /\ Only(toChild', {Invalidate(Nobody)}, c) /\ Only(toParent', {}, c)
<1> DEFINE q == Forgets(toChild, {c})
<1>0. Nobody \notin Client \cup Call
  BY SharingConstants
<1>1. /\ q \in Seq(ToChild) /\ Carries(toChild, q, 0, {})
      /\ Forgets(toParent, {c}) \in Seq(ToParent)
      /\ Carries(toParent, Forgets(toParent, {c}), 0, {})
  BY ForgetsIsCarried DEF SharingTypeOK
<1>2. \A i \in DOMAIN q : q[i].to # c
  BY <1>0, ForgottenIsNotNamed DEF SharingTypeOK
<1>3. \A i \in DOMAIN Forgets(toParent, {c}) : Forgets(toParent, {c})[i].to # c
  BY <1>0, ForgottenIsNotNamed DEF SharingTypeOK
<1> HIDE DEF q
<1>4. toChild' = Append(q, Invalidate(Nobody))
  BY DEF CallEnds, q
<1>5. \A i \in DOMAIN toChild' : \/ i \in DOMAIN q /\ toChild'[i] = q[i]
                                 \/ i = Len(toChild') /\ toChild'[i] = Invalidate(Nobody)
  <2>1. Invalidate(Nobody) \in ToChild
    BY MessagesSent
  <2>2. /\ DOMAIN Append(q, Invalidate(Nobody)) = 1..(Len(q) + 1) /\ DOMAIN q = 1..Len(q)
        /\ \A i \in DOMAIN q : Append(q, Invalidate(Nobody))[i] = q[i]
        /\ Append(q, Invalidate(Nobody))[Len(q) + 1] = Invalidate(Nobody) /\ Len(q) \in Nat
        /\ Len(Append(q, Invalidate(Nobody))) = Len(q) + 1
    BY <1>1, <2>1, AppendIsCarried
  <2> QED BY <1>4, <2>2
<1>6. Carries(toChild, toChild', 0, {Invalidate(Nobody)})
  BY <1>1, <1>5 DEF Carries
<1> QED BY <1>1, <1>2, <1>3, <1>5, <1>6 DEF Only, CallEnds

LEMMA OperatorChannel ==
  ASSUME SharingTypeOK, SharingTypeOK', ChannelInv, Operator
  PROVE  ChannelInv'
<1>0. Nobody \notin Client \cup Call /\ Client \cap Call = {} /\ call \in [Call -> Calls]
  BY SharingConstants DEF SharingTypeOK
<1>1. ASSUME NEW c \in Call, NEW value \in BOOLEAN, CallBegins(c, value)
      PROVE  ChannelInv'
  <2>1. Carries(toChild, toChild', 0, {Invalidate(c)}) /\ Carries(toParent, toParent', 0, {})
    BY <1>1, MessagesSent, AppendIsCarried, StaysCarried DEF CallBegins, SharingTypeOK
  <2>2. ServingIsSound' /\ serving'.client \in {serving.client, Nobody} /\ serving'.op = serving.op
    BY <1>1, ServingStaysSound DEF ChannelInv, ServingStays, CallBegins, GrowsStale
  <2>3. Free(c, 0, 0) /\ serving'.client # c /\ Invalidate(c).to = c
    BY <1>0, <1>1, <2>2, NotNamed, MessageFields DEF CallBegins, Waits
  <2>4. Waits(c)' /\ \A x \in Call : x # c => (Waits(x) => Waits(x)')
    BY <1>0, <1>1 DEF CallBegins, Waits
  <2>5. OneAtATime'
    BY <2>1, <2>2, <2>3, OneAtATimeMoves DEF ChannelInv
  <2>6. FencesAreAwaited' /\ RequestsAreAwaited'
    BY <1>0, <1>1, <2>1, <2>2, <2>3, <2>4, AwaitedMoves DEF ChannelInv, CallBegins, companion
  <2> QED BY <2>2, <2>5, <2>6 DEF ChannelInv
<1>2. ASSUME NEW c \in Call, CallSaves(c)
      PROVE  ChannelInv'
  <2>1. \A x \in Call : Waits(x) => Waits(x)'
    BY <1>0, <1>2 DEF CallSaves, Waits, Calls
  <2> QED BY <1>2, <2>1, ChannelStays DEF CallSaves, broker, companion, ServingStays
<1>3. ASSUME NEW c \in Call, NEW off, CallEnds(c, off)
      PROVE  ChannelInv'
  <2>1. /\ Carries(toChild, toChild', 0, {Invalidate(Nobody)})
        /\ Carries(toParent, toParent', 0, {})
        /\ Only(toChild', {Invalidate(Nobody)}, c) /\ Only(toParent', {}, c)
    BY <1>3, CallEndsCarries
  <2>2. ServingIsSound' /\ serving'.client \in {serving.client, Nobody} /\ serving'.op = serving.op
    BY <1>3, ServingStaysSound DEF ChannelInv, ServingStays, CallEnds, GrowsStale
  <2>3. \A x \in Call : x # c => (Waits(x) => Waits(x)')
    BY <1>0, <1>3 DEF CallEnds, Waits
  <2>4. OneAtATime'
    BY <2>1, <2>2, MessageFields, OneAtATimeMoves DEF ChannelInv
  <2>5. FencesAreAwaited' /\ RequestsAreAwaited'
    <3>1. ask' = ask /\ \A m \in {Invalidate(Nobody)} : m.to \notin Client \cup Call
      BY <1>0, <1>3, MessageFields DEF CallEnds, companion
    <3>2. \A x \in Call : \/ Waits(x) => Waits(x)'
                          \/ Only(toChild', {Invalidate(Nobody)}, x) /\ Only(toParent', {}, x)
      BY <2>1, <2>3
    <3>3. /\ \A m \in {Invalidate(Nobody)} \cup {} : m.to \in Call => Waits(m.to)'
          /\ \A m \in {Invalidate(Nobody)} : m.to \in Client => ask'[m.to] \in Ops
          /\ \A m \in {} : m.to \in Client => ask'[m.to] = m.what
      BY <3>1
    <3>4. serving'.client \in Client =>
            /\ serving'.client = serving.client /\ serving'.op = serving.op
            /\ ask'[serving.client] = ask[serving.client]
      BY <1>0, <2>2, <3>1
    <3>5. \A x \in Client : ask'[x] = ask[x]
      BY <3>1
    <3>6. FencesAreAwaited /\ RequestsAreAwaited
      BY DEF ChannelInv
    <3> QED BY ONLY SharingTypeOK, SharingTypeOK', <2>1, <3>2, <3>3, <3>4, <3>5, <3>6, AwaitedMoves
  <2> QED BY <2>2, <2>4, <2>5 DEF ChannelInv
<1>4. ASSUME NEW c \in Call, CallFails(c) \/ CallReturns(c)
      PROVE  ChannelInv'
  BY <1>3, <1>4 DEF CallFails, CallReturns
<1>5. ASSUME NEW c \in Call, FenceTimesOut(c)
      PROVE  ChannelInv'
  <2>1. \A x \in Call : x # c => (Waits(x) => Waits(x)')
    BY <1>0, <1>5 DEF FenceTimesOut, Waits
  <2>2. serving'.client # c /\ serving' = serving
    BY <1>0, <1>5 DEF FenceTimesOut, broker, SharingTypeOK, Servings
  <2> QED BY <1>0, <1>5, <2>1, <2>2, ChannelForgets
          DEF FenceTimesOut, broker, companion, ServingStays
<1> QED BY <1>1, <1>2, <1>4, <1>5 DEF Operator

\* The first message of the companion, and those behind it.
LEMMA FirstOfParent ==
  ASSUME SharingTypeOK, OneAtATime, toParent # <<>>, toParent' = Tail(toParent)
  PROVE  /\ Carries(toParent, toParent', 1, {}) /\ Head(toParent) \in ToParent
         /\ Head(toParent) = toParent[1] /\ 1 \in DOMAIN toParent
         /\ Head(toParent).to # Nobody =>
              /\ Free(Head(toParent).to, 0, 1) /\ serving.client # Head(toParent).to
              /\ \A M : Only(toParent', M, Head(toParent).to)
<1>1. /\ Carries(toParent, toParent', 1, {})
      /\ Head(toParent) = toParent[1] /\ 1 \in DOMAIN toParent
      /\ \A i \in DOMAIN toParent' : i + 1 \in DOMAIN toParent /\ i + 1 # 1 /\ toParent'[i] = toParent[i + 1]
  BY TailIsCarried DEF SharingTypeOK
<1>2. Head(toParent) \in ToParent
  BY <1>1 DEF SharingTypeOK
<1>3. ASSUME Head(toParent).to # Nobody
      PROVE  /\ Free(Head(toParent).to, 0, 1) /\ serving.client # Head(toParent).to
             /\ \A M : Only(toParent', M, Head(toParent).to)
  BY <1>1, <1>3 DEF OneAtATime, Free, Only, SharingTypeOK
<1> QED BY <1>1, <1>2, <1>3

LEMMA AnsweredChannel ==
  ASSUME SharingTypeOK, SharingTypeOK', ChannelInv, NEW a \in Answers, Answered(a), serving.op # "none",
         UNCHANGED <<call, ask, toParent>>
  PROVE  ChannelInv'
<1> DEFINE M == IF serving.client = Nobody THEN {} ELSE {Response(serving.client, a)}
<1>0. Nobody \notin Client \cup Call /\ Client \cap Call = {}
      /\ serving.client \in Client \cup {Nobody} /\ serving.op \in Ops
  BY SharingConstants DEF SharingTypeOK, Servings
<1>1. Carries(toChild, toChild', 0, M) /\ Carries(toParent, toParent', 0, {})
  <2>1. Carries(toChild, toChild', 0, M)
    BY <1>0, MessagesSent, AppendIsCarried, StaysCarried DEF Answered, Replies, SharingTypeOK
  <2> QED BY <2>1, StaysCarried DEF SharingTypeOK
<1>2. \A m \in M : m.to = serving.client /\ m.to \in Client
  BY <1>0, MessageFields
<1> HIDE DEF M
<1>3. serving'.client = Nobody /\ ServingIsSound' /\ serving'.op = "none"
  BY DEF Answered, NoServing, ServingIsSound
<1>4. serving.client # Nobody => Free(serving.client, 0, 0) /\ ask[serving.client] = serving.op
  BY <1>0 DEF ChannelInv, OneAtATime, RequestsAreAwaited, Free
<1>5. OneAtATime'
  BY <1>0, <1>1, <1>2, <1>3, <1>4, OneAtATimeMoves DEF ChannelInv
<1>6. FencesAreAwaited' /\ RequestsAreAwaited'
  <2>1. /\ \A m \in M \cup {} : m.to \in Call => Waits(m.to)'
        /\ \A m \in M : m.to \in Client => ask'[m.to] \in Ops
        /\ \A m \in {} : m.to \in Client => ask'[m.to] = m.what
        /\ serving'.client \notin Client
    BY <1>0, <1>2, <1>3, <1>4
  <2>2. /\ \A x \in Call : Waits(x) => Waits(x)'
        /\ \A x \in Client : ask'[x] = ask[x]
    BY DEF Waits
  <2>3. FencesAreAwaited /\ RequestsAreAwaited
    BY DEF ChannelInv
  <2> QED BY ONLY SharingTypeOK, SharingTypeOK', <1>1, <2>1, <2>2, <2>3, AwaitedMoves
<1> QED BY <1>3, <1>5, <1>6 DEF ChannelInv

LEMMA ReceivesChannel ==
  ASSUME SharingTypeOK, SharingTypeOK', ChannelInv, ParentReceives
  PROVE  ChannelInv'
<1> DEFINE m == Head(toParent)
<1>0. /\ Nobody \notin Client \cup Call /\ Client \cap Call = {}
      /\ FencesAreAwaited /\ RequestsAreAwaited /\ OneAtATime /\ ServingIsSound
      /\ toParent # <<>> /\ toParent' = Tail(toParent) /\ ask' = ask
  BY SharingConstants DEF ChannelInv, ParentReceives, companion
<1>1. /\ Carries(toParent, toParent', 1, {}) /\ m \in ToParent /\ m = toParent[1] /\ 1 \in DOMAIN toParent
      /\ m.to # Nobody => /\ Free(m.to, 0, 1) /\ serving.client # m.to
                          /\ \A M : Only(toParent', M, m.to)
  BY <1>0, FirstOfParent
<1> HIDE DEF m
<1>2. CASE Acknowledged(m)
  <2>1. Carries(toChild, toChild', 0, {}) /\ serving' = serving
    BY <1>2, StaysCarried DEF Acknowledged, SharingTypeOK
  <2>2. ASSUME NEW c \in Call
        PROVE  m.to # c => (Waits(c) => Waits(c)')
    BY <1>2 DEF Acknowledged, Waits, SharingTypeOK, Calls
  <2>3. \A c \in Call : \/ Waits(c) => Waits(c)'
                        \/ Only(toChild', {}, c) /\ Only(toParent', {}, c)
    <3>1. toChild' = toChild /\ \A i \in DOMAIN toChild : i > 0
      BY <1>2 DEF Acknowledged, SharingTypeOK
    <3>2. m.to \in Call => Only(toChild', {}, m.to) /\ Only(toParent', {}, m.to)
      BY <1>0, <1>1, <3>1 DEF Free, Only
    <3>3. ASSUME NEW c \in Call, m.to = c
          PROVE  Only(toChild', {}, c) /\ Only(toParent', {}, c)
      BY <3>2, <3>3
    <3> QED BY <2>2, <3>3
  <2>4. OneAtATime'
    BY <1>0, <1>1, <2>1, OneAtATimeMoves
  <2>5. FencesAreAwaited' /\ RequestsAreAwaited'
    <3>1. /\ \A n \in {} \cup {} : n.to \in Call => Waits(n.to)'
          /\ \A n \in {} : n.to \in Client => ask'[n.to] \in Ops
          /\ \A n \in {} : n.to \in Client => ask'[n.to] = n.what
          /\ serving'.client = serving.client /\ serving'.op = serving.op
          /\ \A c \in Client : ask'[c] = ask[c]
          /\ serving'.client \in Client => ask'[serving.client] = ask[serving.client]
      BY <1>0, <2>1
    <3> QED BY ONLY SharingTypeOK, SharingTypeOK', <1>0, <1>1, <2>1, <2>3, <3>1, AwaitedMoves
  <2>6. ServingIsSound'
    BY <1>0, <2>1 DEF ServingIsSound
  <2> QED BY <2>4, <2>5, <2>6 DEF ChannelInv
<1>3. CASE Requested(m)
  <2>0. /\ m.to \in Client \cup {Nobody} /\ m.what \in Ops /\ \A c \in Call : Waits(c)' = Waits(c)
        /\ m.to \in Client => ask[m.to] = m.what
    BY <1>0, <1>1, <1>3, MessageTypes DEF Requested, Waits, RequestsAreAwaited
  <2>1. CASE serving.op # "none"
    <3> DEFINE M == IF m.to = Nobody THEN {} ELSE {Response(m.to, "retry")}
    <3>1. Carries(toChild, toChild', 0, M) /\ serving' = serving
      <4>1. m.to # Nobody => Response(m.to, "retry") \in ToChild
        BY <2>0, MessagesSent DEF Answers
      <4>2. m.to # Nobody => Carries(toChild, Append(toChild, Response(m.to, "retry")), 0, {Response(m.to, "retry")})
        BY <4>1, AppendIsCarried DEF SharingTypeOK
      <4>3. Carries(toChild, toChild, 0, {})
        BY StaysCarried DEF SharingTypeOK
      <4> QED BY <1>3, <2>1, <4>2, <4>3 DEF Requested, Replies
    <3>2. \A n \in M : n.to = m.to /\ n.to \in Client
      BY <2>0, MessageFields
    <3> HIDE DEF M
    <3>3. OneAtATime'
      BY <1>0, <1>1, <2>0, <3>1, <3>2, OneAtATimeMoves
    <3>4. /\ \A n \in M \cup {} : n.to \in Call => Waits(n.to)'
          /\ \A n \in M : n.to \in Client => ask'[n.to] \in Ops
          /\ \A n \in {} : n.to \in Client => ask'[n.to] = n.what
      BY <1>0, <2>0, <3>2
    <3>5. FencesAreAwaited' /\ RequestsAreAwaited'
      BY <1>0, <1>1, <2>0, <3>1, <3>4, AwaitedMoves
    <3> QED BY <1>0, <3>1, <3>3, <3>5 DEF ChannelInv, ServingIsSound
  <2>2. CASE serving.op = "none"
    <3>1. /\ Carries(toChild, toChild', 0, {}) /\ serving'.client = m.to /\ serving'.op = m.what
          /\ serving'.step = "authorizing"
      BY <1>3, <2>2, StaysCarried DEF Requested, SharingTypeOK
    <3>2. OneAtATime'
      BY <1>0, <1>1, <3>1, OneAtATimeMoves
    <3>3. FencesAreAwaited' /\ RequestsAreAwaited'
      BY <1>0, <1>1, <2>0, <3>1, AwaitedMoves
    <3>4. ServingIsSound'
      BY <2>0, <3>1 DEF ServingIsSound, Ops
    <3> QED BY <3>2, <3>3, <3>4 DEF ChannelInv
  <2> QED BY <2>1, <2>2
<1> QED BY <1>2, <1>3 DEF ParentReceives, m

LEMMA DesktopChannel ==
  ASSUME SharingTypeOK, SharingTypeOK', ChannelInv, Desktop
  PROVE  ChannelInv'
<1>1. CASE Authorizes
  <2>1. UNCHANGED <<call, ask, toParent>> /\ Authorization \in Answers /\ "denied" \in Answers
    BY <1>1 DEF Authorizes, Authorization, Answers, desktop, companion
  <2>2. CASE \E a \in Answers : Answered(a)
    BY <1>1, <2>1, <2>2, AnsweredChannel DEF Authorizes
  <2>3. CASE /\ serving.op # "preference" /\ UNCHANGED toChild
             /\ serving' = [serving EXCEPT !.step =
                              IF serving.op = "read" THEN "fetching" ELSE "storing"]
    <3>1. /\ serving'.client = serving.client /\ serving'.op = serving.op /\ serving.op # "none"
          /\ serving'.step = IF serving.op = "read" THEN "fetching" ELSE "storing"
          /\ serving.op \in {"read", "create"}
      BY <1>1, <2>3 DEF SharingTypeOK, Servings, Authorizes, Ops
    <3>2. ServingIsSound'
      BY <3>1 DEF ServingIsSound
    <3>3. OneAtATime' /\ FencesAreAwaited' /\ RequestsAreAwaited'
      BY <2>1, <2>3, <3>1 DEF ChannelInv, OneAtATime, FencesAreAwaited, RequestsAreAwaited, Waits
    <3> QED BY <3>2, <3>3 DEF ChannelInv
  <2> QED BY <1>1, <2>1, <2>2, <2>3 DEF Authorizes
<1>2. CASE FetchesSecret \/ StoresSecret
  <2>1. UNCHANGED <<call, ask, toParent>> /\ {"denied", "yes", "absent", "retry", "uncertain"} \subseteq Answers
    BY <1>2 DEF FetchesSecret, StoresSecret, Answers, desktop, companion
  <2>2. serving.op # "none"
    BY <1>2 DEF FetchesSecret, StoresSecret, ChannelInv, ServingIsSound
  <2>3. \E a \in Answers : Answered(a)
    BY <1>2, <2>1 DEF FetchesSecret, StoresSecret
  <2> QED BY <2>1, <2>2, <2>3, AnsweredChannel
<1> QED BY <1>1, <1>2, ReceivesChannel DEF Desktop

\* What the work of a pass has asked, given up or not.
WorkersAreAwaited ==
  \A p \in Pass :
    /\ pass[p].phase = "asking" => worker[p] = "none"
    /\ worker[p] \in {"working", "removing"} => ask[p] = "none"
    /\ worker[p] = "clearing" => ask[p] \in {"preference"} \cup Answers
    /\ worker[p] = "fetching" => ask[p] \in {"read"} \cup Answers
    /\ worker[p] = "binding" => ask[p] \in {"create"} \cup Answers

LEMMA NotAsked == "none" \notin Ops /\ Ops \cap Answers = {} /\ "none" \notin Answers
BY DEF Ops, Answers

\* A client asks that waited for nothing on the channel.
LEMMA AsksChannel ==
  ASSUME SharingTypeOK, SharingTypeOK', ChannelInv, NEW c \in Client, NEW op \in Ops,
         ask[c] \notin Ops, UNCHANGED <<call, serving, toChild>>,
         \/ ask' = [ask EXCEPT ![c] = op] /\ toParent' = Append(toParent, Request(c, op))
         \/ \E a \in Answers : ask' = [ask EXCEPT ![c] = a] /\ UNCHANGED toParent
  PROVE  ChannelInv'
<1>1. CASE \E a \in Answers : ask' = [ask EXCEPT ![c] = a] /\ UNCHANGED toParent
  BY <1>1, ChannelStays DEF ServingStays, Waits, SharingTypeOK
<1>2. CASE ask' = [ask EXCEPT ![c] = op] /\ toParent' = Append(toParent, Request(c, op))
  <2> DEFINE N == {Request(c, op)}
  <2>0. Nobody \notin Client \cup Call /\ Client \cap Call = {}
        /\ FencesAreAwaited /\ RequestsAreAwaited /\ OneAtATime /\ ServingIsSound
    BY SharingConstants DEF ChannelInv
  <2>1. Carries(toChild, toChild', 0, {}) /\ Carries(toParent, toParent', 0, N)
    BY <1>2, MessagesSent, AppendIsCarried, StaysCarried DEF SharingTypeOK
  <2>2. \A n \in N : n.to = c /\ n.what = op
    BY MessageFields
  <2>3. Free(c, 0, 0) /\ serving.client # c
    BY NotNamed
  <2>4. ask'[c] = op /\ \A x \in Client : x # c => ask'[x] = ask[x]
    BY <1>2 DEF SharingTypeOK
  <2>5. Only(toChild', {}, c) /\ Only(toParent', N, c)
    BY <1>2, <2>3, MessagesSent, AppendIsCarried DEF Free, Only, SharingTypeOK
  <2> HIDE DEF N
  <2>6. OneAtATime'
    BY <2>0, <2>1, <2>2, <2>3, OneAtATimeMoves
  <2>7. FencesAreAwaited' /\ RequestsAreAwaited'
    <3>1. /\ \A n \in {} \cup N : n.to \in Call => Waits(n.to)'
          /\ \A n \in {} : n.to \in Client => ask'[n.to] \in Ops
          /\ \A n \in N : n.to \in Client => ask'[n.to] = n.what
          /\ serving'.client = serving.client /\ serving'.op = serving.op
          /\ serving'.client \in Client => ask'[serving.client] = ask[serving.client]
      BY <2>0, <2>2, <2>3, <2>4
    <3>2. /\ \A x \in Client : \/ ask'[x] = ask[x]
                               \/ Only(toChild', {}, x) /\ Only(toParent', N, x)
          /\ \A x \in Call : Waits(x) => Waits(x)'
      BY <2>4, <2>5 DEF Waits
    <3> QED BY ONLY SharingTypeOK, SharingTypeOK', <2>0, <2>1, <3>1, <3>2, AwaitedMoves
  <2> QED BY <2>0, <2>6, <2>7 DEF ChannelInv, ServingIsSound
<1> QED BY <1>1, <1>2

\* The first message of the desktop process, and those behind it.
LEMMA FirstOfChild ==
  ASSUME SharingTypeOK, OneAtATime, toChild # <<>>
  PROVE  /\ Tail(toChild) \in Seq(ToChild) /\ Carries(toChild, Tail(toChild), 1, {})
         /\ Head(toChild) \in ToChild /\ Head(toChild) = toChild[1] /\ 1 \in DOMAIN toChild
         /\ \A i \in DOMAIN Tail(toChild) :
              /\ i + 1 \in DOMAIN toChild /\ Tail(toChild)[i] = toChild[i + 1]
              /\ Head(toChild).to # Nobody => Tail(toChild)[i].to # Head(toChild).to
         /\ Head(toChild).to # Nobody =>
              /\ Free(Head(toChild).to, 1, 0) /\ serving.client # Head(toChild).to
<1>1. /\ Tail(toChild) \in Seq(ToChild) /\ Carries(toChild, Tail(toChild), 1, {})
      /\ Head(toChild) = toChild[1] /\ 1 \in DOMAIN toChild
      /\ \A i \in DOMAIN Tail(toChild) :
           i + 1 \in DOMAIN toChild /\ i + 1 # 1 /\ Tail(toChild)[i] = toChild[i + 1]
  BY TailIsCarried DEF SharingTypeOK
<1>2. Head(toChild) \in ToChild
  BY <1>1 DEF SharingTypeOK
<1>3. ASSUME Head(toChild).to # Nobody
      PROVE  /\ Free(Head(toChild).to, 1, 0) /\ serving.client # Head(toChild).to
             /\ \A i \in DOMAIN Tail(toChild) : Tail(toChild)[i].to # Head(toChild).to
  BY <1>1, <1>3 DEF OneAtATime, Free, SharingTypeOK
<1> QED BY <1>1, <1>2, <1>3

LEMMA AnswerArrives ==
  ASSUME SharingTypeOK, SharingTypeOK', ChannelInv, toChild # <<>>, toChild' = Tail(toChild),
         UNCHANGED <<call, serving, toParent>>,
         \A c \in Client : ask'[c] = ask[c] \/ Head(toChild).to = c
  PROVE  ChannelInv'
<1>0. Nobody \notin Client \cup Call /\ Client \cap Call = {}
      /\ FencesAreAwaited /\ RequestsAreAwaited /\ OneAtATime /\ ServingIsSound
  BY SharingConstants DEF ChannelInv
<1>1. Carries(toChild, toChild', 1, {}) /\ Carries(toParent, toParent', 0, {})
  BY <1>0, FirstOfChild, StaysCarried DEF SharingTypeOK
<1>2. \A c \in Client : \/ ask'[c] = ask[c]
                        \/ Only(toChild', {}, c) /\ Only(toParent', {}, c) /\ serving'.client # c
  <2> SUFFICES ASSUME NEW c \in Client, Head(toChild).to = c
               PROVE  Only(toChild', {}, c) /\ Only(toParent', {}, c) /\ serving'.client # c
    OBVIOUS
  <2>1. c # Nobody
    BY <1>0
  <2>2. toParent' = toParent /\ \A i \in DOMAIN toParent : i > 0
    BY DEF SharingTypeOK
  <2> QED BY <1>0, <2>1, <2>2, FirstOfChild DEF Only, Free
<1>3. OneAtATime'
  BY <1>0, <1>1, OneAtATimeMoves
<1>4. FencesAreAwaited' /\ RequestsAreAwaited'
  <2>1. /\ \A n \in {} \cup {} : n.to \in Call => Waits(n.to)'
        /\ \A n \in {} : n.to \in Client => ask'[n.to] \in Ops
        /\ \A n \in {} : n.to \in Client => ask'[n.to] = n.what
        /\ serving'.client = serving.client /\ serving'.op = serving.op
        /\ serving'.client \in Client => ask'[serving.client] = ask[serving.client]
        /\ \A x \in Call : Waits(x) => Waits(x)'
    BY <1>2 DEF Waits
  <2> QED BY ONLY SharingTypeOK, SharingTypeOK', <1>0, <1>1, <1>2, <2>1, AwaitedMoves
<1> QED BY <1>0, <1>3, <1>4 DEF ChannelInv, ServingIsSound

\* The fence is passed on, and what was asked is forgotten.
LEMMA FenceIsPassedOn ==
  ASSUME SharingTypeOK, OneAtATime, toChild # <<>>, ChildInvalidated(Head(toChild))
  PROVE  /\ Head(toChild).to \in Call \cup {Nobody}
         /\ Carries(toChild, toChild', 1, {})
         /\ Carries(toParent, toParent', 0, {Invalidated(Head(toChild).to)})
         /\ \A c \in Client : ask[c] \in {"preference", "read"} =>
              /\ Only(toChild', {}, c)
              /\ Only(toParent', {Invalidated(Head(toChild).to)}, c)
<1> DEFINE m == Head(toChild)
           asking == {c \in Client : ask[c] \in {"preference", "read"}}
           N == {Invalidated(m.to)}
           q == Append(toParent, Invalidated(m.to))
           r == Tail(toChild)
<1>0. Nobody \notin Client \cup Call /\ Client \cap Call = {} /\ asking \subseteq Client
  BY SharingConstants
<1>1. m.to \in Call \cup {Nobody}
  BY FirstOfChild, MessageTypes DEF ChildInvalidated
<1>2. toChild' = Forgets(r, asking) /\ toParent' = Forgets(q, asking)
  BY DEF ChildInvalidated
<1>3. \A n \in N : n.to = m.to
  BY MessageFields
<1>4. r \in Seq(ToChild) /\ Carries(toChild, r, 1, {})
  BY FirstOfChild
<1>5. /\ q \in Seq(ToParent) /\ Carries(toParent, q, 0, N)
  BY <1>1, MessagesSent, AppendIsCarried DEF SharingTypeOK
<1>6. \A c \in asking : c \in Client /\ ask[c] \in {"preference", "read"}
  OBVIOUS
<1>7. \A c \in Client : ask[c] \in {"preference", "read"} => c \in asking
  OBVIOUS
<1> HIDE DEF m, asking, N, q, r
<1>8. Carries(toChild, toChild', 1, {})
  <2>1. DOMAIN toChild' \subseteq DOMAIN r /\ \A i \in DOMAIN toChild' : Same(r[i], toChild'[i])
    BY <1>2, <1>4, ForgetsIsCarried
  <2> QED BY <1>4, <2>1 DEF Carries, Same
<1>9. Carries(toParent, toParent', 0, N)
  <2>1. /\ DOMAIN toParent' \subseteq DOMAIN q
        /\ \A i \in DOMAIN toParent' :
             /\ Same(q[i], toParent'[i])
             /\ q[i].to \notin asking => toParent'[i] = q[i]
    BY <1>2, <1>5, ForgetsIsCarried
  <2>2. \A n \in N : n.to \notin asking
    BY <1>0, <1>1, <1>3
  <2>3. toParent' \in Seq(ToParent) /\ DOMAIN q = 1..Len(q) /\ DOMAIN toParent' = 1..Len(toParent')
    BY <1>2, <1>5, ForgetsIsCarried
  <2>4. Len(q) \in Nat /\ Len(toParent') \in Nat
        /\ \A i \in DOMAIN toParent' : i \in Nat /\ (i = Len(q) => i = Len(toParent'))
    BY <1>5, <2>1, <2>3
  <2> SUFFICES ASSUME NEW i \in DOMAIN toParent'
               PROVE  \/ i + 0 \in DOMAIN toParent /\ Same(toParent[i + 0], toParent'[i])
                      \/ i = Len(toParent') /\ toParent'[i] \in N
    BY DEF Carries
  <2>5. \/ i + 0 \in DOMAIN toParent /\ Same(toParent[i + 0], q[i])
        \/ i = Len(q) /\ q[i] \in N
    BY <1>5, <2>1 DEF Carries
  <2>6. CASE i + 0 \in DOMAIN toParent /\ Same(toParent[i + 0], q[i])
    BY <2>1, <2>6 DEF Same
  <2>7. CASE i = Len(q) /\ q[i] \in N
    BY <2>1, <2>2, <2>4, <2>7
  <2> QED BY <2>5, <2>6, <2>7
<1>10. \A c \in asking : \A i \in DOMAIN toChild' : toChild'[i].to # c
  BY <1>0, <1>2, <1>4, ForgottenIsNotNamed
<1>11. \A c \in asking : \A i \in DOMAIN toParent' : toParent'[i].to # c
  BY <1>0, <1>2, <1>5, ForgottenIsNotNamed
<1> QED BY <1>1, <1>7, <1>8, <1>9, <1>10, <1>11 DEF Only, N, m

LEMMA FenceArrives ==
  ASSUME SharingTypeOK, SharingTypeOK', ChannelInv, toChild # <<>>,
         ChildInvalidated(Head(toChild)), UNCHANGED call
  PROVE  ChannelInv'
<1> DEFINE m == Head(toChild)
           asking == {c \in Client : ask[c] \in {"preference", "read"}}
           N == {Invalidated(m.to)}
<1>0. Nobody \notin Client \cup Call /\ Client \cap Call = {}
      /\ FencesAreAwaited /\ RequestsAreAwaited /\ OneAtATime /\ ServingIsSound
      /\ asking \subseteq Client /\ Nobody \notin asking
  BY SharingConstants DEF ChannelInv
<1>1. /\ m \in ToChild /\ m = toChild[1] /\ 1 \in DOMAIN toChild
      /\ Tail(toChild) \in Seq(ToChild) /\ Carries(toChild, Tail(toChild), 1, {})
      /\ m.to # Nobody => Free(m.to, 1, 0) /\ serving.client # m.to
  BY <1>0, FirstOfChild
<1>2. /\ ask' = [c \in Client |-> IF c \in asking THEN "denied" ELSE ask[c]]
      /\ toChild' = Forgets(Tail(toChild), asking)
      /\ toParent' = Forgets(Append(toParent, Invalidated(m.to)), asking)
      /\ serving' = IF serving.client \in asking
                    THEN [serving EXCEPT !.client = Nobody] ELSE serving
      /\ m.kind = "invalidate"
  BY DEF ChildInvalidated
<1>3. m.to \in Call \cup {Nobody}
  BY <1>1, <1>2, MessageTypes
<1>4. \A n \in N : n.to = m.to
  BY MessageFields
<1>5. /\ Carries(toChild, toChild', 1, {}) /\ Carries(toParent, toParent', 0, N)
      /\ \A c \in asking : Only(toChild', {}, c) /\ Only(toParent', N, c)
  BY <1>0, FenceIsPassedOn
<1> HIDE DEF m, asking, N
<1>6. ServingStays /\ serving'.client \notin asking
  BY <1>0, <1>2 DEF ServingStays, SharingTypeOK, Servings
<1>7. ServingIsSound' /\ serving'.client \in {serving.client, Nobody} /\ serving'.op = serving.op
  BY <1>0, <1>6, ServingStaysSound
<1>8. \A c \in Client : c \notin asking => ask'[c] = ask[c]
  BY <1>2
<1>9. OneAtATime'
  <2>1. \A n \in {} \cup N : n.to = Nobody \/ (Free(n.to, 1, 0) /\ serving'.client # n.to)
    BY <1>1, <1>4, <1>7
  <2> QED BY ONLY SharingTypeOK, SharingTypeOK', <1>0, <1>5, <1>7, <2>1, OneAtATimeMoves
<1>10. FencesAreAwaited' /\ RequestsAreAwaited'
  <2>1. \A x \in Call : Waits(x) <=> Waits(x)'
    BY DEF Waits
  <2>2. m.to \in Call => Waits(m.to)
    BY <1>0, <1>1 DEF FencesAreAwaited
  <2>3. /\ \A n \in {} \cup N : n.to \in Call => Waits(n.to)'
        /\ \A n \in {} : n.to \in Client => ask'[n.to] \in Ops
        /\ \A n \in N : n.to \in Client => ask'[n.to] = n.what
    BY <1>0, <1>3, <1>4, <2>1, <2>2
  <2>4. serving'.client \in Client =>
            /\ serving'.client = serving.client /\ serving'.op = serving.op
            /\ ask'[serving.client] = ask[serving.client]
    BY <1>0, <1>6, <1>7, <1>8
  <2>5. \A x \in Client : ask'[x] = ask[x] \/ (Only(toChild', {}, x) /\ Only(toParent', N, x))
    BY <1>5, <1>8
  <2> QED BY ONLY SharingTypeOK, SharingTypeOK', <1>0, <1>5, <2>1, <2>3, <2>4, <2>5, AwaitedMoves
<1> QED BY <1>7, <1>9, <1>10 DEF ChannelInv

LEMMA PassChannel ==
  ASSUME SharingTypeOK, SharingTypeOK', ChannelInv, WorkersAreAwaited, NEW p \in Pass, PassWork(p)
  PROVE  ChannelInv'
<1>0. p \in Client /\ p \notin Call /\ p # Nobody /\ "none" \notin Ops /\ Ops \cap Answers = {}
      /\ {"preference", "read", "create"} \subseteq Ops /\ "retry" \in Answers
      /\ ask \in [Client -> {"none"} \cup Ops \cup Answers] /\ "absent" \in Answers
  BY SharingConstants DEF Ops, Answers, SharingTypeOK
<1>1. ASSUME NEW op \in Ops, Asks(p, op), UNCHANGED <<desktop, broker>>
      PROVE  ChannelInv'
  <2>1. ask[p] \notin Ops
    BY <1>0, <1>1 DEF Asks
  <2> QED BY <1>0, <1>1, <2>1, AsksChannel DEF Asks, desktop, broker
<1>2. ASSUME ask[p] \notin Ops, UNCHANGED <<call, serving, toChild, toParent>>,
             ask' = [ask EXCEPT ![p] = "none"]
      PROVE  ChannelInv'
  BY <1>0, <1>2, ChannelStays DEF ServingStays, Waits
<1>3. CASE PassBegins(p)
  BY <1>0, <1>1, <1>3 DEF PassBegins, Undisturbed
<1>4. CASE WorkerAsks(p)
  BY <1>0, <1>1, <1>4 DEF WorkerAsks, Undisturbed
<1>5. CASE PassDecides(p) \/ Sends(p) \/ HasSecret(p) \/ Bound(p)
  <2>1. ask[p] \notin Ops
    BY <1>0, <1>5 DEF PassDecides, Sends, HasSecret, Bound, Given, MaySend, Ops
  <2> QED BY <1>2, <1>5, <2>1
          DEF PassDecides, Sends, HasSecret, Bound, AskTaken, Undisturbed, desktop, broker
<1>6. CASE WorkerEnds(p)
  <2>1. ask[p] \notin Ops
    BY <1>0, <1>6 DEF WorkerEnds, MayEnd, Given, WorkersAreAwaited, Ops
  <2> QED BY <1>2, <1>6, <2>1 DEF WorkerEnds, desktop, broker
<1>7. CASE Binds(p)
  <2>1. ask[p] \notin Ops /\ "create" \in Ops
    BY <1>0, <1>7 DEF Binds
  <2> QED BY <1>0, <1>7, <2>1, AsksChannel DEF Binds, desktop, broker
<1>8. CASE PassReleases(p) \/ PassTimesOut(p)
  BY <1>8, ChannelStays DEF PassReleases, PassTimesOut, ServingStays, Waits, desktop, broker, companion
<1>9. CASE Abandons(p)
  <2>1. UNCHANGED call
    BY <1>9 DEF Abandons, desktop
  <2>2. CASE pass[p].phase = "asking"
    <3>1. ServingStays /\ serving'.client # p
      BY <1>0, <1>9, <2>2 DEF Abandons, ServingStays, SharingTypeOK, Servings
    <3> QED BY <1>0, <1>9, <2>1, <2>2, <3>1, ChannelForgets DEF Abandons, Waits
  <2>3. CASE pass[p].phase # "asking"
    BY <1>9, <2>1, <2>3, ChannelStays DEF Abandons, ServingStays, Waits
  <2> QED BY <2>2, <2>3
<1> QED BY <1>3, <1>4, <1>5, <1>6, <1>7, <1>8, <1>9 DEF PassWork

LEMMA CompanionChannel ==
  ASSUME SharingTypeOK, SharingTypeOK', ChannelInv, WorkersAreAwaited, Companion
  PROVE  ChannelInv'
<1>0. Nobody \notin Client \cup Call /\ Client \cap Call = {}
  BY SharingConstants
<1>1. CASE ChildReceives
  <2>1. toChild # <<>> /\ UNCHANGED call
    BY <1>1 DEF ChildReceives, desktop
  <2>2. CASE ChildInvalidated(Head(toChild))
    BY <2>1, <2>2, FenceArrives
  <2>3. CASE ChildAnswered(Head(toChild))
    BY <2>1, <2>3, AnswerArrives DEF ChildAnswered
  <2>4. CASE toChild' = Tail(toChild) /\ UNCHANGED <<ask, toParent, serving>>
    BY <2>1, <2>4, AnswerArrives
  <2> QED BY <1>1, <2>2, <2>3, <2>4 DEF ChildReceives
<1>2. ASSUME NEW c \in Client, RequestTimesOut(c)
      PROVE  ChannelInv'
  <2>1. ServingStays /\ serving'.client # c /\ UNCHANGED call
    BY <1>0, <1>2 DEF RequestTimesOut, ServingStays, desktop, SharingTypeOK, Servings
  <2>2. \A x \in Client : x \in {c} \/ ask'[x] = ask[x]
    BY <1>2 DEF RequestTimesOut, SharingTypeOK
  <2> QED BY <1>2, <2>1, <2>2, ChannelForgets DEF RequestTimesOut, Waits
<1>3. CASE Starts \/ Stops \/ TimePasses \/ Publishes
  BY <1>3, ChannelStays DEF Starts, Stops, TimePasses, Publishes, Alone, ServingStays, Waits,
     desktop, broker, companion
<1>4. CASE Disposes
  <2>1. ServingStays /\ serving'.client \notin Client /\ UNCHANGED call
    BY <1>0, <1>4 DEF Disposes, ServingStays, desktop, SharingTypeOK, Servings
  <2> QED BY <1>4, <2>1, ChannelForgets DEF Disposes, Waits
<1>5. CASE CompanionExits
  <2>1. /\ toChild' = <<>> /\ toParent' = <<>>
        /\ serving'.client = Nobody /\ serving'.op = "none" /\ serving'.step = "authorizing"
        /\ serving' = NoServing
    BY <1>5 DEF CompanionExits, NoServing
  <2> QED BY <1>0, <2>1
          DEF ChannelInv, FencesAreAwaited, RequestsAreAwaited, OneAtATime, ServingIsSound
<1> QED BY <1>1, <1>2, <1>3, <1>4, <1>5, PassChannel DEF Companion

LEMMA ChannelStep ==
  ASSUME SharingTypeOK, SharingTypeOK', ChannelInv, WorkersAreAwaited, [SharingNext]_sharing
  PROVE  ChannelInv'
<1>1. CASE UNCHANGED sharing
  BY <1>1, ChannelStays DEF ServingStays, Waits, sharing, desktop, broker, companion
<1> QED BY <1>1, OperatorChannel, DesktopChannel, CompanionChannel DEF SharingNext

(***************************************************************************)
(* What the work of a pass waits for.                                      *)
(***************************************************************************)
\* Whom nothing happens to but an answer, and whose pass asks no more than it did.
LEMMA WorkersStay ==
  ASSUME WorkersAreAwaited, UNCHANGED worker,
         \A p \in Pass : pass'[p].phase = "asking" => pass[p].phase = "asking" \/ worker[p] = "none",
         \A p \in Pass : ask'[p] = ask[p] \/ (ask[p] \in Ops /\ ask'[p] \in Answers)
  PROVE  WorkersAreAwaited'
BY NotAsked DEF WorkersAreAwaited

\* What the scheduler's operations make of its passes.
LEMMA PassesChange ==
  ASSUME SharingTypeOK
  PROVE  /\ pass \in [Pass -> Passes]
         /\ Fence => \A q \in Pass : /\ pass'[q].phase = pass[q].phase
                                     /\ pass[q].phase # "idle" => pass'[q].aborted
         /\ \A p \in Pass :
              \/ LeaveFenced(p) \/ Retried(p) \/ Halts(p)
              \/ \E more \in BOOLEAN : Succeeded(p, more)
              \/ \E answer : answer # "yes" /\ Preferred(p, answer)
              => pass'[p].phase = "leaving" /\ \A q \in Pass : q # p => pass'[q] = pass[q]
         /\ \A p \in Pass :
              Preferred(p, "yes") =>
                pass'[p].phase = "uploading" /\ \A q \in Pass : q # p => pass'[q] = pass[q]
         /\ \A p \in Pass :
              Release(p) =>
                pass'[p].phase = "idle" /\ \A q \in Pass : q # p => pass'[q] = pass[q]
         /\ \A p \in Pass :
              Deadline(p) =>
                /\ pass'[p].phase = pass[p].phase /\ pass'[p].aborted
                /\ \A q \in Pass : q # p => pass'[q] = pass[q]
         /\ \A p \in Pass :
              BeginPass(p) =>
                pass'[p].phase = "asking" /\ \A q \in Pass : q # p => pass'[q] = pass[q]
<1>1. pass \in [Pass -> Passes] /\ \A p \in Pass : pass[p] \in Passes
  BY DEF SharingTypeOK, SchedulerTypeOK
<1>2. Fence => \A q \in Pass : /\ pass'[q].phase = pass[q].phase
                               /\ pass[q].phase # "idle" => pass'[q].aborted
  <2> SUFFICES ASSUME Fence, NEW q \in Pass
               PROVE  pass'[q].phase = pass[q].phase /\ (pass[q].phase # "idle" => pass'[q].aborted)
    OBVIOUS
  <2>1. pass'[q] = IF pass[q].phase = "idle" THEN pass[q]
                   ELSE [pass[q] EXCEPT !.fenced = TRUE, !.aborted = TRUE]
    BY DEF Fence
  <2> QED BY <1>1, <2>1 DEF Passes
<1>3. \A p \in Pass : \A phase : pass' = [pass EXCEPT ![p].phase = phase] =>
        pass'[p].phase = phase /\ \A q \in Pass : q # p => pass'[q] = pass[q]
  BY <1>1 DEF Passes
<1>4. \A p \in Pass :
        \/ LeaveFenced(p) \/ Retried(p) \/ Halts(p)
        \/ \E more \in BOOLEAN : Succeeded(p, more)
        \/ \E answer : answer # "yes" /\ Preferred(p, answer)
        => pass'[p].phase = "leaving" /\ \A q \in Pass : q # p => pass'[q] = pass[q]
  <2> SUFFICES ASSUME NEW p \in Pass,
                      \/ LeaveFenced(p) \/ Retried(p) \/ Halts(p)
                      \/ \E more \in BOOLEAN : Succeeded(p, more)
                      \/ \E answer : answer # "yes" /\ Preferred(p, answer)
               PROVE  pass'[p].phase = "leaving" /\ \A q \in Pass : q # p => pass'[q] = pass[q]
    OBVIOUS
  <2>1. pass' = [pass EXCEPT ![p].phase = "leaving"]
    BY DEF LeaveFenced, Retried, Halts, Succeeded, Preferred, Leave
  <2> QED BY <1>3, <2>1
<1>5. \A p \in Pass : Preferred(p, "yes") =>
        pass'[p].phase = "uploading" /\ \A q \in Pass : q # p => pass'[q] = pass[q]
  BY <1>3 DEF Preferred
<1>6. \A p \in Pass : Release(p) =>
        pass'[p].phase = "idle" /\ \A q \in Pass : q # p => pass'[q] = pass[q]
  BY <1>1 DEF Release, IdlePass
<1>7. \A p \in Pass : Deadline(p) =>
        /\ pass'[p].phase = pass[p].phase /\ pass'[p].aborted
        /\ \A q \in Pass : q # p => pass'[q] = pass[q]
  BY <1>1 DEF Deadline, Passes
<1>8. \A p \in Pass : BeginPass(p) =>
        pass'[p].phase = "asking" /\ \A q \in Pass : q # p => pass'[q] = pass[q]
  BY <1>3 DEF BeginPass
<1> QED BY <1>1, <1>2, <1>4, <1>5, <1>6, <1>7, <1>8

LEMMA WorkersStep ==
  ASSUME SharingTypeOK, SharingTypeOK', ChannelInv, WorkersAreAwaited, [SharingNext]_sharing
  PROVE  WorkersAreAwaited'
<1>0. /\ Pass \subseteq Client /\ ask \in [Client -> {"none"} \cup Ops \cup Answers]
      /\ worker \in [Pass -> {"none", "working", "clearing", "fetching", "binding", "removing"}]
      /\ pass \in [Pass -> Passes]
      /\ {"yes", "no", "absent", "denied", "retry", "uncertain"} = Answers
      /\ Ops = {"preference", "read", "create"}
  BY SharingConstants DEF SharingTypeOK, SchedulerTypeOK, Ops, Answers
<1>1. CASE Operator \/ Desktop
  <2>1. UNCHANGED <<ask, worker, pass>>
    BY <1>1, OutsideLeavesScheduler DEF Operator, CallBegins, CallSaves, CallFails, CallReturns, CallEnds,
       FenceTimesOut, Desktop, ParentReceives, Authorizes, FetchesSecret, StoresSecret,
       companion, scheduler
  <2> QED BY <2>1, WorkersStay
<1>2. CASE ChildReceives
  <2>1. worker' = worker /\ toChild # <<>>
    BY <1>2 DEF ChildReceives
  <2>2. \A p \in Pass : pass'[p].phase = pass[p].phase
    BY <1>2, PassesChange DEF ChildReceives, ChildInvalidated, PreferenceChanged, ChildAnswered,
       scheduler
  <2>3. CASE ChildAnswered(Head(toChild))
    <3>1. Head(toChild) \in ToChild /\ Head(toChild) = toChild[1] /\ 1 \in DOMAIN toChild
      BY <2>1, FirstOfChild DEF ChannelInv
    <3>2. Head(toChild).what \in Answers
      BY <2>3, <3>1, MessageTypes DEF ChildAnswered
    <3>3. Head(toChild).to \in Client => ask[Head(toChild).to] \in Ops
      BY <3>1 DEF ChannelInv, RequestsAreAwaited
    <3>4. \A p \in Pass : ask'[p] = ask[p] \/ (ask[p] \in Ops /\ ask'[p] \in Answers)
      BY <1>0, <2>3, <3>2, <3>3 DEF ChildAnswered
    <3> QED BY <2>1, <2>2, <3>4, WorkersStay
  <2>4. CASE ChildInvalidated(Head(toChild)) \/ UNCHANGED ask
    <3>1. \A p \in Pass : ask'[p] = ask[p] \/ (ask[p] \in Ops /\ ask'[p] \in Answers)
      BY <1>0, <2>4 DEF ChildInvalidated
    <3> QED BY <2>1, <2>2, <3>1, WorkersStay
  <2> QED BY <1>2, <2>3, <2>4 DEF ChildReceives
<1>3. ASSUME NEW c \in Client, RequestTimesOut(c)
      PROVE  WorkersAreAwaited'
  <2>1. \A p \in Pass : ask'[p] = ask[p] \/ (ask[p] \in Ops /\ ask'[p] \in Answers)
    BY <1>0, <1>3 DEF RequestTimesOut
  <2> QED BY <1>3, <2>1, WorkersStay DEF RequestTimesOut, scheduler
<1>4. ASSUME NEW p \in Pass, PassWork(p)
      PROVE  WorkersAreAwaited'
  <2>0. p \in Client /\ \A q \in Pass : q # p => q \in Client
    BY <1>0
  <2>1. CASE PassBegins(p)
    BY <1>0, <2>1 DEF PassBegins, BeginPass, Asks, WorkersAreAwaited
  <2>2. CASE PassDecides(p)
    <3>1. \A q \in Pass : pass'[q].phase = "asking" => pass[q].phase = "asking" /\ q # p
      <4>1. pass'[p].phase \in {"leaving", "uploading"} /\ \A q \in Pass : q # p => pass'[q] = pass[q]
        BY <2>2, PassesChange DEF PassDecides
      <4> QED BY <4>1
    <3> QED BY <1>0, <2>2, <3>1 DEF PassDecides, Becomes, AskTaken, WorkersAreAwaited
  <2>3. CASE Abandons(p)
    <3>1. \A q \in Pass : pass'[q].phase = "asking" => pass[q].phase = "asking"
      <4>1. pass'[p].phase = "leaving" /\ \A q \in Pass : q # p => pass'[q] = pass[q]
        BY <2>3, PassesChange DEF Abandons
      <4> QED BY <4>1
    <3>2. pass[p].phase = "asking" => worker[p] = "none"
      BY DEF WorkersAreAwaited
    <3> QED BY <1>0, <2>3, <3>1, <3>2 DEF Abandons, WorkersAreAwaited
  <2>4. CASE PassReleases(p) \/ PassTimesOut(p)
    <3>1. \A q \in Pass : pass'[q].phase = "asking" => pass[q].phase = "asking"
      BY <1>0, <2>4 DEF PassReleases, PassTimesOut, Release, Deadline, IdlePass, Passes
    <3> QED BY <2>4, <3>1, WorkersStay DEF PassReleases, PassTimesOut, companion
  <2>5. CASE WorkerAsks(p)
    BY <1>0, <2>5 DEF WorkerAsks, Heard, Becomes, Asks, scheduler, WorkersAreAwaited
  <2>6. CASE Sends(p) \/ HasSecret(p) \/ Bound(p)
    BY <1>0, <2>6 DEF Sends, MaySend, HasSecret, Bound, Becomes, AskTaken, scheduler, WorkersAreAwaited
  <2>7. CASE Binds(p)
    BY <1>0, <2>7 DEF Binds, Becomes, scheduler, WorkersAreAwaited
  <2>8. CASE WorkerEnds(p)
    <3>1. \A q \in Pass : pass'[q].phase = "asking" => pass[q].phase = "asking"
      <4>1. \/ pass' = pass
            \/ pass'[p].phase = "leaving" /\ \A q \in Pass : q # p => pass'[q] = pass[q]
        BY <2>8, PassesChange DEF WorkerEnds, scheduler
      <4> QED BY <4>1
    <3> QED BY <1>0, <2>8, <3>1 DEF WorkerEnds, Becomes, WorkersAreAwaited
  <2> QED BY <1>4, <2>1, <2>2, <2>3, <2>4, <2>5, <2>6, <2>7, <2>8 DEF PassWork
<1>5. CASE Starts \/ Stops \/ TimePasses \/ Publishes
  <2>1. \A q \in Pass : pass'[q].phase = pass[q].phase
    BY <1>5, PassesChange DEF Starts, Stops, TimePasses, Publishes, StartScheduler, StopScheduler,
       ComesCloser, IndexPublished
  <2> QED BY <1>5, <2>1, WorkersStay DEF Starts, Stops, TimePasses, Publishes, Alone, companion
<1>6. CASE Disposes
  <2>1. \A p \in Pass : ask'[p] = ask[p] \/ (ask[p] \in Ops /\ ask'[p] \in Answers)
    BY <1>0, <1>6 DEF Disposes
  <2> QED BY <1>6, <2>1, WorkersStay DEF Disposes, scheduler
<1>7. CASE CompanionExits
  BY <1>0, <1>7 DEF CompanionExits, NewProcess, IdlePass, WorkersAreAwaited
<1>8. CASE UNCHANGED sharing
  BY <1>8, WorkersStay DEF sharing, companion, scheduler
<1> QED BY <1>1, <1>2, <1>3, <1>4, <1>5, <1>6, <1>7, <1>8 DEF SharingNext, Companion

(***************************************************************************)
(* Fences.  Behind a fence no live pass is told that sharing is on; once   *)
(* the companion has taken the fence in none has been told, or will be,    *)
(* until the change is over; and after an opt-out not until another.       *)
(***************************************************************************)
\* The pass may still begin a request, if it is told that sharing is on.
Live(p) == worker[p] = "clearing" /\ Heard(p)

\* Behind the k-th message somebody who would act on it is told "yes".
YesBehind(k) ==
  \E i \in DOMAIN toChild, p \in Pass :
    i > k /\ Live(p) /\ toChild[i].to = p /\ toChild[i].what = "yes"

\* No pass may send, and no answer on its way will let one.
Quiet == (\A p \in Pass : ~MaySend(p)) /\ ~YesBehind(0)

\* On its way a fence has no permission behind it; from the companion on, while
\* its change lasts, and after an opt-out, there is none at all.
FencesAreQuiet ==
  /\ \A i \in DOMAIN toChild : toChild[i].to \in Call => ~YesBehind(i)
  /\ \A i \in DOMAIN toParent : toParent[i].to \in Call => Quiet
  /\ \A c \in Call : call[c].phase # "idle" /\ call[c].fence = "passed" => Quiet
  /\ OptedOut => Quiet

LEMMA QuietStays ==
  ASSUME SharingTypeOK, SharingTypeOK', NEW d \in {0, 1}, NEW M, Carries(toChild, toChild', d, M),
         \A p \in Pass : Live(p)' => Live(p) \/ (ask'[p] # "yes" /\ Only(toChild', {}, p)),
         \A p \in Pass : Live(p)' /\ ask'[p] = "yes" =>
           \/ ask[p] = "yes"
           \/ 1 \in DOMAIN toChild /\ toChild[1].to = p /\ toChild[1].what = "yes",
         \A m \in M, p \in Pass : Live(p)' => m.to # p \/ m.what # "yes"
  PROVE  /\ Quiet => Quiet'
         /\ \A k \in Nat : YesBehind(k)' => YesBehind(k + d)
<1>0. Pass \subseteq Client /\ Nobody \notin Client
  BY SharingConstants
<1>1. ASSUME NEW k \in Nat, YesBehind(k)'
      PROVE  YesBehind(k + d)
  <2>1. PICK i \in DOMAIN toChild', p \in Pass :
          i > k /\ Live(p)' /\ toChild'[i].to = p /\ toChild'[i].what = "yes"
    BY <1>1 DEF YesBehind
  <2>2. /\ i \in Nat
        /\ \/ /\ i + d \in DOMAIN toChild /\ toChild'[i].what = toChild[i + d].what
              /\ toChild'[i].to = toChild[i + d].to \/ toChild'[i].to = Nobody
           \/ toChild'[i] \in M
    BY CarriedNames DEF SharingTypeOK
  <2>3. Live(p) /\ toChild'[i] \notin M
    BY <2>1 DEF Only
  <2>4. toChild[i + d].to = p /\ toChild[i + d].what = "yes" /\ i + d \in DOMAIN toChild
    BY <1>0, <2>1, <2>2, <2>3
  <2> QED BY <2>1, <2>2, <2>3, <2>4 DEF YesBehind
<1>2. ASSUME Quiet
      PROVE  Quiet'
  <2>1. ~YesBehind(0)'
    <3>1. YesBehind(d) => YesBehind(0)
      <4>1. \A i \in DOMAIN toChild : i > 0
        BY DEF SharingTypeOK
      <4> QED BY <4>1 DEF YesBehind
    <3> QED BY <1>1, <1>2, <3>1 DEF Quiet
  <2>2. ASSUME NEW p \in Pass, Live(p)', ask'[p] = "yes"
        PROVE  FALSE
    <3>1. Live(p)
      BY <2>2
    <3>2. ask[p] # "yes"
      BY <1>2, <3>1 DEF Quiet, MaySend, Live
    <3>3. 1 \in DOMAIN toChild /\ toChild[1].to = p /\ toChild[1].what = "yes"
      BY <2>2, <3>2
    <3> QED BY <1>2, <3>1, <3>3 DEF Quiet, YesBehind
  <2>3. \A p \in Pass : ~MaySend(p)'
    BY <2>2 DEF MaySend, Live, Heard
  <2> QED BY <2>1, <2>3 DEF Quiet
<1> QED BY <1>1, <1>2

LEMMA FencesStay ==
  ASSUME SharingTypeOK, SharingTypeOK', FencesAreQuiet, NEW d \in {0, 1}, NEW e \in {0, 1}, NEW M, NEW N,
         Carries(toChild, toChild', d, M), Carries(toParent, toParent', e, N),
         \A p \in Pass : Live(p)' => Live(p) \/ (ask'[p] # "yes" /\ Only(toChild', {}, p)),
         \A p \in Pass : Live(p)' /\ ask'[p] = "yes" =>
           \/ ask[p] = "yes"
           \/ 1 \in DOMAIN toChild /\ toChild[1].to = p /\ toChild[1].what = "yes",
         \A m \in M, p \in Pass : Live(p)' => m.to # p \/ m.what # "yes",
         \A m \in N : m.to \notin Call,
         \A c \in Call : call'[c].phase # "idle" /\ call'[c].fence = "passed" =>
           (call[c].phase # "idle" /\ call[c].fence = "passed") \/ Quiet,
         OptedOut' => OptedOut \/ Quiet
  PROVE  FencesAreQuiet'
<1>0. Nobody \notin Call
  BY SharingConstants
<1>1. (Quiet => Quiet') /\ \A k \in Nat : YesBehind(k)' => YesBehind(k + d)
  BY QuietStays
<1>2. ASSUME NEW i \in DOMAIN toChild', toChild'[i].to \in Call, YesBehind(i)'
      PROVE  FALSE
  <2>1. /\ i \in Nat /\ Len(toChild') \in Nat /\ DOMAIN toChild' = 1..Len(toChild')
        /\ \/ /\ i + d \in DOMAIN toChild
              /\ toChild'[i].to = toChild[i + d].to \/ toChild'[i].to = Nobody
           \/ i = Len(toChild')
    BY CarriedNames DEF SharingTypeOK
  <2>2. YesBehind(i + d)
    BY <1>1, <1>2, <2>1
  <2>3. i # Len(toChild')
    BY <1>2, <2>1 DEF YesBehind
  <2> QED BY <1>0, <1>2, <2>1, <2>2, <2>3 DEF FencesAreQuiet
<1>3. ASSUME NEW i \in DOMAIN toParent', toParent'[i].to \in Call
      PROVE  Quiet'
  <2>1. \/ /\ i + e \in DOMAIN toParent
           /\ toParent'[i].to = toParent[i + e].to \/ toParent'[i].to = Nobody
        \/ toParent'[i] \in N
    BY CarriedNames DEF SharingTypeOK
  <2>2. i + e \in DOMAIN toParent /\ toParent[i + e].to \in Call
    BY <1>0, <1>3, <2>1
  <2> QED BY <1>1, <2>2 DEF FencesAreQuiet
<1>4. \A c \in Call : call'[c].phase # "idle" /\ call'[c].fence = "passed" => Quiet'
  BY <1>1 DEF FencesAreQuiet
<1>5. OptedOut' => Quiet'
  BY <1>1 DEF FencesAreQuiet
<1>6. \A i \in DOMAIN toChild' : toChild'[i].to \in Call => ~YesBehind(i)'
  BY <1>2
<1>7. \A i \in DOMAIN toParent' : toParent'[i].to \in Call => Quiet'
  BY <1>3
<1> QED BY <1>4, <1>5, <1>6, <1>7 DEF FencesAreQuiet

\* No pass is told anything, and none begins to be live.
LEMMA NobodyIsTold ==
  ASSUME UNCHANGED <<pass, worker, ask>>
  PROVE  /\ \A p \in Pass : Live(p)' => Live(p)
         /\ \A p \in Pass : Live(p)' /\ ask'[p] = "yes" => ask[p] = "yes"
BY DEF Live, Heard

LEMMA OperatorFences ==
  ASSUME SharingTypeOK, SharingTypeOK', FencesAreQuiet, Operator
  PROVE  FencesAreQuiet'
<1>0. UNCHANGED <<pass, worker, ask>> /\ call \in [Call -> Calls] /\ Nobody \notin Call
      /\ \A p \in Pass : p # Nobody
  BY OutsideLeavesScheduler, SharingConstants
     DEF Operator, CallBegins, CallSaves, CallFails, CallReturns, CallEnds, FenceTimesOut,
         companion, scheduler, SharingTypeOK
<1>1. /\ \A p \in Pass : Live(p)' => Live(p)
      /\ \A p \in Pass : Live(p)' /\ ask'[p] = "yes" => ask[p] = "yes"
  BY <1>0, NobodyIsTold
<1>2. Carries(toChild, toChild, 0, {}) /\ Carries(toParent, toParent, 0, {})
  BY StaysCarried DEF SharingTypeOK
<1>3. ASSUME NEW c \in Call, NEW value \in BOOLEAN, CallBegins(c, value)
      PROVE  FencesAreQuiet'
  <2>1. Carries(toChild, toChild', 0, {Invalidate(c)}) /\ Carries(toParent, toParent', 0, {})
    BY <1>2, <1>3, MessagesSent, AppendIsCarried DEF CallBegins, SharingTypeOK
  <2>2. \A m \in {Invalidate(c)}, p \in Pass : Live(p)' => m.to # p \/ m.what # "yes"
    BY MessageFields
  <2>3. /\ \A x \in Call : call'[x].phase # "idle" /\ call'[x].fence = "passed" =>
             call[x].phase # "idle" /\ call[x].fence = "passed"
        /\ ~OptedOut'
    BY <1>0, <1>3 DEF CallBegins, OptedOut
  <2> QED BY <1>1, <2>1, <2>2, <2>3, FencesStay
<1>4. ASSUME NEW c \in Call, CallSaves(c)
      PROVE  FencesAreQuiet'
  <2>1. \A x \in Call : call'[x].phase # "idle" /\ call'[x].fence = "passed" =>
          call[x].phase # "idle" /\ call[x].fence = "passed"
    BY <1>0, <1>4 DEF CallSaves, Calls
  <2>2. ~OptedOut'
    <3>1. call'[c].phase = "waiting"
      BY <1>0, <1>4 DEF CallSaves, Calls
    <3> QED BY <3>1 DEF OptedOut, Changing
  <2>3. toChild' = toChild /\ toParent' = toParent
    BY <1>4 DEF CallSaves
  <2> QED BY <1>1, <1>2, <2>1, <2>2, <2>3, FencesStay
<1>5. ASSUME NEW c \in Call, NEW off, CallEnds(c, off), off => Quiet, off \in BOOLEAN
      PROVE  FencesAreQuiet'
  <2>1. Carries(toChild, toChild', 0, {Invalidate(Nobody)}) /\ Carries(toParent, toParent', 0, {})
    BY <1>5, CallEndsCarries
  <2>2. \A m \in {Invalidate(Nobody)}, p \in Pass : Live(p)' => m.to # p \/ m.what # "yes"
    BY MessageFields
  <2>3. \A x \in Call : call'[x].phase # "idle" /\ call'[x].fence = "passed" =>
          call[x].phase # "idle" /\ call[x].fence = "passed"
    BY <1>0, <1>5 DEF CallEnds, IdleCall
  <2>4. OptedOut' => Quiet
    BY <1>5 DEF CallEnds, OptedOut
  <2> QED BY <1>1, <2>1, <2>2, <2>3, <2>4, FencesStay
<1>6. ASSUME NEW c \in Call, CallFails(c) \/ CallReturns(c)
      PROVE  FencesAreQuiet'
  <2>1. CASE CallEnds(c, FALSE)
    BY <1>5, <2>1
  <2>2. CASE /\ call[c].phase = "waiting" /\ call[c].fence = "passed"
             /\ CallEnds(c, ~call[c].value)
    <3>1. Quiet
      BY <2>2 DEF FencesAreQuiet
    <3>2. (~call[c].value) \in BOOLEAN
      OBVIOUS
    <3> QED BY <1>5, <2>2, <3>1, <3>2
  <2> QED BY <1>6, <2>1, <2>2 DEF CallFails, CallReturns
<1>7. ASSUME NEW c \in Call, FenceTimesOut(c)
      PROVE  FencesAreQuiet'
  <2>1. Carries(toChild, toChild', 0, {}) /\ Carries(toParent, toParent', 0, {})
    BY <1>7, ForgetsIsCarried DEF FenceTimesOut, SharingTypeOK
  <2>2. \A x \in Call : /\ call'[x].phase = call[x].phase
                        /\ call'[x].fence = "passed" => call[x].fence = "passed"
    BY <1>0, <1>7 DEF FenceTimesOut, Calls
  <2>3. OptedOut' => OptedOut
    BY <1>7, <2>2 DEF OptedOut, Changing, FenceTimesOut
  <2> QED BY <1>1, <2>1, <2>2, <2>3, FencesStay
<1> QED BY <1>3, <1>4, <1>6, <1>7 DEF Operator

\* Nothing is fenced, and the operator has not been told that sharing is off.
LEMMA NothingFenced ==
  ASSUME ChannelInv, ~Changing, preference # "off", SharingTypeOK,
         UNCHANGED <<call, preference, told, toParent>>,
         \A i \in DOMAIN toChild' : toChild'[i].to \notin Call
  PROVE  FencesAreQuiet'
<1>1. \A i \in DOMAIN toParent' : toParent'[i].to \notin Call
  BY DEF ChannelInv, FencesAreAwaited, Waits, Changing
<1> QED BY <1>1 DEF FencesAreQuiet, Changing, OptedOut

LEMMA AnsweredFences ==
  ASSUME SharingTypeOK, SharingTypeOK', ChannelInv, FencesAreQuiet,
         NEW a \in Answers, Answered(a), UNCHANGED <<call, preference, told, toParent, pass, worker, ask>>,
         a = "yes" => \/ \A p \in Pass : serving.client = p => ~Live(p)
                      \/ ~Changing /\ preference = "on"
  PROVE  FencesAreQuiet'
<1> DEFINE M == IF serving.client = Nobody THEN {} ELSE {Response(serving.client, a)}
<1>0. Nobody \notin Client \cup Call /\ Client \cap Call = {}
      /\ serving.client \in Client \cup {Nobody}
  BY SharingConstants DEF SharingTypeOK, Servings
<1>1. Carries(toChild, toChild', 0, M) /\ Carries(toParent, toParent', 0, {})
  <2>1. Carries(toChild, toChild', 0, M)
    BY <1>0, MessagesSent, AppendIsCarried, StaysCarried DEF Answered, Replies, SharingTypeOK
  <2> QED BY <2>1, StaysCarried DEF SharingTypeOK
<1>2. \A m \in M : m.to = serving.client /\ m.what = a /\ m.to \in Client
  BY <1>0, MessageFields
<1> HIDE DEF M
<1>3. /\ \A p \in Pass : Live(p)' => Live(p)
      /\ \A p \in Pass : Live(p)' /\ ask'[p] = "yes" => ask[p] = "yes"
  BY NobodyIsTold
<1>4. CASE a = "yes" /\ ~Changing /\ preference = "on"
  <2>1. \A i \in DOMAIN toChild : toChild[i].to \notin Call
    BY <1>4 DEF ChannelInv, FencesAreAwaited, Waits, Changing
  <2>2. \A i \in DOMAIN toChild' : toChild'[i].to \notin Call
    <3>1. \A i \in DOMAIN toChild' :
            \/ i + 0 \in DOMAIN toChild /\ (toChild'[i].to = toChild[i + 0].to \/ toChild'[i].to = Nobody)
            \/ toChild'[i] \in M
      BY <1>1, CarriedNames DEF SharingTypeOK
    <3> QED BY <1>0, <1>2, <2>1, <3>1
  <2> QED BY <1>4, <2>2, NothingFenced
<1>5. CASE a = "yes" => \A p \in Pass : serving.client = p => ~Live(p)
  <2>1. \A m \in M, p \in Pass : Live(p)' => m.to # p \/ m.what # "yes"
    BY <1>2, <1>3, <1>5
  <2>2. \A c \in Call : call'[c].phase # "idle" /\ call'[c].fence = "passed" =>
           call[c].phase # "idle" /\ call[c].fence = "passed"
    OBVIOUS
  <2>3. OptedOut' => OptedOut
    BY DEF OptedOut, Changing
  <2> QED BY <1>1, <1>3, <2>1, <2>2, <2>3, FencesStay
<1> QED BY <1>4, <1>5

LEMMA DesktopFences ==
  ASSUME SharingTypeOK, SharingTypeOK', ChannelInv, WorkersAreAwaited, FencesAreQuiet, Desktop
  PROVE  FencesAreQuiet'
<1>0. UNCHANGED <<pass, worker, ask, preference, told>>
      /\ Nobody \notin Client \cup Call /\ Client \cap Call = {} /\ Pass \subseteq Client
  BY OutsideLeavesScheduler, SharingConstants
     DEF Desktop, ParentReceives, Authorizes, FetchesSecret, StoresSecret, desktop, companion, scheduler
<1>1. /\ \A p \in Pass : Live(p)' => Live(p)
      /\ \A p \in Pass : Live(p)' /\ ask'[p] = "yes" => ask[p] = "yes"
  BY <1>0, NobodyIsTold
<1>2. CASE ParentReceives
  <2> DEFINE m == Head(toParent)
  <2>1. /\ Carries(toParent, toParent', 1, {}) /\ m \in ToParent /\ m = toParent[1] /\ 1 \in DOMAIN toParent
    BY <1>2, FirstOfParent DEF ParentReceives, ChannelInv
  <2> HIDE DEF m
  <2>2. CASE Acknowledged(m)
    <3>1. Carries(toChild, toChild', 0, {})
      BY <2>2, StaysCarried DEF Acknowledged, SharingTypeOK
    <3>2. \A c \in Call : /\ call'[c].phase = call[c].phase
                          /\ call'[c].fence = "passed" => call[c].fence = "passed" \/ m.to = c
      BY <2>2 DEF Acknowledged, SharingTypeOK, Calls
    <3>3. m.to \in Call => Quiet
      BY <2>1 DEF FencesAreQuiet
    <3>4. \A c \in Call : call'[c].phase # "idle" /\ call'[c].fence = "passed" =>
            (call[c].phase # "idle" /\ call[c].fence = "passed") \/ Quiet
      BY <3>2, <3>3
    <3>5. OptedOut' => OptedOut
      BY <1>0, <3>2 DEF OptedOut, Changing
    <3> QED BY <1>1, <2>1, <3>1, <3>4, <3>5, FencesStay
  <2>3. CASE Requested(m)
    <3> DEFINE M == {Response(m.to, "retry")}
    <3>1. Carries(toChild, toChild', 0, M)
      <4>1. m.to \in Client \cup {Nobody}
        BY <2>1, <2>3, MessageTypes DEF Requested
      <4>2. Carries(toChild, Append(toChild, Response(m.to, "retry")), 0, M) /\ Carries(toChild, toChild, 0, {})
        BY <4>1, MessagesSent, AppendIsCarried, StaysCarried DEF SharingTypeOK, Answers
      <4>3. Carries(toChild, toChild, 0, M)
        BY <4>2 DEF Carries
      <4> QED BY <2>3, <4>2, <4>3 DEF Requested, Replies
    <3>2. \A n \in M, p \in Pass : Live(p)' => n.to # p \/ n.what # "yes"
      BY MessageFields
    <3> HIDE DEF M
    <3>3. UNCHANGED call
      BY <2>3 DEF Requested
    <3>4. OptedOut' => OptedOut
      BY <1>0, <3>3 DEF OptedOut, Changing
    <3> QED BY <1>1, <2>1, <3>1, <3>2, <3>3, <3>4, FencesStay
  <2> QED BY <1>2, <2>2, <2>3 DEF ParentReceives, m
<1>3. \A p \in Pass : serving.client = p /\ serving.op \in {"read", "create"} => ~Live(p)
  BY <1>0 DEF ChannelInv, RequestsAreAwaited, WorkersAreAwaited, Live, Answers
<1>4. CASE Authorizes
  <2>1. UNCHANGED <<call, toParent>> /\ Authorization \in Answers /\ "denied" \in Answers
        /\ (Authorization = "yes" => ~Changing /\ preference = "on")
    BY <1>4 DEF Authorizes, Authorization, Answers, desktop
  <2>2. CASE Answered("denied") \/ Answered(Authorization)
    BY <1>0, <2>1, <2>2, AnsweredFences
  <2>3. CASE UNCHANGED toChild
    <3>1. Carries(toChild, toChild', 0, {}) /\ Carries(toParent, toParent', 0, {})
      BY <2>1, <2>3, StaysCarried DEF SharingTypeOK
    <3>2. OptedOut' => OptedOut
      BY <1>0, <2>1 DEF OptedOut, Changing
    <3> QED BY <1>1, <2>1, <3>1, <3>2, FencesStay
  <2> QED BY <1>4, <2>2, <2>3 DEF Authorizes
<1>5. CASE FetchesSecret \/ StoresSecret
  <2>1. UNCHANGED <<call, toParent>> /\ {"denied", "yes", "absent", "retry", "uncertain"} \subseteq Answers
    BY <1>5 DEF FetchesSecret, StoresSecret, Answers, desktop
  <2>2. serving.op \in {"read", "create"}
    BY <1>5 DEF FetchesSecret, StoresSecret, ChannelInv, ServingIsSound
  <2>3. \E a \in Answers : Answered(a)
    BY <1>5, <2>1 DEF FetchesSecret, StoresSecret
  <2> QED BY <1>0, <1>3, <2>1, <2>2, <2>3, AnsweredFences
<1> QED BY <1>2, <1>4, <1>5 DEF Desktop

\* What the work of a pass does to the channel.
LEMMA PassCarries ==
  ASSUME SharingTypeOK, NEW p \in Pass, PassWork(p)
  PROVE  /\ Carries(toChild, toChild', 0, {})
         /\ Carries(toParent, toParent', 0, {Request(p, op) : op \in Ops})
<1>0. p \in Client /\ {"preference", "read", "create"} = Ops
  BY SharingConstants DEF Ops
<1>1. /\ Carries(toChild, toChild, 0, {}) /\ Carries(toParent, toParent, 0, {})
      /\ Carries(toChild, Forgets(toChild, {p}), 0, {}) /\ Carries(toParent, Forgets(toParent, {p}), 0, {})
  BY StaysCarried, ForgetsIsCarried DEF SharingTypeOK
<1>2. \A op \in Ops : Carries(toParent, Append(toParent, Request(p, op)), 0, {Request(p, op)})
  BY <1>0, MessagesSent, AppendIsCarried DEF SharingTypeOK
<1>3. toChild' = toChild \/ toChild' = Forgets(toChild, {p})
  BY DEF PassWork, PassBegins, PassDecides, Abandons, PassReleases, PassTimesOut, WorkerAsks, Sends,
     HasSecret, Binds, Bound, WorkerEnds, Asks, AskTaken
<1>4. \/ toParent' = toParent \/ toParent' = Forgets(toParent, {p})
      \/ \E op \in Ops : toParent' = Append(toParent, Request(p, op))
  BY <1>0 DEF PassWork, PassBegins, PassDecides, Abandons, PassReleases, PassTimesOut, WorkerAsks, Sends,
     HasSecret, Binds, Bound, WorkerEnds, Asks, AskTaken
<1>5. Carries(toParent, toParent', 0, {Request(p, op) : op \in Ops})
  BY <1>1, <1>2, <1>4 DEF Carries
<1> QED BY <1>1, <1>3, <1>5

\* Only the work of a pass that asks for the preference becomes live.
LEMMA PassLives ==
  ASSUME SharingTypeOK, WorkersAreAwaited, NEW p \in Pass, PassWork(p)
  PROVE  /\ \A q \in Pass : q # p => (Live(q)' => Live(q)) /\ ask'[q] = ask[q]
         /\ Live(p)' => /\ ask[p] = "none" /\ ask'[p] \in {"preference", "retry"}
                        /\ UNCHANGED toChild
<1>0. /\ Pass \subseteq Client /\ ask \in [Client -> {"none"} \cup Ops \cup Answers]
      /\ worker \in [Pass -> {"none", "working", "clearing", "fetching", "binding", "removing"}]
  BY SharingConstants DEF SharingTypeOK
<1>1. CASE PassBegins(p)
  <2>1. worker' = worker /\ worker[p] = "none" /\ \A q \in Pass : q # p => pass'[q] = pass[q] /\ ask'[q] = ask[q]
    BY <1>0, <1>1, PassesChange DEF PassBegins, Asks
  <2> QED BY <2>1 DEF Live, Heard
<1>2. CASE PassDecides(p)
  <2>1. /\ \A q \in Pass : q # p => pass'[q] = pass[q]
        /\ pass'[p].phase = "uploading" => ask[p] = "yes" /\ worker'[p] = "working"
    <3>1. CASE LeaveFenced(p) \/ Retried(p)
      BY <3>1, PassesChange
    <3>2. CASE Preferred(p, ask[p]) /\ Becomes(p, IF ask[p] = "yes" THEN "working" ELSE "none")
      BY <1>0, <3>2, PassesChange DEF Becomes
    <3> QED BY <1>2, <3>1, <3>2 DEF PassDecides
  <2>2. \A q \in Pass : q # p => worker'[q] = worker[q] /\ ask'[q] = ask[q]
    BY <1>0, <1>2 DEF PassDecides, Becomes, AskTaken
  <2> QED BY <2>1, <2>2 DEF Live, Heard
<1>3. CASE Abandons(p)
  <2>1. pass'[p].phase = "leaving" /\ \A q \in Pass : q # p => pass'[q] = pass[q]
    BY <1>3, PassesChange DEF Abandons
  <2>2. worker' = worker /\ \A q \in Pass : q # p => ask'[q] = ask[q]
    BY <1>0, <1>3 DEF Abandons
  <2> QED BY <2>1, <2>2 DEF Live, Heard
<1>4. CASE PassReleases(p) \/ PassTimesOut(p)
  <2>1. /\ pass'[p].phase = "idle" \/ pass'[p].aborted
        /\ \A q \in Pass : q # p => pass'[q] = pass[q]
    BY <1>4, PassesChange DEF PassReleases, PassTimesOut
  <2>2. UNCHANGED <<worker, ask>>
    BY <1>4 DEF PassReleases, PassTimesOut, companion
  <2> QED BY <2>1, <2>2 DEF Live, Heard
<1>5. CASE WorkerAsks(p)
  <2>1. pass' = pass /\ \A q \in Pass : q # p => worker'[q] = worker[q] /\ ask'[q] = ask[q]
    BY <1>0, <1>5 DEF WorkerAsks, Becomes, Asks, scheduler
  <2>2. worker'[p] = "clearing" => Asks(p, "preference")
    BY <1>0, <1>5 DEF WorkerAsks, Becomes
  <2>3. Asks(p, "preference") => /\ ask[p] = "none" /\ ask'[p] \in {"preference", "retry"}
                                 /\ UNCHANGED toChild
    BY <1>0 DEF Asks
  <2> QED BY <2>1, <2>2, <2>3 DEF Live, Heard
<1>6. CASE Sends(p) \/ HasSecret(p) \/ Bound(p)
  BY <1>0, <1>6 DEF Sends, HasSecret, Bound, Becomes, AskTaken, scheduler, Live, Heard
<1>7. CASE Binds(p)
  BY <1>0, <1>7 DEF Binds, Becomes, scheduler, Live, Heard
<1>8. CASE WorkerEnds(p)
  <2>1. /\ worker'[p] = "none"
        /\ \A q \in Pass : q # p => worker'[q] = worker[q] /\ ask'[q] = ask[q]
    BY <1>0, <1>8 DEF WorkerEnds, Becomes
  <2>2. \A q \in Pass : q # p => pass'[q] = pass[q]
    BY <1>8, PassesChange DEF WorkerEnds, scheduler
  <2> QED BY <2>1, <2>2 DEF Live, Heard
<1> QED BY <1>1, <1>2, <1>3, <1>4, <1>5, <1>6, <1>7, <1>8 DEF PassWork

LEMMA PassFences ==
  ASSUME SharingTypeOK, SharingTypeOK', ChannelInv, WorkersAreAwaited, FencesAreQuiet,
         NEW p \in Pass, PassWork(p)
  PROVE  FencesAreQuiet'
<1> DEFINE N == {Request(p, op) : op \in Ops}
<1>1. Carries(toChild, toChild', 0, {}) /\ Carries(toParent, toParent', 0, N)
  BY PassCarries
<1>2. \A n \in N : n.to \notin Call
  BY MessageFields, SharingConstants
<1> HIDE DEF N
<1>3. UNCHANGED <<preference, told, call>>
  BY DEF PassWork, PassBegins, PassDecides, Abandons, PassReleases, PassTimesOut, WorkerAsks, Sends,
     HasSecret, Binds, Bound, WorkerEnds, Undisturbed, desktop
<1>4. ASSUME NEW q \in Pass, Live(q)'
      PROVE  /\ Live(q) \/ (ask'[q] # "yes" /\ Only(toChild', {}, q))
             /\ ask'[q] = "yes" => ask[q] = "yes"
  <2>1. CASE q # p
    BY <1>4, <2>1, PassLives
  <2>2. CASE q = p
    <3>1. ask[p] = "none" /\ ask'[p] \in {"preference", "retry"} /\ UNCHANGED toChild
      BY <1>4, <2>2, PassLives
    <3>2. Free(p, 0, 0)
      BY <3>1, NotNamed, NotAsked, SharingConstants
    <3>3. \A i \in DOMAIN toChild : i > 0
      BY DEF SharingTypeOK
    <3> QED BY <2>2, <3>1, <3>2, <3>3 DEF Free, Only
  <2> QED BY <2>1, <2>2
<1>5. OptedOut' => OptedOut
  BY <1>3 DEF OptedOut, Changing
<1> QED BY <1>1, <1>2, <1>3, <1>4, <1>5, FencesStay

LEMMA CompanionFences ==
  ASSUME SharingTypeOK, SharingTypeOK', ChannelInv, WorkersAreAwaited, FencesAreQuiet, Companion
  PROVE  FencesAreQuiet'
<1>0. Nobody \notin Client \cup Call /\ Client \cap Call = {} /\ Pass \subseteq Client
      /\ ask \in [Client -> {"none"} \cup Ops \cup Answers]
  BY SharingConstants DEF SharingTypeOK
<1>1. Carries(toChild, toChild, 0, {}) /\ Carries(toParent, toParent, 0, {})
  BY StaysCarried DEF SharingTypeOK
<1>2. ASSUME NEW d \in {0, 1}, Carries(toChild, toChild', d, {}), Carries(toParent, toParent', 0, {}),
             UNCHANGED <<preference, told, call, worker>>,
             \A p \in Pass : Live(p)' => Live(p),
             \A p \in Pass : Live(p)' /\ ask'[p] = "yes" =>
               \/ ask[p] = "yes"
               \/ 1 \in DOMAIN toChild /\ toChild[1].to = p /\ toChild[1].what = "yes"
      PROVE  FencesAreQuiet'
  <2>1. OptedOut' => OptedOut
    BY <1>2 DEF OptedOut, Changing
  <2> QED BY <1>2, <2>1, FencesStay
<1>3. ASSUME \A p \in Pass : ~Live(p)'
      PROVE  FencesAreQuiet'
  BY <1>3 DEF FencesAreQuiet, Quiet, YesBehind, MaySend, Live, Heard
<1>4. CASE ChildReceives
  <2>0. UNCHANGED <<preference, told, call, worker>> /\ toChild # <<>>
    BY <1>4 DEF ChildReceives, desktop
  <2>1. /\ Head(toChild) = toChild[1] /\ 1 \in DOMAIN toChild /\ Carries(toChild, Tail(toChild), 1, {})
    BY <2>0, FirstOfChild DEF ChannelInv
  <2>2. CASE ChildInvalidated(Head(toChild))
    <3>1. Fence
      BY <2>2 DEF ChildInvalidated, PreferenceChanged
    <3>2. \A p \in Pass : pass'[p].phase = pass[p].phase /\ (pass[p].phase # "idle" => pass'[p].aborted)
      BY <3>1, PassesChange
    <3> QED BY <1>3, <3>2 DEF Live, Heard
  <2>3. CASE ChildAnswered(Head(toChild))
    <3>1. \A p \in Pass : Live(p)' => Live(p)
      BY <2>0, <2>3 DEF ChildAnswered, Live, Heard, scheduler
    <3>2. \A p \in Pass : Live(p)' /\ ask'[p] = "yes" =>
               \/ ask[p] = "yes"
               \/ 1 \in DOMAIN toChild /\ toChild[1].to = p /\ toChild[1].what = "yes"
      BY <1>0, <2>1, <2>3 DEF ChildAnswered
    <3> QED BY <1>1, <1>2, <2>0, <2>1, <2>3, <3>1, <3>2 DEF ChildAnswered
  <2>4. CASE toChild' = Tail(toChild) /\ UNCHANGED <<scheduler, ask, toParent>>
    <3>1. \A p \in Pass : Live(p)' => Live(p)
      BY <2>0, <2>4 DEF Live, Heard, scheduler
    <3> QED BY <1>1, <1>2, <2>0, <2>1, <2>4, <3>1
  <2> QED BY <1>4, <2>2, <2>3, <2>4 DEF ChildReceives
<1>5. ASSUME NEW c \in Client, RequestTimesOut(c)
      PROVE  FencesAreQuiet'
  <2>1. Carries(toChild, toChild', 0, {}) /\ Carries(toParent, toParent', 0, {})
    BY <1>5, ForgetsIsCarried DEF RequestTimesOut, SharingTypeOK
  <2>2. \A p \in Pass : Live(p)' => Live(p)
    BY <1>5 DEF RequestTimesOut, Live, Heard, scheduler
  <2>3. \A p \in Pass : ask'[p] = "yes" => ask[p] = "yes"
    BY <1>0, <1>5 DEF RequestTimesOut
  <2> QED BY <1>2, <1>5, <2>1, <2>2, <2>3 DEF RequestTimesOut, desktop
<1>6. CASE Starts \/ TimePasses \/ Publishes
  <2>1. UNCHANGED <<preference, told, call, worker, pass, ask, toChild, toParent>>
    BY <1>6 DEF Starts, TimePasses, Publishes, Alone, desktop, companion, StartScheduler, ComesCloser,
       IndexPublished
  <2> QED BY <1>1, <1>2, <2>1, NobodyIsTold
<1>7. CASE Stops
  <2>1. \A p \in Pass : pass'[p].phase = pass[p].phase /\ (pass[p].phase # "idle" => pass'[p].aborted)
    BY <1>7, PassesChange DEF Stops, StopScheduler
  <2> QED BY <1>3, <2>1 DEF Live, Heard
<1>8. CASE Disposes
  <2>1. Carries(toChild, toChild', 0, {}) /\ Carries(toParent, toParent', 0, {})
    BY <1>8, ForgetsIsCarried DEF Disposes, SharingTypeOK
  <2>2. \A p \in Pass : Live(p)' => Live(p)
    BY <1>8 DEF Disposes, Live, Heard, scheduler
  <2>3. \A p \in Pass : ask'[p] = "yes" => ask[p] = "yes"
    BY <1>0, <1>8 DEF Disposes
  <2> QED BY <1>2, <1>8, <2>1, <2>2, <2>3 DEF Disposes, desktop
<1>9. CASE CompanionExits
  BY <1>3, <1>9 DEF CompanionExits, Live
<1> QED BY <1>4, <1>5, <1>6, <1>7, <1>8, <1>9, PassFences DEF Companion

LEMMA FencesStep ==
  ASSUME SharingTypeOK, SharingTypeOK', ChannelInv, WorkersAreAwaited, FencesAreQuiet,
         [SharingNext]_sharing
  PROVE  FencesAreQuiet'
<1>1. CASE UNCHANGED sharing
  BY <1>1 DEF FencesAreQuiet, Quiet, YesBehind, MaySend, Live, Heard, OptedOut, Changing,
     sharing, desktop, companion, scheduler
<1> QED BY <1>1, OperatorFences, DesktopFences, CompanionFences DEF SharingNext

(***************************************************************************)
(* The secret.  Without a binding nothing is stored, and nothing that      *)
(* could store it is under way; one pass at most owns the binding; and     *)
(* what that pass may take for a refusal is one.                           *)
(***************************************************************************)
NothingStored ==
  ~secret /\ serving.op # "create" /\ \A i \in DOMAIN toParent : toParent[i].what # "create"

\* The pass that wrote the binding file and may still remove it.
Owner(p) == worker[p] \in {"binding", "removing"}

\* While its create waits to be handled it is the only one; and an answer
\* other than these says that nothing has been stored.
RefusalIsTrue(p) ==
  /\ ask[p] \notin {"create", "yes", "uncertain"} => NothingStored
  /\ \A i \in DOMAIN toChild :
       toChild[i].to = p /\ toChild[i].what \notin {"yes", "uncertain"} => NothingStored
  /\ \A i \in DOMAIN toParent : toParent[i].to = p =>
       /\ ~secret /\ serving.op # "create"
       /\ \A j \in DOMAIN toParent : toParent[j].what = "create" => i = j
  /\ serving.client = p =>
       ~secret /\ \A j \in DOMAIN toParent : toParent[j].what # "create"

\* NoOrphanSecret is its first part; the others are why a binding is removed only
\* when its secret cannot come any more.
SecretInv ==
  /\ ~binding => NothingStored
  /\ \A p \in Pass : Owner(p) => binding /\ \A q \in Pass : Owner(q) => q = p
  /\ \A p \in Pass : worker[p] = "removing" => NothingStored
  /\ \A p \in Pass : worker[p] = "binding" => RefusalIsTrue(p)

LEMMA SecretStays ==
  ASSUME SharingTypeOK, SharingTypeOK', SecretInv, NEW d \in {0, 1}, NEW e \in {0, 1}, NEW M, NEW N,
         Carries(toChild, toChild', d, M), Carries(toParent, toParent', e, N),
         \A n \in N : n.what # "create" /\ \A p \in Pass : worker'[p] = "binding" => n.to # p,
         secret' => secret \/ (serving.op = "create" /\ serving'.client = Nobody),
         serving'.op = "create" =>
           \/ serving.op = "create"
           \/ e = 1 /\ 1 \in DOMAIN toParent /\ toParent[1].what = "create",
         \/ serving'.client \in {serving.client, Nobody}
         \/ e = 1 /\ 1 \in DOMAIN toParent /\ toParent[1].to = serving'.client,
         UNCHANGED binding,
         \A p \in Pass : Owner(p)' => worker'[p] = worker[p],
         \A p \in Pass : worker'[p] = "binding" =>
           \/ ask'[p] = ask[p] \/ ask'[p] \in {"yes", "uncertain"}
           \/ 1 \in DOMAIN toChild /\ toChild[1].to = p /\ toChild[1].what = ask'[p],
         \A m \in M, p \in Pass :
           worker'[p] = "binding" /\ m.to = p /\ m.what \notin {"yes", "uncertain"} => NothingStored'
  PROVE  SecretInv'
<1>0. Pass \subseteq Client /\ Nobody \notin Client
  BY SharingConstants
<1>1. \A i \in DOMAIN toChild' :
        \/ toChild'[i] \in M \/ toChild'[i].to = Nobody
        \/ /\ i + d \in DOMAIN toChild /\ toChild'[i].to = toChild[i + d].to
           /\ toChild'[i].what = toChild[i + d].what
  BY CarriedNames DEF SharingTypeOK
<1>2. \A i \in DOMAIN toParent' :
        /\ i \in Nat /\ i > 0
        /\ \/ /\ i + e \in DOMAIN toParent /\ toParent'[i].what = toParent[i + e].what
              /\ toParent'[i].to = toParent[i + e].to \/ toParent'[i].to = Nobody
           \/ i = Len(toParent') /\ toParent'[i] \in N
  BY CarriedNames DEF SharingTypeOK
<1>3. \A i \in DOMAIN toParent' : toParent'[i].what = "create" =>
        i + e \in DOMAIN toParent /\ i + e # 0 /\ toParent[i + e].what = "create"
  BY <1>2
<1>4. NothingStored => NothingStored'
  BY <1>3 DEF NothingStored
<1>5. ~binding' => NothingStored'
  BY <1>4 DEF SecretInv
<1>6. \A p \in Pass : Owner(p)' => Owner(p)
  BY DEF Owner
<1>7. \A p \in Pass : Owner(p)' => binding' /\ \A q \in Pass : Owner(q)' => q = p
  BY <1>6 DEF SecretInv
<1>8. \A p \in Pass : worker'[p] = "removing" => NothingStored'
  BY <1>4 DEF SecretInv, Owner
<1>9. ASSUME NEW p \in Pass, worker'[p] = "binding"
      PROVE  RefusalIsTrue(p)'
  <2>1. worker[p] = "binding" /\ RefusalIsTrue(p) /\ p # Nobody
    BY <1>0, <1>9 DEF Owner, SecretInv
  <2>2. ask'[p] \notin {"create", "yes", "uncertain"} => NothingStored'
    BY <1>4, <1>9, <2>1 DEF RefusalIsTrue
  <2>3. \A i \in DOMAIN toChild' :
          toChild'[i].to = p /\ toChild'[i].what \notin {"yes", "uncertain"} => NothingStored'
    BY <1>1, <1>4, <1>9, <2>1 DEF RefusalIsTrue
  <2>4. ASSUME NEW i \in DOMAIN toParent', toParent'[i].to = p
        PROVE  /\ ~secret' /\ serving'.op # "create"
               /\ \A j \in DOMAIN toParent' : toParent'[j].what = "create" => i = j
    <3>1. i \in Nat /\ i + e \in DOMAIN toParent /\ toParent[i + e].to = p /\ (e = 1 => i + e # 1)
      BY <1>2, <1>9, <2>1, <2>4
    <3>2. /\ ~secret /\ serving.op # "create"
          /\ \A j \in DOMAIN toParent : toParent[j].what = "create" => i + e = j
      BY <2>1, <3>1 DEF RefusalIsTrue
    <3>3. ~secret' /\ serving'.op # "create"
      BY <3>1, <3>2
    <3>4. ASSUME NEW j \in DOMAIN toParent', toParent'[j].what = "create"
          PROVE  i = j
      <4>1. j \in Nat /\ j + e \in DOMAIN toParent /\ toParent[j + e].what = "create"
        BY <1>2, <1>3, <3>4
      <4>2. i + e = j + e
        BY <3>2, <4>1
      <4> QED BY <3>1, <4>1, <4>2
    <3> QED BY <3>3, <3>4
  <2>5. ASSUME serving'.client = p
        PROVE  ~secret' /\ \A j \in DOMAIN toParent' : toParent'[j].what # "create"
    <3>1. CASE serving.client = p
      <4>1. ~secret /\ \A j \in DOMAIN toParent : toParent[j].what # "create"
        BY <2>1, <3>1 DEF RefusalIsTrue
      <4> QED BY <1>3, <2>1, <2>5, <4>1
    <3>2. CASE e = 1 /\ 1 \in DOMAIN toParent /\ toParent[1].to = p
      <4>1. /\ ~secret /\ serving.op # "create"
            /\ \A j \in DOMAIN toParent : toParent[j].what = "create" => 1 = j
        BY <2>1, <3>2 DEF RefusalIsTrue
      <4>2. \A j \in DOMAIN toParent' : j + 1 # 1
        BY <1>2
      <4> QED BY <1>3, <3>2, <4>1, <4>2
    <3> QED BY <2>1, <2>5, <3>1, <3>2
  <2> QED BY <2>2, <2>3, <2>4, <2>5 DEF RefusalIsTrue
<1> QED BY <1>5, <1>7, <1>8, <1>9 DEF SecretInv

\* The operator's changes leave the secret alone.
LEMMA OperatorSecret ==
  ASSUME SharingTypeOK, SharingTypeOK', SecretInv, Operator
  PROVE  SecretInv'
<1>0. UNCHANGED <<worker, ask, binding, secret>> /\ Nobody \notin Client \cup Call
      /\ Client \cap Call = {} /\ Pass \subseteq Client
  BY SharingConstants
     DEF Operator, CallBegins, CallSaves, CallFails, CallReturns, CallEnds, FenceTimesOut,
         companion, broker
<1>1. /\ serving'.client = serving.client /\ serving'.op = serving.op
  <2>1. GrowsStale \/ serving' = serving
    BY DEF Operator, CallBegins, CallSaves, CallFails, CallReturns, CallEnds, FenceTimesOut, broker
  <2> QED BY <2>1 DEF GrowsStale, SharingTypeOK, Servings
<1>2. \E M : Carries(toChild, toChild', 0, M) /\ \A m \in M : m.to \notin Pass
  <2>1. Carries(toChild, toChild, 0, {})
    BY StaysCarried DEF SharingTypeOK
  <2>2. ASSUME NEW c \in Call \cup {Nobody}
        PROVE  \A m \in {Invalidate(c)} : m.to \notin Pass
    BY <1>0, MessageFields
  <2>3. ASSUME NEW c \in Call, NEW value \in BOOLEAN, CallBegins(c, value)
        PROVE  Carries(toChild, toChild', 0, {Invalidate(c)})
    BY <2>3, MessagesSent, AppendIsCarried DEF CallBegins, SharingTypeOK
  <2>4. ASSUME NEW c \in Call, NEW off, CallEnds(c, off)
        PROVE  Carries(toChild, toChild', 0, {Invalidate(Nobody)})
    BY <2>4, CallEndsCarries
  <2>5. ASSUME NEW c \in Call, FenceTimesOut(c)
        PROVE  Carries(toChild, toChild', 0, {})
    BY <2>5, ForgetsIsCarried DEF FenceTimesOut, SharingTypeOK
  <2>6. \/ \E c \in Call : Carries(toChild, toChild', 0, {Invalidate(c)})
        \/ Carries(toChild, toChild', 0, {Invalidate(Nobody)})
        \/ Carries(toChild, toChild', 0, {})
    <3>1. \/ \E c \in Call, value \in BOOLEAN : CallBegins(c, value)
          \/ \E c \in Call : CallEnds(c, FALSE) \/ CallEnds(c, ~call[c].value)
          \/ \E c \in Call : FenceTimesOut(c)
          \/ toChild' = toChild
      BY DEF Operator, CallSaves, CallFails, CallReturns
    <3>2. CASE \E c \in Call : CallEnds(c, FALSE) \/ CallEnds(c, ~call[c].value)
      BY <2>4, <3>2
    <3>3. CASE \E c \in Call, value \in BOOLEAN : CallBegins(c, value)
      BY <2>3, <3>3
    <3>4. CASE \E c \in Call : FenceTimesOut(c)
      BY <2>5, <3>4
    <3>5. CASE toChild' = toChild
      BY <2>1, <3>5
    <3> QED BY <3>1, <3>2, <3>3, <3>4, <3>5
  <2>7. ASSUME NEW c \in Call \cup {Nobody}, Carries(toChild, toChild', 0, {Invalidate(c)})
        PROVE  \E M : Carries(toChild, toChild', 0, M) /\ \A m \in M : m.to \notin Pass
    <3>1. Carries(toChild, toChild', 0, {Invalidate(c)})
          /\ \A m \in {Invalidate(c)} : m.to \notin Pass
      BY <2>2, <2>7
    <3> WITNESS {Invalidate(c)}
    <3> QED BY ONLY <3>1
  <2>8. ASSUME Carries(toChild, toChild', 0, {})
        PROVE  \E M : Carries(toChild, toChild', 0, M) /\ \A m \in M : m.to \notin Pass
    <3>1. \A m \in {} : m.to \notin Pass
      OBVIOUS
    <3> WITNESS {}
    <3> QED BY ONLY <2>8, <3>1
  <2>9. CASE \E c \in Call : Carries(toChild, toChild', 0, {Invalidate(c)})
    <3>1. PICK c \in Call : Carries(toChild, toChild', 0, {Invalidate(c)})
      BY <2>9
    <3> QED BY ONLY <2>7, <3>1
  <2> QED BY ONLY <2>6, <2>7, <2>8, <2>9
<1>3. Carries(toParent, toParent', 0, {})
  <2>1. /\ Carries(toParent, toParent, 0, {})
        /\ \A c \in Call : Carries(toParent, Forgets(toParent, {c}), 0, {})
    BY StaysCarried, ForgetsIsCarried DEF SharingTypeOK
  <2>2. toParent' = toParent \/ \E c \in Call : toParent' = Forgets(toParent, {c})
    BY DEF Operator, CallBegins, CallSaves, CallFails, CallReturns, CallEnds, FenceTimesOut
  <2> QED BY <2>1, <2>2
<1>4. PICK M : Carries(toChild, toChild', 0, M) /\ \A m \in M : m.to \notin Pass
  BY <1>2
<1>5. \A p \in Pass : Owner(p)' => worker'[p] = worker[p]
  BY <1>0
<1> QED BY ONLY SharingTypeOK, SharingTypeOK', SecretInv, <1>0, <1>1, <1>3, <1>4, <1>5, SecretStays

\* The desktop process is done with a request.
LEMMA AnsweredSecret ==
  ASSUME SharingTypeOK, SharingTypeOK', SecretInv, NEW a \in Answers, Answered(a),
         UNCHANGED <<worker, ask, binding, toParent>>,
         secret' => secret \/ serving.op = "create",
         a \notin {"yes", "uncertain"} => UNCHANGED secret
  PROVE  SecretInv'
<1> DEFINE M == IF serving.client = Nobody THEN {} ELSE {Response(serving.client, a)}
<1>0. serving.client \in Client \cup {Nobody} /\ Nobody \notin Client /\ Pass \subseteq Client
  BY SharingConstants DEF SharingTypeOK, Servings
<1>1. Carries(toChild, toChild', 0, M) /\ Carries(toParent, toParent', 0, {})
  <2>1. Carries(toChild, toChild', 0, M)
    BY <1>0, MessagesSent, AppendIsCarried, StaysCarried DEF Answered, Replies, SharingTypeOK
  <2> QED BY <2>1, StaysCarried DEF SharingTypeOK
<1>2. \A m \in M : m.to = serving.client /\ m.what = a
  BY MessageFields
<1> HIDE DEF M
<1>3. serving'.client = Nobody /\ serving'.op = "none"
  BY DEF Answered, NoServing
<1>4. ASSUME NEW m \in M, NEW p \in Pass, worker'[p] = "binding", m.to = p,
             m.what \notin {"yes", "uncertain"}
      PROVE  NothingStored'
  <2>1. serving.client = p /\ UNCHANGED secret
    BY <1>2, <1>4
  <2>2. ~secret /\ \A j \in DOMAIN toParent : toParent[j].what # "create"
    BY <1>4, <2>1 DEF SecretInv, RefusalIsTrue
  <2> QED BY <1>3, <2>1, <2>2 DEF NothingStored
<1> QED BY <1>1, <1>3, <1>4, SecretStays

LEMMA DesktopSecret ==
  ASSUME SharingTypeOK, SharingTypeOK', ChannelInv, SecretInv, Desktop
  PROVE  SecretInv'
<1>0. UNCHANGED <<worker, ask, binding>>
      /\ Nobody \notin Client /\ Pass \subseteq Client
      /\ Carries(toChild, toChild, 0, {}) /\ Carries(toParent, toParent, 0, {})
  BY SharingConstants, StaysCarried
     DEF Desktop, ParentReceives, Authorizes, FetchesSecret, StoresSecret, companion, SharingTypeOK
<1>1. CASE ParentReceives
  <2> DEFINE m == Head(toParent)
  <2>1. /\ Carries(toParent, toParent', 1, {}) /\ m \in ToParent /\ m = toParent[1] /\ 1 \in DOMAIN toParent
        /\ toParent' = Tail(toParent) /\ toParent # <<>> /\ UNCHANGED secret
    BY <1>1, FirstOfParent DEF ParentReceives, ChannelInv
  <2> HIDE DEF m
  <2>2. CASE Acknowledged(m)
    BY <1>0, <2>1, <2>2, SecretStays DEF Acknowledged
  <2>3. CASE Requested(m)
    <3>1. CASE serving.op # "none"
      <4> DEFINE M == {Response(m.to, "retry")}
      <4>1. Carries(toChild, toChild', 0, M) /\ serving' = serving
        <5>1. m.to \in Client \cup {Nobody}
          BY <2>1, <2>3, MessageTypes DEF Requested
        <5>2. Carries(toChild, Append(toChild, Response(m.to, "retry")), 0, M)
          BY <5>1, MessagesSent, AppendIsCarried DEF SharingTypeOK, Answers
        <5>3. Carries(toChild, toChild, 0, M)
          BY <1>0 DEF Carries
        <5> QED BY <2>3, <3>1, <5>2, <5>3 DEF Requested, Replies
      <4>2. \A n \in M : n.to = m.to
        BY MessageFields
      <4> HIDE DEF M
      <4>3. ASSUME NEW n \in M, NEW p \in Pass, worker'[p] = "binding", n.to = p
            PROVE  NothingStored'
        <5>1. /\ ~secret /\ serving.op # "create"
              /\ \A j \in DOMAIN toParent : toParent[j].what = "create" => 1 = j
          BY <1>0, <2>1, <4>2, <4>3 DEF SecretInv, RefusalIsTrue
        <5>2. \A j \in DOMAIN toParent' :
                j + 1 \in DOMAIN toParent /\ j + 1 # 1 /\ toParent'[j] = toParent[j + 1]
          BY <2>1, TailIsCarried DEF SharingTypeOK
        <5> QED BY <2>1, <4>1, <5>1, <5>2 DEF NothingStored
      <4> QED BY <1>0, <2>1, <4>1, <4>3, SecretStays
    <3>2. CASE serving.op = "none"
      <4>1. serving'.client = m.to /\ serving'.op = m.what /\ UNCHANGED toChild
        BY <2>3, <3>2 DEF Requested
      <4> QED BY <1>0, <2>1, <4>1, SecretStays
    <3> QED BY <3>1, <3>2
  <2> QED BY <1>1, <2>2, <2>3 DEF ParentReceives, m
<1>2. CASE Authorizes
  <2>1. UNCHANGED <<secret, toParent>> /\ Authorization \in Answers /\ "denied" \in Answers
    BY <1>2 DEF Authorizes, Authorization, Answers
  <2>2. CASE \E a \in Answers : Answered(a)
    BY <1>0, <2>1, <2>2, AnsweredSecret
  <2>3. CASE serving' = [serving EXCEPT !.step =
                           IF serving.op = "read" THEN "fetching" ELSE "storing"] /\ UNCHANGED toChild
    <3>1. serving'.client = serving.client /\ serving'.op = serving.op
      BY <2>3 DEF SharingTypeOK, Servings
    <3> QED BY <1>0, <2>1, <2>3, <3>1, SecretStays
  <2> QED BY <1>2, <2>1, <2>2, <2>3 DEF Authorizes
<1>3. CASE FetchesSecret
  <2>1. UNCHANGED <<secret, toParent>> /\ \E a \in Answers : Answered(a)
    BY <1>3 DEF FetchesSecret, Answers
  <2> QED BY <1>0, <2>1, AnsweredSecret
<1>4. CASE StoresSecret
  <2>1. serving.op = "create" /\ UNCHANGED toParent
    BY <1>4 DEF StoresSecret, ChannelInv, ServingIsSound
  <2>2. Answered("yes") \/ Answered("uncertain") \/ (UNCHANGED secret /\ Answered("retry"))
    BY <1>4 DEF StoresSecret
  <2>3. {"yes", "uncertain", "retry"} \subseteq Answers
    BY DEF Answers
  <2> QED BY <1>0, <2>1, <2>2, <2>3, AnsweredSecret
<1> QED BY <1>1, <1>2, <1>3, <1>4 DEF Desktop

LEMMA PassSecret ==
  ASSUME SharingTypeOK, SharingTypeOK', ChannelInv, WorkersAreAwaited, SecretInv,
         NEW p \in Pass, PassWork(p)
  PROVE  SecretInv'
<1>0. /\ Pass \subseteq Client /\ ask \in [Client -> {"none"} \cup Ops \cup Answers]
      /\ worker \in [Pass -> {"none", "working", "clearing", "fetching", "binding", "removing"}]
      /\ Ops = {"preference", "read", "create"} /\ Nobody \notin Client
      /\ Answers = {"yes", "no", "absent", "denied", "retry", "uncertain"}
  BY SharingConstants DEF SharingTypeOK, Ops, Answers
<1>1. ASSUME UNCHANGED <<secret, binding>>, serving'.op = serving.op,
             serving'.client \in {serving.client, Nobody},
             worker'[p] \notin {"binding", "removing"},
             \A q \in Pass : q # p => worker'[q] = worker[q] /\ ask'[q] = ask[q],
             Carries(toChild, toChild', 0, {}), NEW op \in {"preference", "read"},
             Carries(toParent, toParent', 0, {Request(p, op)})
      PROVE  SecretInv'
  <2> DEFINE N == {Request(p, op)}
  <2>1. \A n \in N : n.what # "create" /\ n.to = p
    BY MessageFields
  <2> HIDE DEF N
  <2>2. Carries(toParent, toParent', 0, N)
    BY <1>1 DEF N
  <2>3. \A q \in Pass : Owner(q)' => worker'[q] = worker[q]
    BY <1>1 DEF Owner
  <2>4. /\ \A q \in Pass : worker'[q] = "binding" => ask'[q] = ask[q]
        /\ \A n \in N : n.what # "create" /\ \A q \in Pass : worker'[q] = "binding" => n.to # q
    BY <1>1, <2>1
  <2> QED BY ONLY SharingTypeOK, SharingTypeOK', SecretInv, <1>1, <2>2, <2>3, <2>4, SecretStays
<1>2. /\ Carries(toChild, toChild, 0, {}) /\ Carries(toChild, Forgets(toChild, {p}), 0, {})
      /\ \A op : /\ Carries(toParent, toParent, 0, {Request(p, op)})
                 /\ Carries(toParent, Forgets(toParent, {p}), 0, {Request(p, op)})
  <2>1. /\ Carries(toChild, toChild, 0, {}) /\ Carries(toChild, Forgets(toChild, {p}), 0, {})
        /\ Carries(toParent, toParent, 0, {}) /\ Carries(toParent, Forgets(toParent, {p}), 0, {})
    BY StaysCarried, ForgetsIsCarried DEF SharingTypeOK
  <2> QED BY <2>1 DEF Carries
<1>3. ASSUME NEW op \in {"preference", "read"}, Asks(p, op), UNCHANGED <<secret, binding, serving>>,
             worker'[p] \notin {"binding", "removing"},
             \A q \in Pass : q # p => worker'[q] = worker[q]
      PROVE  SecretInv'
  <2>1. Carries(toParent, Append(toParent, Request(p, op)), 0, {Request(p, op)})
    BY <1>0, MessagesSent, AppendIsCarried DEF SharingTypeOK
  <2>2. Carries(toParent, toParent', 0, {Request(p, op)}) /\ UNCHANGED toChild
    BY <1>2, <1>3, <2>1 DEF Asks
  <2>3. \A q \in Pass : q # p => ask'[q] = ask[q]
    BY <1>0, <1>3 DEF Asks
  <2> QED BY <1>1, <1>2, <1>3, <2>2, <2>3
<1>4. ASSUME UNCHANGED <<secret, binding, serving, toChild, toParent>>,
             worker'[p] \notin {"binding", "removing"},
             \A q \in Pass : q # p => worker'[q] = worker[q] /\ ask'[q] = ask[q]
      PROVE  SecretInv'
  BY <1>1, <1>2, <1>4
<1>5. CASE PassBegins(p)
  BY <1>3, <1>5 DEF PassBegins, Undisturbed, broker
<1>6. CASE WorkerAsks(p)
  <2>1. \/ worker' = [worker EXCEPT ![p] = "clearing"] /\ Asks(p, "preference")
        \/ worker' = [worker EXCEPT ![p] = "fetching"] /\ Asks(p, "read")
    BY <1>6 DEF WorkerAsks, Becomes
  <2> QED BY <1>0, <1>3, <1>6, <2>1 DEF WorkerAsks, Undisturbed, broker
<1>7. CASE PassDecides(p)
  <2>1. worker[p] = "none"
    BY <1>7 DEF PassDecides, WorkersAreAwaited
  <2> QED BY <1>0, <1>4, <1>7, <2>1 DEF PassDecides, Becomes, AskTaken, Undisturbed, broker
<1>8. CASE Sends(p) \/ HasSecret(p)
  BY <1>0, <1>4, <1>8 DEF Sends, HasSecret, Becomes, AskTaken, Undisturbed, broker
<1>9. CASE Abandons(p)
  <2>1. CASE pass[p].phase = "asking"
    <3>1. worker'[p] = "none" /\ \A q \in Pass : q # p => worker'[q] = worker[q] /\ ask'[q] = ask[q]
      BY <1>0, <1>9, <2>1 DEF Abandons, WorkersAreAwaited
    <3>2. serving'.op = serving.op /\ serving'.client \in {serving.client, Nobody}
      BY <1>9, <2>1 DEF Abandons, SharingTypeOK, Servings
    <3> QED BY <1>1, <1>2, <1>9, <2>1, <3>1, <3>2 DEF Abandons
  <2>2. CASE pass[p].phase # "asking"
    BY <1>9, <2>2 DEF Abandons, SecretInv, NothingStored, Owner, RefusalIsTrue
  <2> QED BY <2>1, <2>2
<1>10. CASE PassReleases(p) \/ PassTimesOut(p)
  BY <1>10 DEF PassReleases, PassTimesOut, broker, companion, SecretInv, NothingStored, Owner, RefusalIsTrue
<1>11. CASE Bound(p)
  <2>1. /\ UNCHANGED <<secret, binding, serving, toChild, toParent>> /\ worker[p] = "binding"
        /\ worker'[p] = IF ask[p] = "yes" THEN "working" ELSE "removing"
        /\ \A q \in Pass : q # p => worker'[q] = worker[q] /\ ask'[q] = ask[q]
        /\ ask[p] \in Answers \ {"uncertain"}
    BY <1>0, <1>11 DEF Bound, Given, Becomes, AskTaken, Undisturbed, broker
  <2>2. CASE ask[p] = "yes"
    BY <1>4, <2>1, <2>2
  <2>3. CASE ask[p] # "yes"
    <3>1. ask[p] \notin {"create", "yes", "uncertain"}
      BY <1>0, <2>1, <2>3
    <3>2. NothingStored /\ binding /\ \A q \in Pass : Owner(q) => q = p
      BY <2>1, <3>1 DEF SecretInv, RefusalIsTrue, Owner
    <3>3. NothingStored' /\ \A q \in Pass : Owner(q)' => q = p
      BY <2>1, <3>2 DEF NothingStored, Owner
    <3>4. worker'[p] = "removing" /\ binding'
      BY <2>1, <2>3, <3>2
    <3> QED BY <3>3, <3>4 DEF SecretInv, Owner
  <2> QED BY <2>2, <2>3
<1>12. CASE WorkerEnds(p)
  <2>1. /\ UNCHANGED <<secret, serving, toChild, toParent>> /\ worker'[p] = "none"
        /\ \A q \in Pass : q # p => worker'[q] = worker[q] /\ ask'[q] = ask[q]
        /\ binding' = (binding /\ worker[p] # "removing")
    BY <1>0, <1>12 DEF WorkerEnds, Becomes, broker
  <2>2. CASE worker[p] # "removing"
    <3>1. UNCHANGED binding
      BY <2>1, <2>2 DEF SharingTypeOK
    <3> QED BY <1>4, <2>1, <3>1
  <2>3. CASE worker[p] = "removing"
    <3>1. NothingStored /\ \A q \in Pass : Owner(q) => q = p
      BY <2>3 DEF SecretInv, Owner
    <3>2. NothingStored' /\ \A q \in Pass : ~Owner(q)'
      BY <2>1, <3>1 DEF NothingStored, Owner
    <3> QED BY <3>2 DEF SecretInv, Owner
  <2> QED BY <2>2, <2>3
<1>13. CASE Binds(p)
  <2>1. /\ UNCHANGED <<secret, serving, toChild>> /\ binding' /\ worker'[p] = "binding"
        /\ \A q \in Pass : q # p => worker'[q] = worker[q]
        /\ ask[p] = "absent" /\ ~binding
    BY <1>0, <1>13 DEF Binds, Becomes, broker
  <2>2. NothingStored /\ \A q \in Pass : ~Owner(q)
    BY <2>1 DEF SecretInv
  <2>3. \A q \in Pass : Owner(q)' => q = p
    BY <2>1, <2>2 DEF Owner
  <2>4. serving.client # p /\ Free(p, 0, 0)
    BY <1>0, <2>1, NotNamed
  <2>5. /\ \A i \in DOMAIN toChild : i > 0 /\ toChild[i].to # p
        /\ \A i \in DOMAIN toParent : i > 0 /\ toParent[i].to # p
    BY <2>4 DEF Free, SharingTypeOK
  <2>6. CASE ask' = [ask EXCEPT ![p] = "retry"] /\ UNCHANGED toParent
    <3>1. NothingStored'
      BY <2>1, <2>2, <2>6 DEF NothingStored
    <3>2. RefusalIsTrue(p)'
      BY <2>1, <2>4, <2>5, <2>6, <3>1 DEF RefusalIsTrue
    <3> QED BY <2>1, <2>3, <3>1, <3>2 DEF SecretInv, Owner
  <2>7. CASE ask' = [ask EXCEPT ![p] = "create"] /\ toParent' = Append(toParent, Request(p, "create"))
    <3>1. \A i \in DOMAIN toParent' :
            \/ i \in DOMAIN toParent /\ toParent'[i] = toParent[i]
            \/ i = Len(toParent) + 1
      BY <2>7, <1>0, MessagesSent, AppendIsCarried DEF SharingTypeOK
    <3>2. ask'[p] = "create" /\ ~secret /\ serving.op # "create"
          /\ \A i \in DOMAIN toParent : toParent[i].what # "create"
      BY <1>0, <2>2, <2>7 DEF NothingStored
    <3>3. \A i \in DOMAIN toParent' : toParent'[i].to = p => i = Len(toParent) + 1
      BY <2>5, <3>1
    <3>4. \A i \in DOMAIN toParent' : toParent'[i].what = "create" => i = Len(toParent) + 1
      BY <3>1, <3>2
    <3>5. RefusalIsTrue(p)'
      BY <2>1, <2>4, <2>5, <3>2, <3>3, <3>4 DEF RefusalIsTrue
    <3> QED BY <2>1, <2>3, <3>5 DEF SecretInv, Owner
  <2> QED BY <1>13, <2>6, <2>7 DEF Binds
<1> QED BY <1>5, <1>6, <1>7, <1>8, <1>9, <1>10, <1>11, <1>12, <1>13 DEF PassWork

LEMMA CompanionSecret ==
  ASSUME SharingTypeOK, SharingTypeOK', ChannelInv, WorkersAreAwaited, SecretInv, Companion
  PROVE  SecretInv'
<1>0. /\ Pass \subseteq Client /\ ask \in [Client -> {"none"} \cup Ops \cup Answers]
      /\ Ops = {"preference", "read", "create"} /\ Nobody \notin Client
      /\ Answers = {"yes", "no", "absent", "denied", "retry", "uncertain"}
      /\ \A p \in Pass : worker[p] = "binding" => ask[p] \in {"create"} \cup Answers
      /\ Carries(toChild, toChild, 0, {}) /\ Carries(toParent, toParent, 0, {})
  BY SharingConstants, StaysCarried DEF SharingTypeOK, Ops, Answers, WorkersAreAwaited
<1>1. CASE ChildReceives
  <2>0. UNCHANGED <<secret, binding, worker>> /\ toChild # <<>>
    BY <1>1 DEF ChildReceives
  <2>1. /\ Head(toChild) \in ToChild /\ Head(toChild) = toChild[1] /\ 1 \in DOMAIN toChild
        /\ Tail(toChild) \in Seq(ToChild) /\ Carries(toChild, Tail(toChild), 1, {})
    BY <2>0, FirstOfChild DEF ChannelInv
  <2>2. CASE ChildInvalidated(Head(toChild))
    <3> DEFINE N == {Invalidated(Head(toChild).to)}
    <3>1. /\ Head(toChild).to \in Call \cup {Nobody}
          /\ Carries(toChild, toChild', 1, {}) /\ Carries(toParent, toParent', 0, N)
      BY <2>0, <2>2, FenceIsPassedOn DEF ChannelInv
    <3>2. \A n \in N : n.what # "create" /\ \A p \in Pass : worker'[p] = "binding" => n.to # p
      BY <1>0, <3>1, MessageFields, SharingConstants
    <3> HIDE DEF N
    <3>3. /\ serving'.op = serving.op /\ serving'.client \in {serving.client, Nobody}
          /\ \A p \in Pass : worker'[p] = "binding" => ask'[p] = ask[p]
      BY <1>0, <2>0, <2>2 DEF ChildInvalidated, SharingTypeOK, Servings
    <3>4. \A p \in Pass : Owner(p)' => worker'[p] = worker[p]
      BY <2>0
    <3> QED BY ONLY SharingTypeOK, SharingTypeOK', SecretInv, <2>0, <3>1, <3>2, <3>3, <3>4, SecretStays
  <2>3. CASE ChildAnswered(Head(toChild))
    <3>1. \A p \in Pass : ask'[p] = ask[p] \/ (toChild[1].to = p /\ toChild[1].what = ask'[p])
      BY <1>0, <2>1, <2>3 DEF ChildAnswered
    <3> QED BY <1>0, <2>0, <2>1, <2>3, <3>1, SecretStays DEF ChildAnswered
  <2>4. CASE toChild' = Tail(toChild) /\ UNCHANGED <<ask, toParent, serving>>
    BY <1>0, <2>0, <2>1, <2>4, SecretStays
  <2> QED BY <1>1, <2>2, <2>3, <2>4 DEF ChildReceives
<1>2. ASSUME UNCHANGED <<secret, binding, worker>>, serving'.op = serving.op,
             serving'.client \in {serving.client, Nobody}, NEW who,
             toChild' = Forgets(toChild, who), toParent' = Forgets(toParent, who),
             \A p \in Pass : ask'[p] = ask[p] \/ ask'[p] = "uncertain" \/ ask[p] \in {"preference", "read"}
      PROVE  SecretInv'
  <2>1. Carries(toChild, toChild', 0, {}) /\ Carries(toParent, toParent', 0, {})
    BY <1>2, ForgetsIsCarried DEF SharingTypeOK
  <2>2. \A p \in Pass : worker'[p] = "binding" => ask'[p] = ask[p] \/ ask'[p] = "uncertain"
    BY <1>0, <1>2
  <2> QED BY <1>2, <2>1, <2>2, SecretStays
<1>3. ASSUME NEW c \in Client, RequestTimesOut(c)
      PROVE  SecretInv'
  <2>1. /\ serving'.op = serving.op /\ serving'.client \in {serving.client, Nobody}
        /\ \A p \in Pass : ask'[p] = ask[p] \/ ask'[p] = "uncertain" \/ ask[p] \in {"preference", "read"}
    BY <1>0, <1>3 DEF RequestTimesOut, SharingTypeOK, Servings
  <2> QED BY <1>2, <1>3, <2>1 DEF RequestTimesOut
<1>4. CASE Disposes
  <2>1. /\ serving'.op = serving.op /\ serving'.client \in {serving.client, Nobody}
        /\ \A p \in Pass : ask'[p] = ask[p] \/ ask'[p] = "uncertain" \/ ask[p] \in {"preference", "read"}
    BY <1>0, <1>4 DEF Disposes, SharingTypeOK, Servings
  <2> QED BY <1>2, <1>4, <2>1 DEF Disposes
<1>5. CASE Starts \/ Stops \/ TimePasses \/ Publishes
  BY <1>5 DEF Starts, Stops, TimePasses, Publishes, Alone, broker, companion, SecretInv, NothingStored,
     Owner, RefusalIsTrue
<1>6. CASE CompanionExits
  <2>1. /\ \A p \in Pass : worker'[p] = "none"
        /\ binding' = binding /\ toParent' = <<>> /\ serving'.op = "none"
    BY <1>6 DEF CompanionExits, NoServing
  <2>2. ~binding => ~secret /\ serving.step # "storing"
    BY DEF SecretInv, NothingStored, ChannelInv, ServingIsSound
  <2>3. ~binding => ~secret'
    BY <1>6, <2>2 DEF CompanionExits
  <2> QED BY <2>1, <2>3 DEF SecretInv, NothingStored, Owner
<1> QED BY <1>1, <1>3, <1>4, <1>5, <1>6, PassSecret DEF Companion

LEMMA SecretStep ==
  ASSUME SharingTypeOK, SharingTypeOK', ChannelInv, WorkersAreAwaited, SecretInv, [SharingNext]_sharing
  PROVE  SecretInv'
<1>1. CASE UNCHANGED sharing
  BY <1>1 DEF sharing, broker, companion, SecretInv, NothingStored, Owner, RefusalIsTrue
<1> QED BY <1>1, OperatorSecret, DesktopSecret, CompanionSecret DEF SharingNext

(***************************************************************************)
(* The composed system: the inductive invariant, and what follows from it. *)
(***************************************************************************)
SharingInv ==
  /\ SchedulerInv /\ SharingTypeOK /\ ChannelInv /\ WorkersAreAwaited /\ FencesAreQuiet /\ SecretInv

LEMMA InitSharingInv == SharingInit => SharingInv
<1> SUFFICES ASSUME SharingInit PROVE SharingInv
  OBVIOUS
<1>1. SchedulerInv
  BY InitSchedulerInv DEF SharingInit
<1>2. SharingTypeOK
  <2>1. IdleCall \in Calls /\ NoServing \in Servings /\ <<>> \in Seq(ToChild) /\ <<>> \in Seq(ToParent)
    BY DEF Calls, IdleCall, Servings, NoServing
  <2>2. {told, secret, binding, closed} \subseteq BOOLEAN /\ preference \in {"on", "off", "unavailable"}
    BY DEF SharingInit
  <2>3. /\ call \in [Call -> Calls] /\ ask \in [Client -> {"none"} \cup Ops \cup Answers]
        /\ worker \in [Pass -> {"none", "working", "clearing", "fetching", "binding", "removing"}]
    BY <2>1 DEF SharingInit
  <2> QED BY <1>1, <2>1, <2>2, <2>3 DEF SharingInit, SchedulerInv, SharingTypeOK
<1>3. ChannelInv
  BY SharingConstants DEF SharingInit, ChannelInv, FencesAreAwaited, RequestsAreAwaited, OneAtATime,
     ServingIsSound, NoServing
<1>4. WorkersAreAwaited /\ FencesAreQuiet
  BY DEF SharingInit, SchedulerInit, IdlePass, WorkersAreAwaited, FencesAreQuiet, Quiet, YesBehind,
     MaySend, IdleCall
<1>5. SecretInv
  BY DEF SharingInit, SecretInv, NothingStored, NoServing, Owner
<1> QED BY <1>1, <1>2, <1>3, <1>4, <1>5 DEF SharingInv

LEMMA NextSharingInv ==
  ASSUME SharingInv, [SharingNext]_sharing
  PROVE  SharingInv'
<1>1. SchedulerInv'
  BY SharingStepsSchedule, NextSchedulerInv DEF SharingInv
<1>2. SharingTypeOK'
  BY SharingTypeStep DEF SharingInv
<1> QED BY <1>1, <1>2, ChannelStep, WorkersStep, FencesStep, SecretStep DEF SharingInv

\* A pass that begins a request has been told that sharing is on, and no
\* opt-out has come between.
LEMMA SendStep ==
  ASSUME SharingInv, [SharingNext]_sharing, NEW p \in Pass, worker[p] = "clearing", worker'[p] = "working"
  PROVE  ~OptedOut
<1>1. worker \in [Pass -> {"none", "working", "clearing", "fetching", "binding", "removing"}]
      /\ pass[p].phase # "asking"
  BY DEF SharingInv, SharingTypeOK, WorkersAreAwaited
<1>2. Companion
  <2>1. CASE Operator \/ Desktop \/ UNCHANGED sharing
    BY <2>1 DEF Operator, CallBegins, CallSaves, CallFails, CallReturns, CallEnds, FenceTimesOut, Desktop,
       ParentReceives, Authorizes, FetchesSecret, StoresSecret, companion, sharing
  <2> QED BY <2>1 DEF SharingNext
<1>3. \E q \in Pass : PassWork(q)
  <2>1. CASE ChildReceives \/ Starts \/ Stops \/ Disposes \/ TimePasses \/ Publishes \/ CompanionExits
    BY <2>1 DEF ChildReceives, Starts, Stops, Disposes, TimePasses, Publishes, CompanionExits, Alone, companion
  <2>2. CASE \E c \in Client : RequestTimesOut(c)
    BY <2>2 DEF RequestTimesOut
  <2> QED BY <1>2, <2>1, <2>2 DEF Companion
<1>4. PICK q \in Pass : PassWork(q)
  BY <1>3
<1>5. MaySend(p)
  <2>1. q = p /\ Sends(p)
    BY <1>1, <1>4 DEF PassWork, PassBegins, PassDecides, Abandons, PassReleases, PassTimesOut, WorkerAsks, Sends,
       HasSecret, Binds, Bound, WorkerEnds, Becomes, companion
  <2> QED BY <2>1 DEF Sends
<1> QED BY <1>5 DEF SharingInv, FencesAreQuiet, Quiet

\* The inductive invariant holds in every state of the composed system.
THEOREM SharingSpecInv == SharingSpec => []SharingInv
BY InitSharingInv, NextSharingInv, PTL DEF SharingSpec

\* The types of both processes, and of what is in flight between them.
THEOREM SharingSpecTypeOK == SharingSpec => []SharingTypeOK
<1> SharingInv => SharingTypeOK BY DEF SharingInv
<1> QED BY SharingSpecInv, PTL

\* However a create ends (denied, lost, timed out or cut short by a crash), a
\* secret that has come into the store has its binding file.
THEOREM NoSecretIsOrphaned == SharingSpec => []NoOrphanSecret
<1> SharingInv => NoOrphanSecret BY DEF SharingInv, SecretInv, NothingStored, NoOrphanSecret
<1> QED BY SharingSpecInv, PTL

\* Once the operator has been told of an opt-out no pass, under way or
\* abandoned, begins another request, however long its answer was in flight.
THEOREM NothingSentAfterOptOut == SharingSpec => NoSendAfterOptOut
<1>1. SharingInv /\ [SharingNext]_sharing =>
        [\A p \in Pass : worker[p] = "clearing" /\ worker'[p] = "working" => ~OptedOut]_sharing
  BY SendStep
<1> QED BY <1>1, SharingSpecInv, PTL DEF SharingSpec, NoSendAfterOptOut

\* The companion aborts before it acknowledges: from the moment the desktop
\* process has the acknowledgement, before the choice of the operator has even
\* been reported, and until the change is over, no pass may begin a request.
THEOREM AcknowledgedFenceHolds ==
  SharingSpec => [](\A c \in Call, p \in Pass :
                      call[c].phase # "idle" /\ call[c].fence = "passed" => ~MaySend(p))
<1> SharingInv => \A c \in Call, p \in Pass :
                    call[c].phase # "idle" /\ call[c].fence = "passed" => ~MaySend(p)
  BY DEF SharingInv, FencesAreQuiet, Quiet
<1> QED BY SharingSpecInv, PTL

\* A pass removes its binding only when nothing is stored and no create is on
\* its way, and no other pass, released or not, works with that binding.
THEOREM BindingIsRemovedSafely ==
  SharingSpec => [](\A p \in Pass : worker[p] = "removing" =>
                      NothingStored /\ \A q \in Pass : Owner(q) => q = p)
<1> SharingInv => \A p \in Pass : worker[p] = "removing" =>
                    NothingStored /\ \A q \in Pass : Owner(q) => q = p
  BY DEF SharingInv, SecretInv, Owner
<1> QED BY SharingSpecInv, PTL
===============================================================================
