--------------------------- MODULE RefreshSchedule --------------------------
(***************************************************************************)
(* Who may refresh, and when, in the desktop application: one-shot cadence *)
(* timers, the automatic tick, the refresh lease a dashboard renderer      *)
(* takes while the companion works, its two watchdogs, and the windows the *)
(* renderers live in.                                                      *)
(*                                                                         *)
(*   src/apps/electron/desktop-controller.js                   (main side) *)
(*   src/apps/web/public/electron-refresh-lifecycle.js         (renderer)  *)
(*   src/apps/electron/desktop-lifecycle.js                    (windows)   *)
(*                                                                         *)
(* A step is one turn of an event loop: a timer callback, a message, or    *)
(* the code between two awaits.  Times are left out: a timer may fire at   *)
(* any moment, so a watchdog may find its renderer only slow.  The mode of *)
(* a tick and its reservation are module RefreshCadence.                   *)
(***************************************************************************)
EXTENDS Naturals, Sequences, FiniteSets

CONSTANTS
  Timer,           \* handles of cadence timers
  Session,         \* refresh sessions of renderers; each asks for one lease
  MaxWindows,      \* bound: dashboards opened after the first
  MaxChanges,      \* bound: changes of the refresh interval
  NoTimer, NoLease

ASSUME ScheduleConstants ==
  /\ IsFiniteSet(Timer) /\ Timer # {}
  /\ MaxWindows \in Nat /\ MaxChanges \in Nat
  /\ NoTimer \notin Timer /\ NoLease \notin Session

VARIABLES
  timer,           \* per handle: what its callback does, or that it is free
  tracked,         \* refreshTimer: the handle the controller remembers
  tick,            \* automaticRefreshTickInFlight, and where the tick waits
  ops, running,    \* the controller's queue of operations; is its head begun
  lease,           \* activeRefreshLease; refreshInFlight is lease # NoLease
  heartbeat,       \* the lease the armed heartbeat watchdog is for
  deadline,        \* the lease the armed deadline watchdog is for
  settled,         \* lastSettledRefreshLease
  disposed,
  window,          \* the dashboard window
  session,         \* per session: the renderer's side
  inbox,           \* messages of the renderer to the main process
  windows, changes

cadence == <<timer, tracked, tick>>
leases  == <<lease, heartbeat, deadline, settled>>
queue   == <<ops, running>>
page    == <<window, session, inbox, windows>>
vars    == <<cadence, leases, queue, disposed, page, changes>>
-----------------------------------------------------------------------------
Owner == Session \cup {NoLease}

SessionState ==
  [work   : {"unused", "working", "finishing", "done", "dead"},
   start  : {"unsent", "sent", "granted", "refused", "accepted"},
   late   : BOOLEAN,       \* start() gave up waiting for the reply
   settle : {"unsent", "sent", "answered"}]

Unused == [work |-> "unused", start |-> "unsent", late |-> FALSE, settle |-> "unsent"]

Message == {"started", "heartbeat", "settled"} \X Session

Live == {t \in Timer : timer[t] # "free"}

TypeOK ==
  /\ timer \in [Timer -> {"free", "tick", "followup"}]
  /\ tracked \in Live \cup {NoTimer}
  /\ tick \in {"idle", "choosing", "restoring"}
  /\ ops \in Seq({"rearm", "interval"})
  /\ running \in BOOLEAN
  /\ lease \in Owner /\ heartbeat \in Owner /\ deadline \in Owner
  /\ settled \in Owner
  /\ disposed \in BOOLEAN
  /\ window \in {"none", "loading", "ready"}
  /\ session \in [Session -> SessionState]
  /\ inbox \in Seq(Message)
  /\ windows \in Nat /\ changes \in Nat

\* initialize has armed the first timer; the first dashboard is loading.
Init ==
  /\ \E t \in Timer : /\ timer = [u \in Timer |-> IF u = t THEN "tick" ELSE "free"]
                      /\ tracked = t
  /\ tick = "idle" /\ ops = <<>> /\ running = FALSE
  /\ lease = NoLease /\ heartbeat = NoLease /\ deadline = NoLease
  /\ settled = NoLease /\ disposed = FALSE
  /\ window = "loading" /\ windows = 0
  /\ session = [s \in Session |-> Unused] /\ inbox = <<>>
  /\ changes = 0
-----------------------------------------------------------------------------
(***************************************************************************)
(* Cadence timers.                                                         *)
(***************************************************************************)
Cleared(ts, t) == IF t = NoTimer THEN ts ELSE [ts EXCEPT ![t] = "free"]

\* setRecurringTimer: a new handle, which the controller remembers.
Arm(ts, kind) ==
  \E t \in {u \in Timer : ts[u] = "free"} :
    /\ timer' = [ts EXCEPT ![t] = kind]
    /\ tracked' = t

\* stopRefreshTimer.
StopTimer(ts, t) == timer' = Cleared(ts, t) /\ tracked' = NoTimer

\* startRefreshTimer: stop the remembered timer, and arm one if that is allowed.
StartTimer(ts, t) ==
  IF disposed \/ lease # NoLease THEN StopTimer(ts, t) ELSE Arm(Cleared(ts, t), "tick")

\* A callback forgets whichever timer is remembered.
Fired(t) == [timer EXCEPT ![t] = "free"]

TickPostponed(t) ==
  /\ timer[t] = "tick" /\ tick # "idle"
  /\ StartTimer(Fired(t), NoTimer)
  /\ UNCHANGED <<tick, leases, queue, disposed, page, changes>>

\* A tick under a lease ends here: what ends the lease arms the next timer.
TickDropped(t) ==
  /\ timer[t] = "tick" /\ tick = "idle"
  /\ disposed \/ lease # NoLease
  /\ StopTimer(Fired(t), NoTimer)
  /\ UNCHANGED <<tick, leases, queue, disposed, page, changes>>

TickSkipped(t) ==
  /\ timer[t] = "tick" /\ tick = "idle"
  /\ ~disposed /\ lease = NoLease /\ window # "ready"
  /\ StartTimer(Fired(t), NoTimer)
  /\ UNCHANGED <<tick, leases, queue, disposed, page, changes>>

TickBegins(t) ==
  /\ timer[t] = "tick" /\ tick = "idle"
  /\ ~disposed /\ lease = NoLease /\ window = "ready"
  /\ StopTimer(Fired(t), NoTimer)
  /\ tick' = "choosing"
  /\ UNCHANGED <<leases, queue, disposed, page, changes>>

\* The mode is chosen; the command is sent to the window there is now, and the
\* follow-up is armed over whatever timer was armed meanwhile.
TickDelivers ==
  /\ tick = "choosing" /\ ~disposed /\ window # "none"
  /\ Arm(timer, "followup")
  /\ tick' = "idle"
  /\ UNCHANGED <<leases, queue, disposed, page, changes>>

TickAborted ==
  /\ tick = "choosing" /\ disposed
  /\ tick' = "idle"
  /\ UNCHANGED <<timer, tracked, leases, queue, disposed, page, changes>>

\* Nobody received the command; a reservation is first taken back.
TickUndelivered ==
  /\ tick = "choosing" /\ ~disposed /\ window = "none"
  /\ \/ tick' = "restoring" /\ UNCHANGED <<timer, tracked>>
     \/ tick' = "idle" /\ StartTimer(timer, tracked)
  /\ UNCHANGED <<leases, queue, disposed, page, changes>>

TickRestored ==
  /\ tick = "restoring"
  /\ tick' = "idle" /\ StartTimer(timer, tracked)
  /\ UNCHANGED <<leases, queue, disposed, page, changes>>

FollowupFires(t) ==
  /\ timer[t] = "followup"
  /\ StartTimer(Fired(t), NoTimer)
  /\ UNCHANGED <<tick, leases, queue, disposed, page, changes>>
-----------------------------------------------------------------------------
(***************************************************************************)
(* The operation queue.                                                    *)
(***************************************************************************)
ChangeInterval ==
  /\ changes < MaxChanges /\ changes' = changes + 1
  /\ ops' = Append(ops, "interval")
  /\ UNCHANGED <<cadence, leases, running, disposed, page>>

\* A rearm that is not wanted any more ends at once.
OpBegins ==
  /\ ops # <<>> /\ ~running
  /\ IF Head(ops) = "rearm" /\ (disposed \/ lease # NoLease)
     THEN ops' = Tail(ops) /\ running' = FALSE
     ELSE ops' = ops /\ running' = TRUE
  /\ UNCHANGED <<cadence, leases, disposed, page, changes>>

\* rearmRefreshTimerFromSettings after its read of the settings.
Rearmed ==
  /\ running /\ Head(ops) = "rearm"
  /\ StartTimer(timer, tracked)
  /\ ops' = Tail(ops) /\ running' = FALSE
  /\ UNCHANGED <<tick, leases, disposed, page, changes>>

\* setRefreshInterval after its write of the settings, which may have failed.
IntervalChanged ==
  /\ running /\ Head(ops) = "interval"
  /\ \/ lease = NoLease /\ StartTimer(timer, tracked)
     \/ UNCHANGED <<timer, tracked>>
  /\ ops' = Tail(ops) /\ running' = FALSE
  /\ UNCHANGED <<tick, leases, disposed, page, changes>>
-----------------------------------------------------------------------------
(***************************************************************************)
(* Leases, in the main process.                                            *)
(***************************************************************************)
\* Mutant: the deadline watchdog of the lease stays armed.
ReleaseKeepingDeadline ==
  /\ lease' = NoLease /\ heartbeat' = NoLease /\ deadline' = deadline
  /\ ops' = Append(ops, "rearm")

\* Mutant: a lease ends without arming the cadence again.
ReleaseSilently ==
  /\ lease' = NoLease /\ heartbeat' = NoLease /\ deadline' = NoLease
  /\ ops' = ops

\* The lease is over and a rearm is queued.
Release ==
  /\ lease' = NoLease /\ heartbeat' = NoLease /\ deadline' = NoLease
  /\ ops' = Append(ops, "rearm")

\* recoverRefreshLease, for the lease the watchdog was armed for.
HeartbeatExpires ==
  /\ heartbeat # NoLease
  /\ IF lease = heartbeat
     THEN Release
     ELSE heartbeat' = NoLease /\ UNCHANGED <<lease, deadline, ops>>
  /\ UNCHANGED <<cadence, settled, running, disposed, page, changes>>

DeadlineExpires ==
  /\ deadline # NoLease
  /\ IF lease = deadline
     THEN Release
     ELSE deadline' = NoLease /\ UNCHANGED <<lease, heartbeat, ops>>
  /\ UNCHANGED <<cadence, settled, running, disposed, page, changes>>

Received(kind, s) == inbox # <<>> /\ Head(inbox) = <<kind, s>> /\ inbox' = Tail(inbox)

\* refreshStarted: a lease that is still active is superseded.
HandleStarted(s) ==
  /\ Received("started", s)
  /\ IF disposed
     THEN /\ session' = [session EXCEPT ![s].start = "refused"]
          /\ UNCHANGED <<timer, tracked, lease, heartbeat, deadline>>
     ELSE /\ session' = [session EXCEPT ![s].start = "granted"]
          /\ lease' = s /\ heartbeat' = s /\ deadline' = s
          /\ StopTimer(timer, tracked)
  /\ UNCHANGED <<tick, settled, queue, disposed, window, windows, changes>>

HandleHeartbeat(s) ==
  /\ Received("heartbeat", s)
  /\ heartbeat' = IF ~disposed /\ lease = s THEN s ELSE heartbeat
  /\ UNCHANGED <<cadence, lease, deadline, settled, queue, disposed,
                 window, session, windows, changes>>

\* Mutant: whoever settles ends the active lease.
HandleAnySettled(s) ==
  /\ Received("settled", s)
  /\ session' = [session EXCEPT ![s].settle = "answered"]
  /\ IF ~disposed /\ settled # s
     THEN settled' = s /\ Release
     ELSE UNCHANGED <<leases, ops>>
  /\ UNCHANGED <<cadence, running, disposed, window, windows, changes>>

HandleSettled(s) ==
  /\ Received("settled", s)
  /\ session' = [session EXCEPT ![s].settle = "answered"]
  /\ IF ~disposed /\ settled # s /\ lease = s
     THEN settled' = s /\ Release
     ELSE UNCHANGED <<leases, ops>>
  /\ UNCHANGED <<cadence, running, disposed, window, windows, changes>>

Dispose ==
  /\ ~disposed /\ disposed' = TRUE
  /\ StopTimer(timer, tracked)
  /\ heartbeat' = NoLease /\ deadline' = NoLease
  /\ UNCHANGED <<tick, lease, settled, queue, page, changes>>
-----------------------------------------------------------------------------
(***************************************************************************)
(* Windows.                                                                *)
(***************************************************************************)
\* reconcileDashboardSession.
Reconcile == IF disposed THEN UNCHANGED <<lease, heartbeat, deadline, ops>> ELSE Release

\* destroyWindow: its renderer is gone, and what it had sent is not authorized.
CloseDashboard ==
  /\ window # "none" /\ window' = "none"
  /\ session' = [s \in Session |-> IF session[s].work = "unused" THEN session[s]
                                   ELSE [session[s] EXCEPT !.work = "dead"]]
  /\ inbox' = <<>>
  /\ Reconcile
  /\ UNCHANGED <<cadence, settled, running, disposed, windows, changes>>

\* The page runs before the window counts as ready.
OpenDashboard ==
  /\ window = "none" /\ window' = "loading"
  /\ windows < MaxWindows /\ windows' = windows + 1
  /\ UNCHANGED <<cadence, leases, queue, disposed, session, inbox, changes>>

\* revealDashboardWhenLoaded and onDashboardReady.
DashboardReady ==
  /\ window = "loading" /\ window' = "ready"
  /\ Reconcile
  /\ UNCHANGED <<cadence, settled, running, disposed, session, inbox, windows, changes>>
-----------------------------------------------------------------------------
(***************************************************************************)
(* The renderer.                                                           *)
(***************************************************************************)
Send(kind, s) == inbox' = Append(inbox, <<kind, s>>)

mainVars == <<cadence, leases, queue, disposed, window, windows, changes>>

\* start(), which requestRefresh of the page (app.js) calls for one refresh at a
\* time, once the companion has accepted it.
BeginSession(s) ==
  /\ window # "none" /\ session[s] = Unused
  /\ \A r \in Session : session[r].work \notin {"working", "finishing"}
  /\ session' = [session EXCEPT ![s].work = "working", ![s].start = "sent"]
  /\ Send("started", s)
  /\ UNCHANGED mainVars

\* invokeWithDeadline of refreshStarted.
StartIsLate(s) ==
  /\ session[s].work \in {"working", "finishing", "done"}
  /\ session[s].start \in {"sent", "granted"} /\ ~session[s].late
  /\ session' = [session EXCEPT ![s].late = TRUE]
  /\ UNCHANGED <<mainVars, inbox>>

\* Mutant: a session takes its lease whether or not it has finished meanwhile.
AcceptLeaseAndHold(s) ==
  /\ session[s].start = "granted"
  /\ session[s].work \in {"working", "finishing", "done"}
  /\ session' = [session EXCEPT ![s].start = "accepted"]
  /\ UNCHANGED <<mainVars, inbox>>

\* acceptLease: a finished session settles what it is granted.
AcceptLease(s) ==
  /\ session[s].start = "granted"
  /\ session[s].work \in {"working", "finishing", "done"}
  /\ IF session[s].work = "working"
     THEN session' = [session EXCEPT ![s].start = "accepted"] /\ UNCHANGED inbox
     ELSE /\ session' = [session EXCEPT ![s].start = "accepted", ![s].settle = "sent"]
          /\ Send("settled", s)
  /\ UNCHANGED mainVars

\* sendHeartbeat: armed again after the reply, or its deadline.
SendHeartbeat(s) ==
  /\ session[s].work = "working" /\ session[s].start = "accepted"
  /\ \A i \in DOMAIN inbox : inbox[i] # <<"heartbeat", s>>
  /\ Send("heartbeat", s)
  /\ UNCHANGED <<mainVars, session>>

\* finish: settle the lease, or wait for start() to end.
Finish(s) ==
  /\ session[s].work = "working"
  /\ IF session[s].start = "accepted"
     THEN /\ session' = [session EXCEPT ![s].work = "finishing", ![s].settle = "sent"]
          /\ Send("settled", s)
     ELSE session' = [session EXCEPT ![s].work = "finishing"] /\ UNCHANGED inbox
  /\ UNCHANGED mainVars

\* The settlement was answered or is late, or there is no lease to settle.
FinishReturns(s) ==
  /\ session[s].work = "finishing"
  /\ session[s].start \in {"accepted", "refused"} \/ session[s].late
  /\ session' = [session EXCEPT ![s].work = "done"]
  /\ UNCHANGED <<mainVars, inbox>>
-----------------------------------------------------------------------------
TimerNext(t) ==
  TickPostponed(t) \/ TickDropped(t) \/ TickSkipped(t) \/ TickBegins(t) \/ FollowupFires(t)

TickGoesOn == TickDelivers \/ TickAborted \/ TickUndelivered \/ TickRestored

OpNext == OpBegins \/ Rearmed \/ IntervalChanged

HandleNext == \E s \in Session : HandleStarted(s) \/ HandleHeartbeat(s) \/ HandleSettled(s)

RendererNext(s) ==
  BeginSession(s) \/ StartIsLate(s) \/ AcceptLease(s) \/ SendHeartbeat(s)
    \/ Finish(s) \/ FinishReturns(s)

Next ==
  \/ \E t \in Timer : TimerNext(t)
  \/ TickGoesOn \/ OpNext \/ ChangeInterval
  \/ HandleNext \/ HeartbeatExpires \/ DeadlineExpires \/ Dispose
  \/ CloseDashboard \/ OpenDashboard \/ DashboardReady
  \/ \E s \in Session : RendererNext(s)

Spec == Init /\ [][Next]_vars

\* Armed timers fire, awaits end, queued operations and messages are handled.
\* Nothing is assumed of renderers, users and windows.
MainFairness ==
  /\ \A t \in Timer : WF_vars(TimerNext(t))
  /\ WF_vars(TickGoesOn) /\ WF_vars(OpNext) /\ WF_vars(HandleNext)

\* The absolute deadline of a lease passes, whatever its renderer sends.
CadenceSpec == Spec /\ MainFairness /\ WF_vars(DeadlineExpires)
-----------------------------------------------------------------------------
(***************************************************************************)
(* Properties.                                                             *)
(***************************************************************************)
\* An active lease has both its watchdogs, and no watchdog outlives its lease.
WatchdogsGuardLease ==
  ~disposed => heartbeat = lease /\ deadline = lease

\* The cadence never dies out: a timer is armed, a tick is under way, a lease
\* is active, or the rearm that followed one is still queued.
CadenceSurvives ==
  ~disposed => \/ Live # {} \/ tick # "idle" \/ lease # NoLease
               \/ \E i \in DOMAIN ops : ops[i] = "rearm"

\* A message ends the active lease only if it is that lease's own settlement:
\* late messages of sessions that were superseded, timed out or replaced do not.
OnlyOwnSettlementReleases ==
  [][\A s \in Session :
       lease = s /\ lease' = NoLease /\ inbox' # inbox /\ window' = window
         => session[s].settle = "sent" /\ settled' = s]_vars

\* A renderer that has finished its refresh gives its lease back without the help
\* of a watchdog: its settlement is on the way, or the reply that will make it
\* settle is, however late either party learned of the other.
FinishedSessionSettles ==
  \A s \in Session :
    ~disposed /\ lease = s /\ session[s].work \in {"finishing", "done"}
      => session[s].start = "granted" \/ <<"settled", s>> \in {inbox[i] : i \in DOMAIN inbox}

\* Of CadenceSpec: while a dashboard is there, automatic ticks keep coming,
\* whatever renderers do or fail to do.
TicksKeepComing ==
  []<><<TickDelivers>>_vars \/ []<>(window # "ready" \/ disposed)
=============================================================================
