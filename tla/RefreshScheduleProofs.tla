------------------------ MODULE RefreshScheduleProofs -----------------------
(***************************************************************************)
(* For any number of timers, sessions, windows and interval changes: the   *)
(* types, the watchdogs of a lease, the survival of the cadence, and who   *)
(* ends a lease.                                                           *)
(***************************************************************************)
EXTENDS RefreshSchedule, TLAPS

USE ScheduleConstants

Kind == {"free", "tick", "followup"}
Op   == {"rearm", "interval"}

RearmQueued == \E i \in DOMAIN ops : ops[i] = "rearm"

(***************************************************************************)
(* Sequences and timers.                                                   *)
(***************************************************************************)
\* What a queued element is after an append, and after the head is taken.
LEMMA Appended ==
  ASSUME NEW S, NEW q \in Seq(S), NEW x \in S
  PROVE  /\ Append(q, x) \in Seq(S)
         /\ \A i \in DOMAIN Append(q, x) :
              (i \in DOMAIN q /\ Append(q, x)[i] = q[i]) \/ (i = Len(q) + 1 /\ Append(q, x)[i] = x)
         /\ Len(q) + 1 \in DOMAIN Append(q, x) /\ Append(q, x)[Len(q) + 1] = x
         /\ \A i \in DOMAIN q : i \in DOMAIN Append(q, x) /\ Append(q, x)[i] = q[i]
OBVIOUS

LEMMA Taken ==
  ASSUME NEW S, NEW q \in Seq(S), q # <<>>
  PROVE  /\ Tail(q) \in Seq(S) /\ Head(q) = q[1] /\ 1 \in DOMAIN q
         /\ \A i \in DOMAIN Tail(q) : i + 1 \in DOMAIN q /\ Tail(q)[i] = q[i + 1]
         /\ \A i \in DOMAIN q : i # 1 => i - 1 \in DOMAIN Tail(q) /\ Tail(q)[i - 1] = q[i]
OBVIOUS

LEMMA StopTimerType ==
  ASSUME NEW ts \in [Timer -> Kind], NEW t \in Timer \cup {NoTimer}, StopTimer(ts, t)
  PROVE  timer' \in [Timer -> Kind] /\ tracked' \in Live' \cup {NoTimer}
BY DEF StopTimer, Cleared, Kind

LEMMA ArmType ==
  ASSUME NEW ts \in [Timer -> Kind], NEW k \in {"tick", "followup"}, Arm(ts, k)
  PROVE  /\ timer' \in [Timer -> Kind] /\ tracked' \in Live' \cup {NoTimer}
         /\ Live' # {}
BY DEF Arm, Kind, Live

LEMMA StartTimerType ==
  ASSUME NEW ts \in [Timer -> Kind], NEW t \in Timer \cup {NoTimer}, StartTimer(ts, t)
  PROVE  /\ timer' \in [Timer -> Kind] /\ tracked' \in Live' \cup {NoTimer}
         /\ disposed \/ lease # NoLease \/ Live' # {}
<1>1. Cleared(ts, t) \in [Timer -> Kind]
  BY DEF Cleared, Kind
<1> QED BY <1>1, StopTimerType, ArmType DEF StartTimer

(***************************************************************************)
(* The inductive invariant.                                                *)
(***************************************************************************)
RunningIsHead == running => ops # <<>>

ScheduleInv == TypeOK /\ RunningIsHead /\ WatchdogsGuardLease /\ CadenceSurvives

LEMMA InitInv == Init => ScheduleInv
<1> SUFFICES ASSUME Init PROVE ScheduleInv
  OBVIOUS
<1>1. timer \in [Timer -> Kind] /\ tracked \in Live
  BY DEF Init, Kind, Live
<1>2. session \in [Session -> SessionState]
  BY DEF Init, SessionState, Unused
<1>3. ops \in Seq(Op) /\ inbox \in Seq(Message)
  BY DEF Init
<1> QED BY <1>1, <1>2, <1>3
        DEF Init, ScheduleInv, TypeOK, RunningIsHead, WatchdogsGuardLease,
            CadenceSurvives, Owner, Kind, Op

\* What a timer callback, a tick or an operation may do: whatever it does to the
\* timers, the cadence survives it.
LEMMA CadenceKept ==
  ASSUME ScheduleInv,
         timer' \in [Timer -> Kind], tracked' \in Live' \cup {NoTimer},
         tick' \in {"idle", "choosing", "restoring"},
         UNCHANGED <<leases, queue, disposed, page>>, changes' \in Nat,
         disposed \/ lease # NoLease \/ Live' # {} \/ tick' # "idle" \/ RearmQueued
  PROVE  ScheduleInv'
BY DEF ScheduleInv, TypeOK, RunningIsHead, WatchdogsGuardLease, CadenceSurvives,
       Live, Kind, RearmQueued, leases, queue, page

LEMMA TimerInv ==
  ASSUME ScheduleInv, NEW t \in Timer, TimerNext(t)
  PROVE  ScheduleInv'
<1> Fired(t) \in [Timer -> Kind]
  BY DEF Fired, ScheduleInv, TypeOK, Kind
<1> tick \in {"idle", "choosing", "restoring"} /\ changes \in Nat
  BY DEF ScheduleInv, TypeOK
<1>1. CASE TickPostponed(t)
  BY <1>1, StartTimerType, CadenceKept DEF TickPostponed
<1>2. CASE TickDropped(t)
  BY <1>2, StopTimerType, CadenceKept DEF TickDropped
<1>3. CASE TickSkipped(t)
  BY <1>3, StartTimerType, CadenceKept DEF TickSkipped
<1>4. CASE TickBegins(t)
  BY <1>4, StopTimerType, CadenceKept DEF TickBegins
<1>5. CASE FollowupFires(t)
  BY <1>5, StartTimerType, CadenceKept DEF FollowupFires
<1> QED BY <1>1, <1>2, <1>3, <1>4, <1>5 DEF TimerNext

LEMMA TickInv ==
  ASSUME ScheduleInv, TickGoesOn
  PROVE  ScheduleInv'
<1> /\ timer \in [Timer -> Kind] /\ tracked \in Live \cup {NoTimer}
    /\ tracked \in Timer \cup {NoTimer} /\ changes \in Nat
  BY DEF ScheduleInv, TypeOK, Kind, Live
<1>1. CASE TickDelivers
  BY <1>1, ArmType, CadenceKept DEF TickDelivers
<1>2. CASE TickAborted
  BY <1>2, CadenceKept DEF TickAborted, Live
<1>3. CASE TickUndelivered
  <2>1. CASE tick' = "restoring" /\ UNCHANGED <<timer, tracked>>
    BY <1>3, <2>1, CadenceKept DEF TickUndelivered, Live
  <2>2. CASE tick' = "idle" /\ StartTimer(timer, tracked)
    BY <1>3, <2>2, StartTimerType, CadenceKept DEF TickUndelivered
  <2> QED BY <1>3, <2>1, <2>2 DEF TickUndelivered
<1>4. CASE TickRestored
  BY <1>4, StartTimerType, CadenceKept DEF TickRestored
<1> QED BY <1>1, <1>2, <1>3, <1>4 DEF TickGoesOn

\* Taking an operation off the queue loses no other rearm.
LEMMA OpInv ==
  ASSUME ScheduleInv, OpNext \/ ChangeInterval
  PROVE  ScheduleInv'
<1> /\ timer \in [Timer -> Kind] /\ tracked \in Timer \cup {NoTimer}
    /\ ops \in Seq(Op)
  BY DEF ScheduleInv, TypeOK, Kind, Op, Live
<1>0. ASSUME ops # <<>>, ops' = Tail(ops), Head(ops) # "rearm"
      PROVE  RearmQueued => RearmQueued'
  BY <1>0, Taken DEF RearmQueued
<1>1. ASSUME ops # <<>>, ops' = Tail(ops)
      PROVE  ops' \in Seq(Op)
  BY <1>1
<1> USE DEF ScheduleInv, TypeOK, RunningIsHead, WatchdogsGuardLease, CadenceSurvives,
            Kind, Op
<1>2. CASE ChangeInterval
  <2>1. ops' \in Seq(Op) /\ ops' # <<>> /\ (RearmQueued => RearmQueued')
    BY <1>2, Appended DEF ChangeInterval, RearmQueued
  <2> QED BY <1>2, <2>1 DEF ChangeInterval, RearmQueued, cadence, leases, page, Live
<1>3. CASE OpBegins
  <2>1. ops' \in Seq(Op) /\ (RearmQueued /\ ~disposed /\ lease = NoLease => RearmQueued')
    BY <1>1, <1>3 DEF OpBegins, RearmQueued
  <2> QED BY <1>3, <2>1 DEF OpBegins, RearmQueued, cadence, leases, page, Live
<1>4. CASE Rearmed
  <2>1. ops' \in Seq(Op)
    BY <1>1, <1>4 DEF Rearmed
  <2>2. /\ timer' \in [Timer -> Kind] /\ tracked' \in Live' \cup {NoTimer}
        /\ disposed \/ lease # NoLease \/ Live' # {}
    BY <1>4, StartTimerType DEF Rearmed
  <2> QED BY <1>4, <2>1, <2>2 DEF Rearmed, leases, page
<1>5. CASE IntervalChanged
  <2>1. ops' \in Seq(Op) /\ (RearmQueued => RearmQueued')
    BY <1>0, <1>1, <1>5 DEF IntervalChanged
  <2>2. /\ timer' \in [Timer -> Kind] /\ tracked' \in Live' \cup {NoTimer}
        /\ disposed \/ lease # NoLease \/ Live' # {} \/ Live' = Live
    BY <1>5, StartTimerType DEF IntervalChanged, Live
  <2> QED BY <1>5, <2>1, <2>2 DEF IntervalChanged, RearmQueued, leases, page
<1> QED BY <1>2, <1>3, <1>4, <1>5 DEF OpNext

\* The end of a lease leaves a rearm in the queue.
LEMMA ReleaseInv ==
  ASSUME ScheduleInv, Release
  PROVE  /\ lease' = NoLease /\ heartbeat' = NoLease /\ deadline' = NoLease
         /\ ops' \in Seq(Op) /\ ops' # <<>> /\ RearmQueued'
<1> ops \in Seq(Op)
  BY DEF ScheduleInv, TypeOK, Op
<1> QED BY Appended DEF Release, RearmQueued, Op

\* What a step does that touches neither timers nor the tick.
LEMMA LeaseKept ==
  ASSUME ScheduleInv, UNCHANGED <<cadence, running, disposed, changes>>,
         settled' \in Owner, window' \in {"none", "loading", "ready"},
         session' \in [Session -> SessionState], inbox' \in Seq(Message),
         windows' \in Nat,
         Release \/ UNCHANGED <<lease, heartbeat, deadline, ops>>
  PROVE  ScheduleInv'
<1>1. CASE Release
  BY <1>1, ReleaseInv
     DEF ScheduleInv, TypeOK, RunningIsHead, WatchdogsGuardLease, CadenceSurvives,
         Live, Owner, Op, RearmQueued, cadence
<1>2. CASE UNCHANGED <<lease, heartbeat, deadline, ops>>
  BY <1>2
     DEF ScheduleInv, TypeOK, RunningIsHead, WatchdogsGuardLease, CadenceSurvives,
         Live, cadence
<1> QED BY <1>1, <1>2

LEMMA WatchdogInv ==
  ASSUME ScheduleInv, HeartbeatExpires \/ DeadlineExpires
  PROVE  ScheduleInv'
<1> USE DEF ScheduleInv, TypeOK, page
<1>1. CASE HeartbeatExpires
  <2>1. CASE lease = heartbeat
    BY <1>1, <2>1, LeaseKept DEF HeartbeatExpires
  <2>2. CASE lease # heartbeat
    BY <1>1, <2>2 DEF HeartbeatExpires, WatchdogsGuardLease, CadenceSurvives,
                      RunningIsHead, Live, Owner, cadence
  <2> QED BY <2>1, <2>2
<1>2. CASE DeadlineExpires
  <2>1. CASE lease = deadline
    BY <1>2, <2>1, LeaseKept DEF DeadlineExpires
  <2>2. CASE lease # deadline
    BY <1>2, <2>2 DEF DeadlineExpires, WatchdogsGuardLease, CadenceSurvives,
                      RunningIsHead, Live, Owner, cadence
  <2> QED BY <2>1, <2>2
<1> QED BY <1>1, <1>2

LEMMA ReceivedType ==
  ASSUME ScheduleInv, NEW kind, NEW s, Received(kind, s)
  PROVE  inbox' \in Seq(Message)
BY DEF Received, ScheduleInv, TypeOK

LEMMA HandleInv ==
  ASSUME ScheduleInv, HandleNext
  PROVE  ScheduleInv'
<1> SUFFICES ASSUME NEW s \in Session,
                    HandleStarted(s) \/ HandleHeartbeat(s) \/ HandleSettled(s)
             PROVE  ScheduleInv'
  BY DEF HandleNext
<1>0. inbox' \in Seq(Message)
  BY ReceivedType DEF HandleStarted, HandleHeartbeat, HandleSettled
<1>1. CASE HandleStarted(s)
  <2>1. session' \in [Session -> SessionState]
    <3>1. session \in [Session -> SessionState]
      BY DEF ScheduleInv, TypeOK
    <3> QED BY <1>1, <3>1 DEF HandleStarted, SessionState
  <2>2. CASE disposed
    BY <1>0, <1>1, <2>1, <2>2
       DEF HandleStarted, ScheduleInv, TypeOK, RunningIsHead, WatchdogsGuardLease,
           CadenceSurvives, Live, queue
  <2>3. CASE ~disposed
    <3>1. timer' \in [Timer -> Kind] /\ tracked' \in Live' \cup {NoTimer}
      <4>1. timer \in [Timer -> Kind] /\ tracked \in Timer \cup {NoTimer}
        BY DEF ScheduleInv, TypeOK, Kind, Live
      <4> QED BY <1>1, <2>3, <4>1, StopTimerType DEF HandleStarted
    <3>2. lease' \in Owner \ {NoLease} /\ heartbeat' = lease' /\ deadline' = lease'
      BY <1>1, <2>3 DEF HandleStarted, Owner
    <3> QED BY <1>0, <1>1, <2>1, <3>1, <3>2
            DEF HandleStarted, ScheduleInv, TypeOK, RunningIsHead,
                WatchdogsGuardLease, CadenceSurvives, Kind, queue
  <2> QED BY <2>2, <2>3
<1>2. CASE HandleHeartbeat(s)
  <2>1. heartbeat' \in Owner /\ (~disposed => heartbeat' = lease)
    BY <1>2 DEF HandleHeartbeat, ScheduleInv, TypeOK, WatchdogsGuardLease, Owner
  <2> QED BY <1>0, <1>2, <2>1
          DEF HandleHeartbeat, ScheduleInv, TypeOK, RunningIsHead,
              WatchdogsGuardLease, CadenceSurvives, Live, cadence, queue
<1>3. CASE HandleSettled(s)
  <2>1. session' \in [Session -> SessionState]
    <3>1. session \in [Session -> SessionState]
      BY DEF ScheduleInv, TypeOK
    <3> QED BY <1>3, <3>1 DEF HandleSettled, SessionState
  <2>2. settled' \in Owner
    BY <1>3 DEF HandleSettled, ScheduleInv, TypeOK, Owner, leases
  <2> QED BY <1>0, <1>3, <2>1, <2>2, LeaseKept
          DEF HandleSettled, ScheduleInv, TypeOK, leases
<1> QED BY <1>1, <1>2, <1>3

LEMMA DisposeInv ==
  ASSUME ScheduleInv, Dispose
  PROVE  ScheduleInv'
<1>1. timer' \in [Timer -> Kind] /\ tracked' \in Live' \cup {NoTimer}
  <2>1. timer \in [Timer -> Kind] /\ tracked \in Timer \cup {NoTimer}
    BY DEF ScheduleInv, TypeOK, Kind, Live
  <2> QED BY <2>1, StopTimerType DEF Dispose
<1> QED BY <1>1 DEF Dispose, ScheduleInv, TypeOK, RunningIsHead, WatchdogsGuardLease,
                    CadenceSurvives, Owner, Kind, queue, page

LEMMA WindowInv ==
  ASSUME ScheduleInv, CloseDashboard \/ OpenDashboard \/ DashboardReady
  PROVE  ScheduleInv'
<1> USE DEF ScheduleInv, TypeOK, Reconcile
<1>1. CASE CloseDashboard
  <2>1. \A s \in Session : [session[s] EXCEPT !.work = "dead"] \in SessionState
    BY DEF SessionState
  <2>2. session' \in [Session -> SessionState]
    BY <1>1, <2>1 DEF CloseDashboard
  <2>3. inbox' \in Seq(Message)
    BY <1>1 DEF CloseDashboard
  <2> QED BY <1>1, <2>2, <2>3, LeaseKept DEF CloseDashboard
<1>2. CASE OpenDashboard
  BY <1>2, LeaseKept DEF OpenDashboard, leases, queue
<1>3. CASE DashboardReady
  BY <1>3, LeaseKept DEF DashboardReady
<1> QED BY <1>1, <1>2, <1>3

LEMMA SendType ==
  ASSUME ScheduleInv, NEW s \in Session, NEW kind \in {"started", "heartbeat", "settled"},
         Send(kind, s)
  PROVE  inbox' \in Seq(Message)
BY DEF Send, ScheduleInv, TypeOK, Message

LEMMA RendererInv ==
  ASSUME ScheduleInv, NEW s \in Session, RendererNext(s)
  PROVE  ScheduleInv'
<1>1. session' \in [Session -> SessionState]
  <2> session \in [Session -> SessionState]
    BY DEF ScheduleInv, TypeOK
  <2>1. BeginSession(s) => session' \in [Session -> SessionState]
    <3>1. [session EXCEPT ![s].work = "working", ![s].start = "sent"]
            \in [Session -> SessionState]
      BY DEF SessionState
    <3> QED BY <3>1 DEF BeginSession
  <2>2. StartIsLate(s) => session' \in [Session -> SessionState]
    BY DEF StartIsLate, SessionState
  <2>3. AcceptLease(s) => session' \in [Session -> SessionState]
    BY DEF AcceptLease, SessionState
  <2>4. SendHeartbeat(s) => session' \in [Session -> SessionState]
    BY DEF SendHeartbeat
  <2>5. Finish(s) => session' \in [Session -> SessionState]
    BY DEF Finish, SessionState
  <2>6. FinishReturns(s) => session' \in [Session -> SessionState]
    BY DEF FinishReturns, SessionState
  <2> QED BY <2>1, <2>2, <2>3, <2>4, <2>5, <2>6 DEF RendererNext
<1>2. inbox' \in Seq(Message)
  <2>1. inbox \in Seq(Message)
    BY DEF ScheduleInv, TypeOK
  <2> QED BY <2>1, SendType DEF RendererNext, BeginSession, StartIsLate, AcceptLease,
                              SendHeartbeat, Finish, FinishReturns
<1>3. UNCHANGED mainVars
  BY DEF RendererNext, BeginSession, StartIsLate, AcceptLease, SendHeartbeat, Finish,
         FinishReturns
<1> QED BY <1>1, <1>2, <1>3, LeaseKept DEF mainVars, leases, queue, ScheduleInv, TypeOK

LEMMA StepInv == ScheduleInv /\ [Next]_vars => ScheduleInv'
<1> SUFFICES ASSUME ScheduleInv, [Next]_vars PROVE ScheduleInv'
  OBVIOUS
<1>1. CASE Next
  BY <1>1, TimerInv, TickInv, OpInv, HandleInv, WatchdogInv, DisposeInv, WindowInv,
     RendererInv DEF Next
<1>2. CASE UNCHANGED vars
  BY <1>2 DEF vars, cadence, leases, queue, page, ScheduleInv, TypeOK, RunningIsHead,
              WatchdogsGuardLease, CadenceSurvives, Live
<1> QED BY <1>1, <1>2

LEMMA Invariance == Spec => []ScheduleInv
BY InitInv, StepInv, PTL DEF Spec

\* The remembered timer is always a live one, and everything has its type
\* (startRefreshTimer, stopRefreshTimer and the callbacks together).
THEOREM ScheduleTypeCorrect == Spec => []TypeOK
<1>1. ScheduleInv => TypeOK
  BY DEF ScheduleInv
<1> QED BY <1>1, Invariance, PTL

\* refreshStarted, the watchdogs and every release: until the controller is
\* disposed, exactly an active lease is watched, by both watchdogs.
THEOREM LeasesAreWatched == Spec => []WatchdogsGuardLease
<1>1. ScheduleInv => WatchdogsGuardLease
  BY DEF ScheduleInv
<1> QED BY <1>1, Invariance, PTL

\* However leases end and settings change, a next tick is always on its way.
THEOREM CadenceNeverDies == Spec => []CadenceSurvives
<1>1. ScheduleInv => CadenceSurvives
  BY DEF ScheduleInv
<1> QED BY <1>1, Invariance, PTL

(***************************************************************************)
(* Who ends a lease.  A start and a settlement are sent once, and are      *)
(* answered once.                                                          *)
(***************************************************************************)
Pending(kind, s) == \E i \in DOMAIN inbox : inbox[i] = <<kind, s>>

SentOnce == \A i, k \in DOMAIN inbox : inbox[i] = inbox[k] /\ inbox[i][1] # "heartbeat" => i = k

SessionInv(s) ==
  /\ Pending("started", s) => session[s].start = "sent"
  /\ Pending("settled", s) => session[s].settle = "sent"
  /\ session[s].settle # "unsent" => session[s].start = "accepted" /\ session[s].work # "working"

MessageInv == ScheduleInv /\ SentOnce /\ \A s \in Session : SessionInv(s)

LEMMA InitMessages == Init => MessageInv
<1> SUFFICES ASSUME Init PROVE MessageInv
  OBVIOUS
<1>1. inbox = <<>> /\ \A s \in Session : session[s] = Unused
  BY DEF Init
<1> QED BY <1>1, InitInv DEF MessageInv, SentOnce, SessionInv, Pending, Unused

LEMMA Sent ==
  ASSUME MessageInv, NEW kind \in {"started", "heartbeat", "settled"}, NEW s \in Session,
         Send(kind, s), kind = "heartbeat" \/ ~Pending(kind, s)
  PROVE  /\ SentOnce'
         /\ \A r \in Session : /\ Pending("started", r)' => Pending("started", r) \/ (kind = "started" /\ r = s)
                               /\ Pending("settled", r)' => Pending("settled", r) \/ (kind = "settled" /\ r = s)
<1>1. inbox \in Seq(Message) /\ <<kind, s>> \in Message
  BY DEF MessageInv, ScheduleInv, TypeOK, Message
<1>2. inbox' = Append(inbox, <<kind, s>>)
  BY DEF Send
<1>3. \A i \in DOMAIN inbox' :
        \/ i \in DOMAIN inbox /\ inbox'[i] = inbox[i]
        \/ i = Len(inbox) + 1 /\ inbox'[i] = <<kind, s>>
  BY <1>1, <1>2, Appended
<1>4. SentOnce'
  BY <1>3 DEF SentOnce, MessageInv, Pending
<1> QED BY <1>3, <1>4 DEF Pending

LEMMA GotMessage ==
  ASSUME MessageInv, NEW kind \in {"started", "heartbeat", "settled"}, NEW s \in Session,
         Received(kind, s)
  PROVE  /\ SentOnce' /\ Pending(kind, s)
         /\ kind # "heartbeat" => ~Pending(kind, s)'
         /\ \A k \in {"started", "settled"}, r \in Session : Pending(k, r)' => Pending(k, r)
<1>1. inbox \in Seq(Message) /\ inbox # <<>> /\ inbox' = Tail(inbox)
  BY DEF MessageInv, ScheduleInv, TypeOK, Received
<1>2. 1 \in DOMAIN inbox /\ inbox[1] = <<kind, s>>
  BY <1>1, Taken DEF Received
<1>3. \A i \in DOMAIN inbox' : i \in Nat /\ i + 1 \in DOMAIN inbox /\ i + 1 # 1 /\ inbox'[i] = inbox[i + 1]
  BY <1>1, Taken
<1>4. SentOnce'
  BY <1>3 DEF SentOnce, MessageInv
<1>5. Pending(kind, s)
  BY <1>2 DEF Pending
<1>6. ASSUME kind # "heartbeat" PROVE ~Pending(kind, s)'
  BY <1>2, <1>3, <1>6 DEF Pending, SentOnce, MessageInv
<1>7. \A k \in {"started", "settled"}, r \in Session : Pending(k, r)' => Pending(k, r)
  BY <1>3 DEF Pending
<1> QED BY <1>4, <1>5, <1>6, <1>7

LEMMA HandleMessages ==
  ASSUME MessageInv, NEW s \in Session,
         HandleStarted(s) \/ HandleHeartbeat(s) \/ HandleSettled(s)
  PROVE  SentOnce' /\ \A r \in Session : SessionInv(r)'
<1> session \in [Session -> SessionState]
  BY DEF MessageInv, ScheduleInv, TypeOK
<1> SUFFICES ASSUME NEW r \in Session PROVE SentOnce' /\ SessionInv(r)'
  OBVIOUS
<1>0. SessionInv(r) /\ SessionInv(s)
  BY DEF MessageInv
<1>1. CASE HandleStarted(s)
  <2>1. Received("started", s) /\ \E st \in {"granted", "refused"} : session' = [session EXCEPT ![s].start = st]
    BY <1>1 DEF HandleStarted
  <2> QED BY <1>0, <2>1, GotMessage DEF SessionInv, SessionState
<1>2. CASE HandleHeartbeat(s)
  BY <1>0, <1>2, GotMessage DEF HandleHeartbeat, SessionInv
<1>3. CASE HandleSettled(s)
  <2>1. Received("settled", s) /\ session' = [session EXCEPT ![s].settle = "answered"]
    BY <1>3 DEF HandleSettled
  <2> QED BY <1>0, <2>1, GotMessage DEF SessionInv, SessionState
<1> QED BY <1>1, <1>2, <1>3

LEMMA RendererMessages ==
  ASSUME MessageInv, NEW s \in Session, RendererNext(s)
  PROVE  SentOnce' /\ \A r \in Session : SessionInv(r)'
<1> session \in [Session -> SessionState]
  BY DEF MessageInv, ScheduleInv, TypeOK
<1> SUFFICES ASSUME NEW r \in Session PROVE SentOnce' /\ SessionInv(r)'
  OBVIOUS
<1>0. SentOnce /\ SessionInv(r) /\ SessionInv(s)
  BY DEF MessageInv
<1>1. CASE BeginSession(s)
  <2>1. /\ Send("started", s) /\ session[s] = Unused
        /\ session' = [session EXCEPT ![s].work = "working", ![s].start = "sent"]
    BY <1>1 DEF BeginSession
  <2>2. ~Pending("started", s) /\ session[s].settle = "unsent"
    BY <1>0, <2>1 DEF SessionInv, Unused
  <2> QED BY <1>0, <2>1, <2>2, Sent DEF SessionInv, SessionState
<1>2. CASE StartIsLate(s)
  BY <1>0, <1>2 DEF StartIsLate, SessionInv, SentOnce, Pending, SessionState
<1>3. CASE SendHeartbeat(s)
  BY <1>0, <1>3, Sent DEF SendHeartbeat, SessionInv
<1>4. CASE FinishReturns(s)
  BY <1>0, <1>4 DEF FinishReturns, SessionInv, SentOnce, Pending, SessionState
<1>5. ASSUME Send("settled", s), session[s].settle = "unsent",
             session[s].start # "sent", session[s].work # "unused",
             \/ /\ session' = [session EXCEPT ![s].start = "accepted", ![s].settle = "sent"]
                /\ session[s].work # "working"
             \/ /\ session' = [session EXCEPT ![s].work = "finishing", ![s].settle = "sent"]
                /\ session[s].start = "accepted"
      PROVE  SentOnce' /\ SessionInv(r)'
  <2>1. ~Pending("settled", s) /\ ~Pending("started", s)
    BY <1>0, <1>5 DEF SessionInv
  <2>2. SentOnce' /\ (Pending("started", r)' => Pending("started", r))
                  /\ (Pending("settled", r)' => Pending("settled", r) \/ r = s)
    BY <1>5, <2>1, Sent
  <2>3. CASE r = s
    BY <1>0, <1>5, <2>1, <2>2, <2>3 DEF SessionInv, SessionState
  <2>4. CASE r # s
    BY <1>0, <1>5, <2>2, <2>4 DEF SessionInv
  <2> QED BY <2>3, <2>4
<1>6. CASE AcceptLease(s)
  <2>1. CASE session[s].work = "working"
    BY <1>0, <1>6, <2>1 DEF AcceptLease, SessionInv, SentOnce, Pending, SessionState
  <2>2. CASE session[s].work # "working"
    BY <1>0, <1>5, <1>6, <2>2 DEF AcceptLease, SessionInv, SessionState
  <2> QED BY <2>1, <2>2
<1>7. CASE Finish(s)
  <2>1. CASE session[s].start = "accepted"
    BY <1>0, <1>5, <1>7, <2>1 DEF Finish, SessionInv, SessionState
  <2>2. CASE session[s].start # "accepted"
    BY <1>0, <1>7, <2>2 DEF Finish, SessionInv, SentOnce, Pending, SessionState
  <2> QED BY <2>1, <2>2
<1> QED BY <1>1, <1>2, <1>3, <1>4, <1>6, <1>7 DEF RendererNext

LEMMA StepMessages == MessageInv /\ [Next]_vars => MessageInv'
<1> SUFFICES ASSUME MessageInv, [Next]_vars PROVE MessageInv'
  OBVIOUS
<1> USE DEF MessageInv
<1>0. ScheduleInv'
  BY StepInv
<1>1. ASSUME UNCHANGED <<session, inbox>>
      PROVE  SentOnce' /\ \A r \in Session : SessionInv(r)'
  BY <1>1 DEF SentOnce, SessionInv, Pending
<1>2. CASE \E t \in Timer : TimerNext(t)
  BY <1>0, <1>1, <1>2 DEF TimerNext, TickPostponed, TickDropped, TickSkipped, TickBegins,
                          FollowupFires, page
<1>3. CASE TickGoesOn \/ OpNext \/ ChangeInterval
  BY <1>0, <1>1, <1>3 DEF TickGoesOn, TickDelivers, TickAborted, TickUndelivered,
                          TickRestored, OpNext, OpBegins, Rearmed, IntervalChanged,
                          ChangeInterval, page
<1>4. CASE HandleNext
  BY <1>0, <1>4, HandleMessages DEF HandleNext
<1>5. CASE HeartbeatExpires \/ DeadlineExpires \/ Dispose \/ OpenDashboard \/ DashboardReady
  BY <1>0, <1>1, <1>5 DEF HeartbeatExpires, DeadlineExpires, Dispose, OpenDashboard,
                          DashboardReady, page
<1>6. CASE CloseDashboard
  <2>1. inbox' = <<>> /\ session \in [Session -> SessionState]
    BY <1>6 DEF CloseDashboard, ScheduleInv, TypeOK
  <2>2. \A r \in Session : /\ session'[r].settle = session[r].settle
                           /\ session'[r].start = session[r].start
                           /\ session'[r].work \in {session[r].work, "dead"}
    BY <1>6, <2>1 DEF CloseDashboard, SessionState
  <2> QED BY <1>0, <2>1, <2>2 DEF SentOnce, SessionInv, Pending
<1>7. CASE \E s \in Session : RendererNext(s)
  BY <1>0, <1>7, RendererMessages
<1>8. CASE UNCHANGED vars
  BY <1>0, <1>1, <1>8 DEF vars, page
<1> QED BY <1>2, <1>3, <1>4, <1>5, <1>6, <1>7, <1>8 DEF Next

\* refreshSettled: of all messages of renderers, only the settlement of the
\* active lease itself ends it, whatever was superseded or timed out before.
THEOREM LeasesEndByTheirOwn == Spec => OnlyOwnSettlementReleases
<1>1. ASSUME MessageInv, [Next]_vars, NEW s \in Session,
             lease = s, lease' = NoLease, inbox' # inbox, window' = window
      PROVE  session[s].settle = "sent" /\ settled' = s
  <2>1. CASE HandleNext
    <3>1. PICK r \in Session : HandleStarted(r) \/ HandleHeartbeat(r) \/ HandleSettled(r)
      BY <2>1 DEF HandleNext
    <3>2. HandleSettled(r) /\ r = s /\ settled' = s
      BY <1>1, <3>1 DEF HandleStarted, HandleHeartbeat, HandleSettled, leases
    <3> QED BY <1>1, <3>2, GotMessage DEF HandleSettled, MessageInv, SessionInv
  <2>2. CASE CloseDashboard
    BY <1>1, <2>2 DEF CloseDashboard
  <2>3. CASE \E r \in Session : RendererNext(r)
    BY <1>1, <2>3 DEF RendererNext, BeginSession, StartIsLate, AcceptLease, SendHeartbeat,
                      Finish, FinishReturns, mainVars, leases
  <2>4. CASE UNCHANGED inbox
    BY <1>1, <2>4
  <2>5. CASE \E t \in Timer : TimerNext(t)
    BY <2>4, <2>5 DEF TimerNext, TickPostponed, TickDropped, TickSkipped, TickBegins,
                      FollowupFires, page
  <2>6. CASE TickGoesOn \/ OpNext \/ ChangeInterval
    BY <2>4, <2>6 DEF TickGoesOn, TickDelivers, TickAborted, TickUndelivered,
                      TickRestored, OpNext, OpBegins, Rearmed, IntervalChanged,
                      ChangeInterval, page
  <2>7. CASE HeartbeatExpires \/ DeadlineExpires \/ Dispose \/ OpenDashboard \/ DashboardReady
    BY <2>4, <2>7 DEF HeartbeatExpires, DeadlineExpires, Dispose, OpenDashboard,
                      DashboardReady, page
  <2> QED BY <1>1, <2>1, <2>2, <2>3, <2>4, <2>5, <2>6, <2>7 DEF Next, vars, page
<1>2. MessageInv /\ [Next]_vars =>
        [\A s \in Session :
           lease = s /\ lease' = NoLease /\ inbox' # inbox /\ window' = window
             => session[s].settle = "sent" /\ settled' = s]_vars
  BY <1>1
<1> QED BY <1>2, InitMessages, StepMessages, PTL DEF Spec, OnlyOwnSettlementReleases

(***************************************************************************)
(* A finished renderer gives its lease back.                               *)
(***************************************************************************)
\* Where the settlement of a session stands while its lease is active.
SettleInv(s) ==
  /\ lease = s => session[s].start \in {"granted", "accepted"}
  /\ settled = s => session[s].settle = "answered"
  /\ ~disposed /\ lease = s /\ session[s].work \in {"finishing", "done"}
       => session[s].start = "granted" \/ Pending("settled", s)

LEMMA Promised == FinishedSessionSettles <=>
  \A s \in Session :
    ~disposed /\ lease = s /\ session[s].work \in {"finishing", "done"}
      => session[s].start = "granted" \/ Pending("settled", s)
BY DEF FinishedSessionSettles, Pending

LEMMA SentStays ==
  ASSUME MessageInv, NEW kind \in {"started", "heartbeat", "settled"}, NEW s \in Session,
         Send(kind, s)
  PROVE  Pending(kind, s)' /\ \A r \in Session : Pending("settled", r) => Pending("settled", r)'
<1>1. inbox \in Seq(Message) /\ <<kind, s>> \in Message /\ inbox' = Append(inbox, <<kind, s>>)
  BY DEF MessageInv, ScheduleInv, TypeOK, Message, Send
<1>2. Len(inbox) + 1 \in DOMAIN inbox' /\ inbox'[Len(inbox) + 1] = <<kind, s>>
  BY <1>1, Appended
<1>3. \A i \in DOMAIN inbox : i \in DOMAIN inbox' /\ inbox'[i] = inbox[i]
  BY <1>1, Appended
<1> QED BY <1>2, <1>3 DEF Pending

LEMMA GotLeaves ==
  ASSUME MessageInv, NEW kind \in {"started", "heartbeat", "settled"}, NEW s \in Session,
         Received(kind, s)
  PROVE  \A r \in Session : Pending("settled", r) =>
           Pending("settled", r)' \/ (kind = "settled" /\ r = s)
<1>1. inbox \in Seq(Message) /\ inbox # <<>> /\ inbox' = Tail(inbox) /\ inbox[1] = <<kind, s>>
  BY Taken DEF MessageInv, ScheduleInv, TypeOK, Received
<1>2. \A i \in DOMAIN inbox : i # 1 => i - 1 \in DOMAIN inbox' /\ inbox'[i - 1] = inbox[i]
  BY <1>1, Taken
<1>3. ASSUME NEW r \in Session, NEW i \in DOMAIN inbox, inbox[i] = <<"settled", r>>
      PROVE  Pending("settled", r)' \/ (kind = "settled" /\ r = s)
  <2>1. CASE i = 1
    BY <1>1, <1>3, <2>1
  <2>2. CASE i # 1
    <3>1. i - 1 \in DOMAIN inbox' /\ inbox'[i - 1] = <<"settled", r>>
      BY <1>2, <1>3, <2>2
    <3> QED BY <3>1 DEF Pending
  <2> QED BY <2>1, <2>2
<1> QED BY <1>3 DEF Pending

LEMMA HandleSettles ==
  ASSUME MessageInv, NEW s \in Session,
         HandleStarted(s) \/ HandleHeartbeat(s) \/ HandleSettled(s),
         NEW r \in Session, SettleInv(r)
  PROVE  SettleInv(r)'
<1> session \in [Session -> SessionState]
  BY DEF MessageInv, ScheduleInv, TypeOK
<1>0. SessionInv(r) /\ SessionInv(s)
  BY DEF MessageInv
<1>1. CASE HandleStarted(s)
  <2>1. Received("started", s) /\ session[s].start = "sent"
    BY <1>0, <1>1, GotMessage DEF HandleStarted, SessionInv
  <2>2. Pending("settled", r) => Pending("settled", r)'
    BY <2>1, GotLeaves
  <2>3. settled' = settled /\ disposed' = disposed
    BY <1>1 DEF HandleStarted
  <2>4. CASE disposed
    BY <1>1, <2>1, <2>3, <2>4 DEF HandleStarted, SettleInv, SessionState
  <2>5. CASE ~disposed
    BY <1>1, <2>1, <2>2, <2>3, <2>5, ScheduleConstants DEF HandleStarted, SettleInv, SessionState
  <2> QED BY <2>4, <2>5
<1>2. CASE HandleHeartbeat(s)
  <2>1. Pending("settled", r) => Pending("settled", r)'
    BY <1>2, GotLeaves DEF HandleHeartbeat
  <2> QED BY <1>2, <2>1 DEF HandleHeartbeat, SettleInv
<1>3. CASE HandleSettled(s)
  <2>1. /\ Received("settled", s) /\ session' = [session EXCEPT ![s].settle = "answered"]
        /\ disposed' = disposed
    BY <1>3 DEF HandleSettled
  <2>2. session[s].settle = "sent"
    BY <1>0, <2>1, GotMessage DEF SessionInv
  <2>3. /\ session'[r].start = session[r].start /\ session'[r].work = session[r].work
        /\ session'[r].settle = IF r = s THEN "answered" ELSE session[r].settle
    BY <2>1 DEF SessionState
  <2>4. Pending("settled", r) => Pending("settled", r)' \/ r = s
    BY <2>1, GotLeaves
  <2>5. CASE ~disposed /\ settled # s /\ lease = s
    <3>1. lease' = NoLease /\ settled' = s
      BY <1>3, <2>5 DEF HandleSettled, Release
    <3> QED BY <2>3, <3>1 DEF SettleInv
  <2>6. CASE ~(~disposed /\ settled # s /\ lease = s)
    <3>1. lease' = lease /\ settled' = settled
      BY <1>3, <2>6 DEF HandleSettled, leases
    <3> QED BY <2>1, <2>2, <2>3, <2>4, <2>6, <3>1 DEF SettleInv
  <2> QED BY <2>5, <2>6
<1> QED BY <1>1, <1>2, <1>3

LEMMA RendererSettles ==
  ASSUME MessageInv, NEW s \in Session, RendererNext(s), NEW r \in Session, SettleInv(r)
  PROVE  SettleInv(r)'
<1> session \in [Session -> SessionState]
  BY DEF MessageInv, ScheduleInv, TypeOK
<1>0. SessionInv(r) /\ SessionInv(s)
  BY DEF MessageInv
<1>1. lease' = lease /\ settled' = settled /\ disposed' = disposed
  BY DEF RendererNext, BeginSession, StartIsLate, AcceptLease, SendHeartbeat, Finish,
         FinishReturns, mainVars, leases
<1>2. Pending("settled", r) => Pending("settled", r)'
  BY SentStays DEF RendererNext, BeginSession, StartIsLate, AcceptLease, SendHeartbeat, Finish,
                   FinishReturns, Pending
<1>3. CASE r # s
  <2>1. session'[r] = session[r]
    BY <1>3 DEF RendererNext, BeginSession, StartIsLate, AcceptLease, SendHeartbeat, Finish,
                FinishReturns
  <2> QED BY <1>1, <1>2, <2>1 DEF SettleInv
<1>4. CASE r = s /\ BeginSession(s)
  BY <1>1, <1>4 DEF BeginSession, Unused, SettleInv, SessionState
<1>5. CASE r = s /\ (StartIsLate(s) \/ SendHeartbeat(s) \/ FinishReturns(s))
  <2>1. /\ session'[s].start = session[s].start /\ session'[s].settle = session[s].settle
        /\ session'[s].work = session[s].work \/ session[s].work = "finishing"
    BY <1>5 DEF StartIsLate, SendHeartbeat, FinishReturns, SessionState
  <2> QED BY <1>1, <1>2, <1>5, <2>1 DEF SettleInv
<1>6. CASE r = s /\ AcceptLease(s)
  <2>1. session[s].settle = "unsent" /\ settled # s
    BY <1>0, <1>6 DEF AcceptLease, SessionInv, SettleInv, SessionState
  <2>2. session[s].work # "working" => Pending("settled", s)'
    BY <1>6, SentStays DEF AcceptLease
  <2>3. session'[s].start = "accepted" /\ session'[s].work = session[s].work
    BY <1>6 DEF AcceptLease, SessionState
  <2> QED BY <1>1, <1>6, <2>1, <2>2, <2>3 DEF SettleInv
<1>7. CASE r = s /\ Finish(s)
  <2>1. session[s].settle = "unsent" /\ settled # s
    BY <1>0, <1>7 DEF Finish, SessionInv, SettleInv, SessionState
  <2>2. session[s].start = "accepted" => Pending("settled", s)'
    BY <1>7, SentStays DEF Finish
  <2>3. session'[s].start = session[s].start
    BY <1>7 DEF Finish, SessionState
  <2> QED BY <1>1, <1>7, <2>1, <2>2, <2>3 DEF SettleInv
<1> QED BY <1>3, <1>4, <1>5, <1>6, <1>7 DEF RendererNext

LEMMA StepSettles ==
  MessageInv /\ (\A r \in Session : SettleInv(r)) /\ [Next]_vars
    => \A r \in Session : SettleInv(r)'
<1> SUFFICES ASSUME MessageInv, \A r \in Session : SettleInv(r), [Next]_vars, NEW r \in Session
             PROVE  SettleInv(r)'
  OBVIOUS
<1> NoLease \notin Session
  BY ScheduleConstants
<1>1. ASSUME UNCHANGED <<session, inbox, settled>>, lease' = lease \/ lease' = NoLease,
             disposed' = disposed \/ disposed'
      PROVE  SettleInv(r)'
  BY <1>1 DEF SettleInv, Pending
<1>2. CASE \E t \in Timer : TimerNext(t)
  BY <1>1, <1>2 DEF TimerNext, TickPostponed, TickDropped, TickSkipped, TickBegins,
                    FollowupFires, page, leases
<1>3. CASE TickGoesOn \/ OpNext \/ ChangeInterval
  BY <1>1, <1>3 DEF TickGoesOn, TickDelivers, TickAborted, TickUndelivered, TickRestored,
                    OpNext, OpBegins, Rearmed, IntervalChanged, ChangeInterval, page, leases
<1>4. CASE HandleNext
  BY <1>4, HandleSettles DEF HandleNext
<1>5. CASE HeartbeatExpires \/ DeadlineExpires \/ Dispose \/ OpenDashboard \/ DashboardReady
  BY <1>1, <1>5 DEF HeartbeatExpires, DeadlineExpires, Dispose, OpenDashboard, DashboardReady,
                    Reconcile, Release, page, leases
<1>6. CASE CloseDashboard
  <2>1. session \in [Session -> SessionState]
    BY DEF MessageInv, ScheduleInv, TypeOK
  <2>2. session'[r].settle = session[r].settle /\ session'[r].start = session[r].start
    BY <1>6, <2>1 DEF CloseDashboard, SessionState
  <2>3. settled' = settled /\ disposed' = disposed /\ (disposed => lease' = lease)
        /\ (~disposed => lease' = NoLease)
    BY <1>6 DEF CloseDashboard, Reconcile, Release
  <2> QED BY <2>2, <2>3 DEF SettleInv
<1>7. CASE \E s \in Session : RendererNext(s)
  BY <1>7, RendererSettles
<1>8. CASE UNCHANGED vars
  BY <1>1, <1>8 DEF vars, page, leases
<1> QED BY <1>2, <1>3, <1>4, <1>5, <1>6, <1>7, <1>8 DEF Next

\* acceptLease, finish and refreshSettled: no lease of a renderer that is done is
\* left to the watchdogs, however the reply, the deadline and the end of the
\* refresh are ordered.
THEOREM FinishedSessionsGiveBack == Spec => []FinishedSessionSettles
<1>1. Init => \A r \in Session : SettleInv(r)
  BY ScheduleConstants DEF Init, SettleInv, Unused
<1>2. MessageInv /\ (\A r \in Session : SettleInv(r)) /\ [Next]_vars
        => (\A r \in Session : SettleInv(r))'
  BY StepSettles
<1>3. (\A r \in Session : SettleInv(r)) => FinishedSessionSettles
  BY Promised DEF SettleInv
<1> QED BY <1>1, <1>2, <1>3, InitMessages, StepMessages, PTL DEF Spec
=============================================================================
