------------------------- MODULE AccountlessScheduler -------------------------
(***************************************************************************)
(* The scheduler of accountless sharing: one timer, one pass at a time, a  *)
(* status that says what the timer waits for, and two things that reach it *)
(* from outside, a change of the preference and a published index.         *)
(*                                                                         *)
(*   src/src/application/accountless-contribution-scheduler.js             *)
(*                                                                         *)
(* What a pass learns and does is left open here.  A pass is released by   *)
(* its abort, whether or not the work it started has come to an end, and   *)
(* pending is cleared one turn after its outcome was decided.  A generation*)
(* is told apart only from the current one.                                *)
(***************************************************************************)
EXTENDS Naturals

CONSTANTS
  Pass,              \* passes, told apart by name
  NoPass

ASSUME PassConstants == NoPass \notin Pass

VARIABLES
  process,           \* new, started or stopped
  timer,             \* off, or how far away it is
  state,             \* status.state
  pending,           \* the pass under way
  pass,              \* how far a pass is, and whether it still counts
  rerun,             \* rerun
  published          \* publicationPending

scheduler == <<process, timer, state, pending, pass, rerun, published>>

\* soon: at once, or within the minute of a retry; later: after that.
Timers == {"off", "soon", "later"}

\* "off" stands for "unavailable" too (both look again within a minute), and
\* "paused" for "recovery_required" (both wait for the preference to change).
States == {"off", "uploading", "pending", "up_to_date", "retry_wait", "paused"}

Phases   == {"idle", "asking", "uploading", "leaving"}
Passes   == [phase : Phases, fenced : BOOLEAN, aborted : BOOLEAN]
IdlePass == [phase |-> "idle", fenced |-> FALSE, aborted |-> FALSE]

SchedulerTypeOK ==
  /\ process \in {"new", "started", "stopped"}
  /\ timer \in Timers
  /\ state \in States
  /\ pending \in Pass \cup {NoPass}
  /\ pass \in [Pass -> Passes]
  /\ rerun \in BOOLEAN
  /\ published \in BOOLEAN

\* schedule() does nothing before start and after stop.
Arm(delay) == timer' = IF process = "started" THEN delay ELSE "off"

SchedulerInit ==
  /\ process = "new"
  /\ timer = "off"
  /\ state = "off"
  /\ pending = NoPass
  /\ pass = [p \in Pass |-> IdlePass]
  /\ rerun = FALSE
  /\ published = FALSE

StartScheduler ==
  /\ process = "new"
  /\ process' = "started"
  /\ timer' = "soon"
  /\ UNCHANGED <<state, pending, pass, rerun, published>>

ComesCloser ==
  /\ timer = "later" /\ timer' = "soon"
  /\ UNCHANGED <<process, state, pending, pass, rerun, published>>

---------------------------------------------------------------------------
\* The timer fires; it cannot while a pass is under way, nor in the turn in
\* which one leaves.
BeginPass(p) ==
  /\ timer = "soon" /\ pending = NoPass
  /\ pass[p] = IdlePass
  /\ timer' = "off"
  /\ pending' = p
  /\ pass' = [pass EXCEPT ![p].phase = "asking"]
  /\ UNCHANGED <<process, state, rerun, published>>

\* The outcome is decided; pending is cleared a turn later.
Leave(p, s, delay) ==
  /\ pass' = [pass EXCEPT ![p].phase = "leaving"]
  /\ state' = s
  /\ published' = FALSE
  /\ IF delay = "off" THEN UNCHANGED timer ELSE Arm(delay)
  /\ UNCHANGED <<process, pending, rerun>>

\* A pass of an older generation decides nothing any more.
LeaveFenced(p) ==
  /\ pass[p].phase \in {"asking", "uploading"} /\ pass[p].fenced
  /\ pass' = [pass EXCEPT ![p].phase = "leaving"]
  /\ UNCHANGED <<process, timer, state, pending, rerun, published>>

Counts(p, phase) == pass[p].phase = phase /\ ~pass[p].fenced

\* The preference has been read.
Preferred(p, answer) ==
  /\ Counts(p, "asking") /\ ~pass[p].aborted
  /\ \/ /\ answer = "yes"
        /\ pass' = [pass EXCEPT ![p].phase = "uploading"]
        /\ state' = "uploading"
        /\ UNCHANGED <<process, timer, pending, rerun, published>>
     \/ answer = "no" /\ Leave(p, "off", "soon")
     \/ answer = "denied" /\ Leave(p, "paused", "off")

\* The pass failed in a way that may pass, or its deadline interrupted it.
Retried(p) ==
  /\ pass[p].phase \in {"asking", "uploading"} /\ ~pass[p].fenced
  /\ \E d \in {"soon", "later"} : Leave(p, "retry_wait", d)

\* The pass has succeeded; an index published in the meantime asks for more.
Succeeded(p, more) ==
  /\ Counts(p, "uploading") /\ ~pass[p].aborted
  /\ IF more \/ published THEN Leave(p, "pending", "soon")
     ELSE Leave(p, "up_to_date", "later")

\* Sharing stops by itself until the preference changes.
Halts(p) == Counts(p, "uploading") /\ Leave(p, "paused", "off")

Deadline(p) ==
  /\ pending = p /\ pass[p].phase \in {"asking", "uploading"}
  /\ ~pass[p].aborted
  /\ pass' = [pass EXCEPT ![p].aborted = TRUE]
  /\ UNCHANGED <<process, timer, state, pending, rerun, published>>

---------------------------------------------------------------------------
\* notifyIndexPublished, with nothing under way.
PullForward ==
  IF state \notin {"up_to_date", "pending"} THEN UNCHANGED <<timer, state>>
  ELSE /\ state' = "pending"
       /\ IF timer = "soon" THEN UNCHANGED timer ELSE Arm("soon")

IndexPublished ==
  /\ process = "started"
  /\ IF pending # NoPass
     THEN /\ published' = (published \/ state \in {"uploading", "up_to_date",
                                                   "pending"})
          /\ UNCHANGED <<timer, state>>
     ELSE PullForward /\ UNCHANGED published
  /\ UNCHANGED <<process, pending, pass, rerun>>

\* Mutant: what was published while the pass was leaving is dropped.
ReleaseOnly(p) ==
  /\ pass[p].phase = "leaving"
  /\ pending' = NoPass
  /\ pass' = [pass EXCEPT ![p] = IdlePass]
  /\ published' = FALSE
  /\ UNCHANGED <<process, state>>
  /\ IF rerun /\ process # "stopped" THEN rerun' = FALSE /\ Arm("soon")
     ELSE UNCHANGED <<rerun, timer>>

\* The finally block: pending is cleared, and what came up meanwhile is done.
Release(p) ==
  /\ pass[p].phase = "leaving"
  /\ pending' = NoPass
  /\ pass' = [pass EXCEPT ![p] = IdlePass]
  /\ UNCHANGED process
  /\ IF rerun /\ process # "stopped"
     THEN rerun' = FALSE /\ Arm("soon") /\ UNCHANGED <<state, published>>
     ELSE /\ published' = FALSE
          /\ IF published /\ process = "started" THEN PullForward
             ELSE UNCHANGED <<timer, state>>
          /\ UNCHANGED rerun

\* Every pass of the old generation is fenced, and the one under way aborted.
Fence ==
  pass' = [p \in Pass |->
             IF pass[p].phase = "idle" THEN pass[p]
             ELSE [pass[p] EXCEPT !.fenced = TRUE, !.aborted = TRUE]]

\* Mutant: a pass under way goes on, and no other follows it.
ChangedWithoutRerun ==
  /\ Fence
  /\ state' = "off" /\ published' = FALSE
  /\ IF pending # NoPass THEN timer' = "off" ELSE Arm("soon")
  /\ UNCHANGED <<process, pending, rerun>>

PreferenceChanged ==
  /\ Fence
  /\ state' = "off" /\ published' = FALSE
  /\ IF pending # NoPass THEN rerun' = TRUE /\ timer' = "off"
     ELSE UNCHANGED rerun /\ Arm("soon")
  /\ UNCHANGED <<process, pending>>

StopScheduler ==
  /\ process # "stopped"
  /\ process' = "stopped"
  /\ Fence
  /\ timer' = "off" /\ state' = "off" /\ published' = FALSE
  /\ UNCHANGED <<pending, rerun>>

\* The process ends, at any point; a new one begins afresh.
NewProcess ==
  /\ process' = "new" /\ timer' = "off" /\ state' = "off"
  /\ pending' = NoPass
  /\ pass' = [p \in Pass |-> IdlePass]
  /\ rerun' = FALSE /\ published' = FALSE

---------------------------------------------------------------------------
PassStep(p) ==
  \/ BeginPass(p) \/ LeaveFenced(p) \/ Retried(p)
  \/ Release(p) \/ Deadline(p)
  \/ \E answer \in {"yes", "no", "denied"} : Preferred(p, answer)
  \/ \E more \in BOOLEAN : Succeeded(p, more)
  \/ Halts(p)

SchedulerNext ==
  \/ StartScheduler \/ ComesCloser \/ IndexPublished \/ PreferenceChanged
  \/ StopScheduler \/ NewProcess
  \/ \E p \in Pass : PassStep(p)

SchedulerSpec == SchedulerInit /\ [][SchedulerNext]_scheduler

---------------------------------------------------------------------------
\* A started scheduler that has nothing under way waits for a timer, unless
\* the service or the credential has told it to stop asking; and a pass that
\* no longer counts is followed by one that does.
KeepsGoing ==
  process = "started" =>
    /\ pending = NoPass /\ state # "paused" => timer # "off"
    /\ pending # NoPass /\ pass[pending].fenced => rerun

\* The status says what the timer waits for: what is shown as uploading is
\* under way, and what is pending is no further away than a retry.
StatusIsTrue ==
  /\ state = "uploading" => pending # NoPass
  /\ state = "pending" /\ pending = NoPass /\ process = "started" =>
       timer = "soon"

\* An index published while a pass was under way (which may have captured the
\* one before) is not forgotten: its note is given up for a pass within the
\* minute, or because the pass ended in a state it may not override.
PublicationIsKept ==
  [][published /\ ~published' =>
       \/ timer' = "soon"
       \/ rerun'
       \/ state' \in {"off", "retry_wait", "paused"}]_scheduler
=============================================================================
