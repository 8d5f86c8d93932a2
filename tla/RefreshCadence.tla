--------------------------- MODULE RefreshCadence ---------------------------
(***************************************************************************)
(* The hourly budget of automatic detailed refreshes: a stamp in a         *)
(* protected file, a coordinator that keeps it in memory and answers one   *)
(* caller at a time, and the controller's tick, which asks for a mode,     *)
(* reserves a detailed attempt, delivers the command and takes the         *)
(* reservation back when nobody received it.                               *)
(*                                                                         *)
(*   src/apps/electron/desktop-automatic-refresh-cadence.js  (coordinator) *)
(*   src/apps/electron/desktop-settings-backends.js            (the file)  *)
(*   src/apps/electron/desktop-controller.js                   (the tick)  *)
(*                                                                         *)
(* Two clocks: "wall" is what the code reads, and may be set back; "age"   *)
(* is the true time, which only histories and properties look at.  A clock *)
(* that is set forward is not modelled: the code cannot tell it from time  *)
(* that has passed.                                                        *)
(***************************************************************************)
EXTENDS Integers

CONSTANTS
  Interval,        \* intervalMs
  Faults,          \* what may fail: "save", "load", "clock"
  MaxAge,          \* bound: the true time a behaviour lasts
  MaxSetBacks,     \* bound: how often the wall clock is set back
  MaxDamages,      \* bound: how often the file is damaged from outside
  MaxRestarts      \* bound: how often the program ends and is started again

ASSUME CadenceConstants ==
  /\ Interval \in Nat \ {0}
  /\ Faults \subseteq {"save", "load", "clock"}
  /\ {MaxAge, MaxSetBacks, MaxDamages, MaxRestarts} \subseteq Nat

VARIABLES
  wall, age,       \* the two clocks
  setBacks, damages, restarts,
  file,            \* the protected file
  memory,          \* loadStatus and state of the coordinator
  observed,        \* lastObservedClockMs, 0 for null
  pc,              \* the await the tick is at
  mode,            \* the mode the tick is about to deliver
  draft,           \* the stamp being saved
  hand,            \* the reservation the tick holds
  spent            \* history: true time at which the last delivered
                   \* detailed attempt had been reserved

world == <<wall, age, setBacks, damages, restarts>>
tick  == <<pc, mode, draft, hand>>
vars  == <<world, file, memory, observed, tick, spent>>

\* lastAutomaticDetailedAtMs and reservationToken.  A token is random; here the
\* true time of its reservation names it, since a process reserves at most once
\* at a time.  A stamp without a time is never written and is not modelled.
NoToken == -1
Token   == Nat \cup {NoToken}
Stamp   == [last : Nat, token : Token]
NoStamp == [last |-> 0, token |-> NoToken]

\* What recordDetailedAttempt returns.
Reservation   == [stamp : Stamp, previous : Stamp]
NoReservation == [stamp |-> NoStamp, previous |-> NoStamp]

File   == [status : {"missing", "damaged", "ready"}, stamp : Stamp]
Memory == [status : {"uninitialized", "unavailable", "missing", "ready"},
           stamp : Stamp]
Unread == [status |-> "uninitialized", stamp |-> NoStamp]

Saving == {"seeding", "reserving", "restoring"}
TickPC == {"idle", "mode", "reserve", "deliver"} \cup Saving

TypeOK ==
  /\ wall \in Nat /\ age \in Nat /\ observed \in Nat
  /\ setBacks \in Nat /\ damages \in Nat /\ restarts \in Nat
  /\ file \in File
  /\ memory \in Memory
  /\ pc \in TickPC
  /\ mode \in {"quick", "detailed"}
  /\ draft \in Stamp
  /\ hand \in Reservation
  /\ spent \in Int

\* A fresh installation.
Init ==
  /\ wall \in 0..Interval /\ age = 0
  /\ setBacks = 0 /\ damages = 0 /\ restarts = 0
  /\ file = [status |-> "missing", stamp |-> NoStamp]
  /\ memory = Unread /\ observed = 0
  /\ pc = "idle" /\ mode = "quick" /\ draft = NoStamp /\ hand = NoReservation
  /\ spent = -Interval
-----------------------------------------------------------------------------
(***************************************************************************)
(* The world.                                                              *)
(***************************************************************************)
TimePasses ==
  /\ age < MaxAge
  /\ age' = age + 1 /\ wall' = wall + 1
  /\ UNCHANGED <<setBacks, damages, restarts, file, memory, observed, tick, spent>>

ClockIsSetBack ==
  /\ setBacks < MaxSetBacks /\ setBacks' = setBacks + 1
  /\ wall' \in {w \in 0..MaxAge : w < wall}
  /\ UNCHANGED <<age, damages, restarts, file, memory, observed, tick, spent>>

\* Something else than this program spoils the file.
FileIsDamaged ==
  /\ damages < MaxDamages /\ damages' = damages + 1
  /\ file' = [file EXCEPT !.status = "damaged"]
  /\ UNCHANGED <<wall, age, setBacks, restarts, memory, observed, tick, spent>>

\* The process ends; a save it was in may have been published or not.
Restart ==
  /\ restarts < MaxRestarts /\ restarts' = restarts + 1
  /\ pc \in Saving => file' \in {file, [status |-> "ready", stamp |-> draft]}
  /\ pc \notin Saving => file' = file
  /\ memory' = Unread /\ observed' = 0
  /\ pc' = "idle" /\ mode' = "quick" /\ draft' = NoStamp /\ hand' = NoReservation
  /\ UNCHANGED <<wall, age, setBacks, damages, spent>>
-----------------------------------------------------------------------------
(***************************************************************************)
(* The coordinator.                                                        *)
(***************************************************************************)
\* readClock: the logical clock of a process never goes back.
Now == IF wall < observed THEN observed ELSE wall

Elapsed == Now - memory.stamp.last

\* The tick goes on to deliver a quick command.
GoQuick == pc' = "deliver" /\ mode' = "quick" /\ UNCHANGED <<draft, hand>>

\* initializeInternal.  The backend decodes what it reads and throws when it
\* cannot, so a damaged file makes the state unavailable, for good.
LoadStamp ==
  /\ pc = "mode" /\ memory.status = "uninitialized"
  /\ \/ /\ file.status # "damaged"
        /\ memory' = [status |-> file.status, stamp |-> file.stamp]
     \/ /\ file.status = "damaged" \/ "load" \in Faults
        /\ memory' = [status |-> "unavailable", stamp |-> NoStamp]
  /\ UNCHANGED <<world, file, observed, tick, spent>>

Loaded == pc = "mode" /\ memory.status # "uninitialized"

\* No clock, or no state: quick, and nothing is written.
QuickWithoutState ==
  /\ Loaded
  /\ \/ "clock" \in Faults /\ observed' = observed
     \/ memory.status = "unavailable" /\ observed' = Now
  /\ GoQuick
  /\ UNCHANGED <<world, file, memory, spent>>

\* A state that is missing, or stamped in the future, is stamped now.
Seed ==
  /\ Loaded
  /\ memory.status = "missing" \/ (memory.status = "ready" /\ memory.stamp.last > Now)
  /\ observed' = Now
  /\ pc' = "seeding" /\ draft' = [last |-> Now, token |-> NoToken]
  /\ UNCHANGED <<world, file, memory, mode, hand, spent>>

TooSoon ==
  /\ Loaded /\ memory.status = "ready"
  /\ Elapsed \in 0..(Interval - 1)
  /\ observed' = Now
  /\ GoQuick
  /\ UNCHANGED <<world, file, memory, spent>>

Due ==
  /\ Loaded /\ memory.status = "ready"
  /\ Elapsed >= Interval
  /\ observed' = Now
  /\ pc' = "reserve"
  /\ UNCHANGED <<world, file, memory, mode, draft, hand, spent>>

\* recordDetailedAttempt without a clock or a token.
ReserveRefused ==
  /\ pc = "reserve" /\ "clock" \in Faults
  /\ GoQuick
  /\ UNCHANGED <<world, file, memory, observed, spent>>

\* recordDetailedAttempt up to its save.
Reserve ==
  /\ pc = "reserve" /\ Elapsed >= Interval
  /\ observed' = Now
  /\ draft' = [last |-> Now, token |-> age]
  /\ hand' = [stamp |-> [last |-> Now, token |-> age], previous |-> memory.stamp]
  /\ pc' = "reserving"
  /\ UNCHANGED <<world, file, memory, mode, spent>>

\* Where the tick goes on after a save.
AfterSave(saved) ==
  /\ pc' = IF pc = "restoring" THEN "idle" ELSE "deliver"
  /\ mode' = IF pc = "reserving" /\ saved THEN "detailed" ELSE "quick"
  /\ draft' = NoStamp
  /\ hand' = IF pc = "reserving" /\ saved THEN hand ELSE NoReservation

SaveLands ==
  /\ pc \in Saving
  /\ file' = [status |-> "ready", stamp |-> draft]
  /\ memory' = [status |-> "ready", stamp |-> draft]
  /\ AfterSave(TRUE)
  /\ UNCHANGED <<world, observed, spent>>

\* The backend throws; after its rename the file may hold the new stamp all the
\* same ("reconciliation_required").
SaveFails ==
  /\ pc \in Saving /\ "save" \in Faults
  /\ file' \in {file, [status |-> "ready", stamp |-> draft]}
  /\ AfterSave(FALSE)
  /\ UNCHANGED <<world, memory, observed, spent>>
-----------------------------------------------------------------------------
(***************************************************************************)
(* The tick of the controller.                                             *)
(***************************************************************************)
BeginTick ==
  /\ pc = "idle" /\ pc' = "mode"
  /\ UNCHANGED <<world, file, memory, observed, mode, draft, hand, spent>>

\* Mutant: the reservation is taken back when the command was delivered, too.
DeliverAndTakeBack ==
  /\ pc = "deliver"
  /\ spent' = IF mode = "detailed" THEN hand.stamp.token ELSE spent
  /\ pc' = (IF mode = "detailed" THEN "restoring" ELSE "idle")
  /\ draft' = (IF mode = "detailed" THEN hand.previous ELSE draft)
  /\ mode' = "quick" /\ hand' = NoReservation
  /\ UNCHANGED <<world, file, memory, observed>>

Deliver ==
  /\ pc = "deliver"
  /\ spent' = IF mode = "detailed" THEN hand.stamp.token ELSE spent
  /\ pc' = "idle" /\ mode' = "quick" /\ hand' = NoReservation
  /\ UNCHANGED <<world, file, memory, observed, draft>>

\* The state is still the one the tick reserved.
Mine == memory = [status |-> "ready", stamp |-> hand.stamp]

\* No dashboard took the command: the stamp of before is put back, if the
\* state is still the one reserved.
TakeBack ==
  /\ pc = "deliver" /\ mode = "detailed" /\ Mine
  /\ pc' = "restoring" /\ mode' = "quick"
  /\ draft' = hand.previous /\ hand' = NoReservation
  /\ UNCHANGED <<world, file, memory, observed, spent>>

Undelivered ==
  /\ pc = "deliver" /\ (mode = "quick" \/ ~Mine)
  /\ pc' = "idle" /\ mode' = "quick" /\ hand' = NoReservation
  /\ UNCHANGED <<world, file, memory, observed, draft, spent>>

TickNext ==
  \/ BeginTick \/ LoadStamp \/ QuickWithoutState \/ Seed \/ TooSoon \/ Due
  \/ ReserveRefused \/ Reserve \/ SaveLands \/ SaveFails
  \/ Deliver \/ TakeBack \/ Undelivered

Next == TimePasses \/ ClockIsSetBack \/ FileIsDamaged \/ Restart \/ TickNext

Spec == Init /\ [][Next]_vars
-----------------------------------------------------------------------------
(***************************************************************************)
(* Properties.                                                             *)
(***************************************************************************)
\* Automatic detailed commands that reached a dashboard had been reserved at
\* least one interval of true time apart: across restarts, saves that fail or
\* land unnoticed, reservations taken back and a wall clock set back.
HourlyBudget ==
  [][spent' # spent => spent' - spent >= Interval]_vars

\* A detailed command is delivered only while the file records its reservation,
\* or the file has been spoiled from outside: no crash can spend it twice.
ReservedOnFile ==
  pc = "deliver" /\ mode = "detailed" =>
    file = [status |-> "ready", stamp |-> hand.stamp] \/ file.status = "damaged"
=============================================================================
