------------------------ MODULE RefreshCadenceProofs ------------------------
(***************************************************************************)
(* For every interval and every bound: the cadence keeps its hourly budget *)
(* in true time.                                                           *)
(***************************************************************************)
EXTENDS RefreshCadence, TLAPS

\* The wall clock and the clock the process has observed run at most as far
\* past a stamp as true time has run past "since".
Covers(stamp, since) ==
  /\ wall - stamp.last <= age - since
  /\ observed - stamp.last <= age - since

\* A reservation that is in hand: it was made at its token, one interval after
\* the last delivered one, and both its stamps cover the time before it.
Reserved(r) ==
  /\ r.stamp.token \in Nat /\ r.stamp.token <= age
  /\ r.stamp.token - spent >= Interval
  /\ Covers(r.stamp, r.stamp.token)
  /\ Covers(r.previous, spent)

Holding == pc = "reserving" \/ (pc = "deliver" /\ mode = "detailed")

\* Every stamp the program may come to rely on covers the time since the last
\* delivered reservation.
BudgetInv ==
  /\ TypeOK
  /\ ReservedOnFile
  /\ spent <= age
  /\ memory.status = "ready" => Covers(memory.stamp, spent)
  /\ file.status = "ready" => Covers(file.stamp, spent)
  /\ pc \in Saving => Covers(draft, spent)
  /\ pc = "reserve" => memory.status = "ready"
  /\ Holding => Reserved(hand)
  /\ pc = "reserving" => draft = hand.stamp
  /\ pc = "deliver" /\ mode = "detailed" => Mine

USE CadenceConstants

\* A fresh installation satisfies the invariant: there is no stamp yet.
LEMMA BudgetInit == Init => BudgetInv
BY DEF Init, BudgetInv, TypeOK, ReservedOnFile, Covers, Holding, Reserved,
       File, Memory, Stamp, Token, NoToken, NoStamp, Unread, Reservation,
       NoReservation, TickPC, Saving, Mine

\* Every action keeps it; the case that matters is Deliver, which moves "spent"
\* forward: by then the reservation is the only stamp in memory and on file.
LEMMA BudgetStep == BudgetInv /\ [Next]_vars => BudgetInv'
<1> SUFFICES ASSUME BudgetInv, [Next]_vars PROVE BudgetInv'
  OBVIOUS
<1> USE DEF BudgetInv, TypeOK, ReservedOnFile, Covers, Holding, Reserved,
            File, Memory, Stamp, Token, NoToken, NoStamp, Unread, Reservation,
            NoReservation, TickPC, Saving, Mine, Now, Elapsed, GoQuick, Loaded,
            world, tick
<1>1. CASE TimePasses
  BY <1>1 DEF TimePasses
<1>2. CASE ClockIsSetBack
  BY <1>2 DEF ClockIsSetBack
<1>3. CASE FileIsDamaged
  BY <1>3 DEF FileIsDamaged
<1>4. CASE Restart
  BY <1>4 DEF Restart
<1>5. CASE BeginTick
  BY <1>5 DEF BeginTick
<1>6. CASE LoadStamp
  BY <1>6 DEF LoadStamp
<1>7. CASE QuickWithoutState
  BY <1>7 DEF QuickWithoutState
<1>8. CASE Seed
  BY <1>8 DEF Seed
<1>9. CASE TooSoon
  BY <1>9 DEF TooSoon
<1>10. CASE Due
  BY <1>10 DEF Due
<1>11. CASE ReserveRefused
  BY <1>11 DEF ReserveRefused
<1>12. CASE Reserve
  BY <1>12 DEF Reserve
<1>13. CASE SaveLands
  BY <1>13 DEF SaveLands, AfterSave
<1>14. CASE SaveFails
  BY <1>14 DEF SaveFails, AfterSave
<1>15. CASE Deliver
  BY <1>15 DEF Deliver
<1>16. CASE TakeBack
  BY <1>16 DEF TakeBack
<1>17. CASE Undelivered
  BY <1>17 DEF Undelivered
<1>18. CASE UNCHANGED vars
  BY <1>18 DEF vars
<1> QED
  BY <1>1, <1>2, <1>3, <1>4, <1>5, <1>6, <1>7, <1>8, <1>9, <1>10, <1>11, <1>12,
     <1>13, <1>14, <1>15, <1>16, <1>17, <1>18 DEF Next, TickNext
-----------------------------------------------------------------------------
THEOREM BudgetInvariant == Spec => []BudgetInv
BY BudgetInit, BudgetStep, PTL DEF Spec

\* The variables of the cadence keep their types (coordinator, file and tick).
THEOREM CadenceTypeCorrect == Spec => []TypeOK
<1>1. BudgetInv => TypeOK
  BY DEF BudgetInv
<1> QED
  BY <1>1, BudgetInvariant, PTL

\* No detailed command is delivered without its reservation on file, whatever
\* interleaving of saves that fail, restarts and damage led there.
THEOREM DetailedIsReservedOnFile == Spec => []ReservedOnFile
<1>1. BudgetInv => ReservedOnFile
  BY DEF BudgetInv
<1> QED
  BY <1>1, BudgetInvariant, PTL

\* Delivered detailed attempts of the desktop's ticks were reserved at least one
\* interval apart in true time, for every interval and any number of restarts,
\* failed saves and set-backs of the wall clock.
THEOREM BudgetIsKept == Spec => HourlyBudget
<1>1. BudgetInv /\ [Next]_vars => [spent' # spent => spent' - spent >= Interval]_vars
  <2> SUFFICES ASSUME BudgetInv, Next, spent' # spent
               PROVE  spent' - spent >= Interval
    BY DEF vars
  <2>1. Deliver
    BY DEF Next, TickNext, TimePasses, ClockIsSetBack, FileIsDamaged, Restart,
           BeginTick, LoadStamp, QuickWithoutState, Seed, TooSoon, Due,
           ReserveRefused, Reserve, SaveLands, SaveFails, TakeBack, Undelivered
  <2>2. mode = "detailed" /\ spent' = hand.stamp.token /\ Reserved(hand)
    BY <2>1 DEF Deliver, BudgetInv, Holding
  <2> QED
    BY <2>2 DEF Reserved
<1> QED
  BY <1>1, BudgetInvariant, PTL DEF Spec, HourlyBudget
=============================================================================
