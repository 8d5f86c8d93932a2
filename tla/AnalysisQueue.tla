---------------------------- MODULE AnalysisQueue ----------------------------
(***************************************************************************)
(* The queue from which scheduled invocations of the worker recompute the  *)
(* analysis of each contributing account, and the receipt that says that a *)
(* day's recomputation is complete.                                        *)
(*                                                                         *)
(*   src/apps/worker/src/community-analysis-queue.ts                       *)
(*   src/apps/worker/src/community-analysis-warmer.ts                      *)
(*   src/apps/worker/src/community-refresh-lanes.ts   (lane 'current')     *)
(*   src/apps/worker/migrations/0054, 0060            (the triggers)       *)
(*                                                                         *)
(* A batch, a trigger and the statement that fires it are one step; between*)
(* two awaits of an invocation anything may happen: an upload, a change of *)
(* a cache, a withdrawal, the end of the maintenance lease, another        *)
(* invocation.  A window is a pair of a UTC day and a method version.  An  *)
(* account's caches are one entry that names the input revision and the    *)
(* window it was computed for; a damaged or missing entry is Nothing.      *)
(***************************************************************************)
EXTENDS Integers, FiniteSets

CONSTANTS
  Account,
  Worker,            \* invocations that may overlap, told apart by their lease
  Window,
  Nothing,           \* no row, no cache entry, no holder of the lease
  RolloverLimit,     \* MAX_ROLLOVER_ROWS
  MaxTrouble         \* bound on what happens from outside, on deferrals and crashes

ASSUME AnalysisConstants ==
  /\ IsFiniteSet(Account)
  /\ RolloverLimit \in Nat \ {0} /\ MaxTrouble \in Nat
  /\ Nothing \notin Account \cup Worker \cup Window

VARIABLES
  revision,          \* community_analytical_input_versions
  stocked,           \* accounts with an analytical source
  public,            \* community_public_source_owners
  cache,             \* community_allowance_fit_cache, community_model_composition_cache
  queue,             \* community_current_analysis_queue
  nextId,            \* its AUTOINCREMENT
  current,           \* community_current_analysis_queue_state
  lane,              \* community_refresh_lanes, lane 'current'
  epoch,             \* community_snapshot_mutation_control
  today,             \* the window a new invocation works for
  lease,             \* retention_state: maintenance_lease_token, and whether it lives
  worker,            \* the local variables of each invocation
  overtaken,         \* history: the rows served while an account was waiting
  trouble            \* bookkeeping of the bound

source == <<revision, stocked, public, cache, queue, nextId, lane, epoch>>
vars == <<source, current, today, lease, worker, overtaken, trouble>>

Rows   == [id : Nat, dirty : Nat, window : Nat, pending : BOOLEAN, served : Nat]
Caches == [revision : Nat, window : Window]
Claims == [account : Account, id : Nat, dirty : Nat, served : Nat, revision : Nat]

ASSUME NothingIsNoRecord ==
  Nothing \notin Rows /\ Nothing \notin Caches /\ Nothing \notin Claims

WorkerPC == {"idle", "reading", "preparing", "claiming", "probing", "retiring",
             "acknowledging", "asserting", "publishing", "recording", "ending"}

\* pin: the epoch of the lane pin; generation, maximum: the pass.
Workers == [pc : WorkerPC, window : Window, pin : Nat, generation : Nat,
            maximum : Nat, claim : Claims \cup {Nothing}]

AnalysisTypeOK ==
  /\ revision \in [Account -> Nat] /\ stocked \subseteq Account /\ public \subseteq Account
  /\ cache \in [Account -> Caches \cup {Nothing}]
  /\ queue \in [Account -> Rows \cup {Nothing}] /\ nextId \in Nat
  /\ current \in [window : Window \cup {Nothing}, generation : Nat, sequence : Nat]
  /\ lane \in [complete : BOOLEAN, epoch : Nat, window : Window \cup {Nothing}]
  /\ epoch \in Nat /\ today \in Window
  /\ lease \in [owner : Worker \cup {Nothing}, live : BOOLEAN]
  /\ worker \in [Worker -> Workers]
  /\ overtaken \in [Account -> SUBSET Nat]
  /\ trouble \in 0 .. MaxTrouble
  /\ \A a \in Account : queue[a] # Nothing =>
       /\ queue[a].id < nextId /\ queue[a].window <= current.generation
       /\ queue[a].served <= current.sequence

Rests(w) == [pc |-> "idle", window |-> w, pin |-> 0, generation |-> 0,
             maximum |-> 0, claim |-> Nothing]

Goes(i, pc) == worker' = [worker EXCEPT ![i].pc = pc]

\* Something that can delay the work, and that the bound limits.
Trouble == trouble < MaxTrouble /\ trouble' = trouble + 1

---------------------------------------------------------------------------
\* The rows of the queue.

HasRow(a)    == queue[a] # Nothing
LiveLease(i) == lease.owner = i /\ lease.live

NewRow == [id |-> nextId, dirty |-> 1, window |-> current.generation,
           pending |-> TRUE, served |-> 0]

\* The bootstrap's own: a row that exists is set to pending, not marked.
\* Mutant: the triggers do no more than that.
EnqueuePendingOnly(a, owners) ==
  IF a \notin owners THEN UNCHANGED <<queue, nextId>>
  ELSE IF HasRow(a)
  THEN /\ queue' = [queue EXCEPT ![a].pending = TRUE]
       /\ UNCHANGED nextId
  ELSE /\ queue' = [queue EXCEPT ![a] = NewRow]
       /\ nextId' = nextId + 1

\* Mutant: an id may be given twice, as without AUTOINCREMENT.
EnqueueSameId(a, owners) ==
  IF a \notin owners THEN UNCHANGED <<queue, nextId>>
  ELSE IF HasRow(a)
  THEN /\ queue' = [queue EXCEPT ![a].dirty = @ + 1, ![a].pending = TRUE]
       /\ UNCHANGED nextId
  ELSE queue' = [queue EXCEPT ![a] = NewRow] /\ UNCHANGED nextId

\* The triggers: a public account's row is inserted, or dirtied.
Enqueue(a, owners) ==
  IF a \notin owners THEN UNCHANGED <<queue, nextId>>
  ELSE IF HasRow(a)
  THEN /\ queue' = [queue EXCEPT ![a].dirty = @ + 1, ![a].pending = TRUE]
       /\ UNCHANGED nextId
  ELSE /\ queue' = [queue EXCEPT ![a] = NewRow]
       /\ nextId' = nextId + 1

Requeued == [lane EXCEPT !.complete = FALSE]

\* Mutant: only the rows that are ready count.
QueuePendingReady(w) ==
  \E a \in Account : HasRow(a) /\ queue[a].pending /\ queue[a].window = current.generation

\* currentQueuePending: a pending row, a row of another window generation, or
\* any row at all while the queue still stands at another window.
QueuePending(w) ==
  \/ \E a \in Account : HasRow(a) /\ queue[a].pending
  \/ \E a \in Account : HasRow(a) /\ queue[a].window # current.generation
  \/ current.window # w /\ \E a \in Account : HasRow(a)

LaneCurrent(w) == /\ lane.complete /\ lane.epoch = epoch /\ lane.window = w
                  /\ ~QueuePending(w)

AnalysisInit ==
  /\ revision = [a \in Account |-> 1] /\ stocked = Account /\ public = Account
  /\ cache = [a \in Account |-> Nothing]
  /\ queue \in [Account -> [id : 1 .. Cardinality(Account), dirty : {1}, window : {0},
                            pending : {TRUE}, served : {0}]]
  /\ \A a, b \in Account : a # b => queue[a].id # queue[b].id
  /\ nextId = Cardinality(Account) + 1
  /\ current = [window |-> Nothing, generation |-> 0, sequence |-> 0]
  /\ lane = [complete |-> FALSE, epoch |-> 0, window |-> Nothing]
  /\ epoch = 0
  /\ today \in Window
  /\ lease = [owner |-> Nothing, live |-> FALSE]
  /\ worker = [i \in Worker |-> Rests(today)]
  /\ overtaken = [a \in Account |-> {}]
  /\ trouble = 0

---------------------------------------------------------------------------
\* What happens to the accounts meanwhile.

\* An accepted upload; it may be the one that makes the account public.
Upload(a) ==
  /\ Trouble
  /\ revision' = [revision EXCEPT ![a] = @ + 1]
  /\ stocked' = stocked \cup {a} /\ public' = public \cup {a}
  /\ epoch' = epoch + 1
  /\ Enqueue(a, public \cup {a})
  /\ lane' = Requeued
  /\ UNCHANGED <<cache, current, today, overtaken, lease, worker>>

\* Retention removes the last source of an account that stays public.
LoseSource(a) ==
  /\ Trouble /\ a \in stocked \cap public
  /\ revision' = [revision EXCEPT ![a] = @ + 1]
  /\ stocked' = stocked \ {a}
  /\ epoch' = epoch + 1
  /\ Enqueue(a, public)
  /\ lane' = Requeued
  /\ UNCHANGED <<public, cache, current, today, overtaken, lease, worker>>

\* A cache entry is removed or overwritten by something other than the queue.
CacheDamaged(a) ==
  /\ Trouble /\ cache[a] # Nothing
  /\ cache' = [cache EXCEPT ![a] = Nothing]
  /\ Enqueue(a, public)
  /\ lane' = IF a \in public THEN Requeued ELSE lane
  /\ UNCHANGED <<revision, stocked, public, epoch, current, today, overtaken, lease, worker>>

\* The account's authority is withdrawn: it leaves the public sources, and its
\* row goes in the same transaction.
Withdraw(a) ==
  /\ Trouble /\ a \in public
  /\ public' = public \ {a}
  /\ queue' = [queue EXCEPT ![a] = Nothing]
  /\ epoch' = epoch + 1
  /\ lane' = Requeued
  /\ UNCHANGED <<revision, stocked, cache, nextId, current, today, overtaken, lease, worker>>

\* The UTC day ends, or another method version is deployed or rolled back.
TodayChanges(w) ==
  /\ Trouble /\ w # today /\ today' = w
  /\ UNCHANGED <<source, current, lease, worker, overtaken>>

---------------------------------------------------------------------------
\* An invocation: acquireMaintenanceLease, then the warmer.

Start(i) ==
  /\ worker[i].pc = "idle" /\ ~lease.live
  /\ lease' = [owner |-> i, live |-> TRUE]
  /\ worker' = [worker EXCEPT ![i] = [Rests(today) EXCEPT !.pc = "reading"]]
  /\ UNCHANGED <<source, current, today, overtaken, trouble>>

\* drainCommunityPublicSourceBootstrap puts an account that was public before
\* the queue knew of it to work, without marking its row as changed.
Bootstrap(i, a) ==
  /\ Trouble
  /\ worker[i].pc = "reading" /\ LiveLease(i) /\ a \in public
  /\ EnqueuePendingOnly(a, public)
  /\ UNCHANGED <<revision, stocked, public, cache, lane, epoch, current, today,
                 overtaken, lease, worker>>

\* readCommunityRefreshLane: nothing to do, or the epoch the receipt will need.
ReadLane(i) ==
  /\ worker[i].pc = "reading"
  /\ IF LaneCurrent(worker[i].window) THEN Goes(i, "ending")
     ELSE worker' = [worker EXCEPT ![i].pc = "preparing", ![i].pin = epoch]
  /\ UNCHANGED <<source, current, today, overtaken, lease, trouble>>

\* The rows a rollover moves: those of the oldest windows first, then by id.
Precedes(a, b) == \/ queue[a].window < queue[b].window
                  \/ queue[a].window = queue[b].window /\ queue[a].id < queue[b].id

RolledOver(generation) ==
  LET behind == {a \in Account : HasRow(a) /\ queue[a].window < generation}
  IN  {a \in behind : Cardinality({b \in behind : Precedes(b, a)}) < RolloverLimit}

\* prepareCurrentAnalysisQueue, one batch.
Prepare(i) ==
  LET w == worker[i].window
      generation == IF current.window = w THEN current.generation
                    ELSE current.generation + 1
      moved == RolledOver(generation)
  IN  /\ worker[i].pc = "preparing"
      /\ IF LiveLease(i)
         THEN /\ current' = [current EXCEPT !.window = w, !.generation = generation]
              /\ queue' = [a \in Account |-> IF a \notin moved THEN queue[a]
                             ELSE [queue[a] EXCEPT !.window = generation,
                                                   !.pending = TRUE, !.dirty = @ + 1]]
              /\ worker' = [worker EXCEPT ![i].pc = "claiming",
                              ![i].generation = generation, ![i].maximum = current.sequence]
         ELSE Goes(i, "ending") /\ UNCHANGED <<current, queue>>
      /\ UNCHANGED <<revision, stocked, public, cache, nextId, lane, epoch, today, overtaken, lease, trouble>>

\* The pass of invocation i still is of the window the queue stands at.
SamePass(i) == /\ current.window = worker[i].window
               /\ current.generation = worker[i].generation

Ready(a) == /\ a \in public /\ HasRow(a) /\ queue[a].pending
            /\ queue[a].window = current.generation

Eligible(i, a) == /\ SamePass(i) /\ LiveLease(i)
                  /\ Ready(a) /\ queue[a].served <= worker[i].maximum

ServedBefore(a, b) == \/ queue[a].served < queue[b].served
                      \/ queue[a].served = queue[b].served /\ queue[a].id < queue[b].id

\* Mutant: a row that has never been served keeps its place.
MovesToBackOnce(a) ==
  queue' = [queue EXCEPT ![a].served = IF @ = 0 THEN 0 ELSE current.sequence + 1]

\* The row goes to the back of the queue.
MovesToBack(a) == queue' = [queue EXCEPT ![a].served = current.sequence + 1]

Overtakes(a) ==
  overtaken' = [b \in Account |-> IF b = a \/ ~Ready(b) THEN {}
                                  ELSE overtaken[b] \cup {queue[a].id}]

\* claimCurrentAnalysisJob moves the job to the back before its work starts.
Claim(i, a) ==
  /\ worker[i].pc = "claiming" /\ Eligible(i, a)
  /\ \A b \in Account \ {a} : Eligible(i, b) => ServedBefore(a, b)
  /\ current' = [current EXCEPT !.sequence = @ + 1]
  /\ MovesToBack(a)
  /\ Overtakes(a)
  /\ worker' = [worker EXCEPT
       ![i].pc = IF a \in stocked THEN "probing" ELSE "retiring",
       ![i].claim = [account |-> a, id |-> queue[a].id, dirty |-> queue[a].dirty,
                     served |-> current.sequence + 1, revision |-> revision[a]]]
  /\ UNCHANGED <<revision, stocked, public, cache, nextId, lane, epoch, today, lease, trouble>>

ClaimsNothing(i) ==
  /\ worker[i].pc = "claiming" /\ \A a \in Account : ~Eligible(i, a)
  /\ Goes(i, "recording")
  /\ UNCHANGED <<source, current, today, overtaken, lease, trouble>>

\* The statements or the time of the invocation are used up for another job, or
\* for the receipt as well.
OutOfBudget(i) ==
  /\ Trouble
  /\ worker[i].pc = "claiming" /\ \E pc \in {"recording", "ending"} : Goes(i, pc)
  /\ UNCHANGED <<source, current, today, overtaken, lease>>

\* ACK_GUARD, with the id and the dirty_generation every statement adds to it.
SameRow(i) ==
  LET c == worker[i].claim
  IN  /\ HasRow(c.account) /\ queue[c.account].id = c.id
      /\ queue[c.account].window = worker[i].generation
      /\ queue[c.account].served = c.served

\* Mutant: the row may have been marked in the meantime.
AckGuardDirty(i) ==
  LET c == worker[i].claim
  IN  /\ SameRow(i)
      /\ SamePass(i) /\ revision[c.account] = c.revision
      /\ c.account \in public /\ LiveLease(i)

AckGuard(i) ==
  LET c == worker[i].claim
  IN  /\ SameRow(i) /\ queue[c.account].dirty = c.dirty
      /\ SamePass(i) /\ revision[c.account] = c.revision
      /\ c.account \in public /\ LiveLease(i)

\* communityAnalysisCachesCurrent, completedCommunityAnalysisCachesCurrent,
\* and the source pin that has moved on.
Probe(i) ==
  LET c == worker[i].claim
      wanted == [revision |-> c.revision, window |-> worker[i].window]
  IN  /\ worker[i].pc = "probing"
      /\ \/ cache[c.account] = wanted /\ Goes(i, "acknowledging")
         \/ revision[c.account] # c.revision /\ Goes(i, "claiming")
         \/ /\ revision[c.account] = c.revision /\ cache[c.account] # wanted
            /\ Goes(i, "asserting")
      /\ UNCHANGED <<source, current, today, overtaken, lease, trouble>>

\* The analysis does not fit into what is left of the budget.
Defer(i) ==
  /\ Trouble
  /\ worker[i].pc = "asserting" /\ Goes(i, "claiming")
  /\ UNCHANGED <<source, current, today, overtaken, lease>>

\* acknowledgeCurrentAnalysisJob
Acknowledge(i) ==
  /\ worker[i].pc = "acknowledging" /\ Goes(i, "claiming")
  /\ IF AckGuard(i)
     THEN queue' = [queue EXCEPT ![worker[i].claim.account].pending = FALSE]
     ELSE UNCHANGED queue
  /\ UNCHANGED <<revision, stocked, public, cache, nextId, current, lane, epoch,
                 today, overtaken, lease, trouble>>

\* Mutant: the sources are not looked at again.
RetireUnchecked(i) ==
  /\ worker[i].pc = "retiring" /\ Goes(i, "claiming")
  /\ IF SameRow(i) /\ LiveLease(i)
     THEN queue' = [queue EXCEPT ![worker[i].claim.account] = Nothing]
     ELSE UNCHANGED queue
  /\ UNCHANGED <<revision, stocked, public, cache, nextId, current, lane, epoch,
                 today, overtaken, lease, trouble>>

\* retireEmptyCurrentAnalysisJob
Retire(i) ==
  /\ worker[i].pc = "retiring" /\ Goes(i, "claiming")
  /\ IF AckGuard(i) /\ worker[i].claim.account \notin stocked
     THEN queue' = [queue EXCEPT ![worker[i].claim.account] = Nothing]
     ELSE UNCHANGED queue
  /\ UNCHANGED <<revision, stocked, public, cache, nextId, current, lane, epoch,
                 today, overtaken, lease, trouble>>

\* assertCommunitySourcePinCurrent throws out of the warmer's loop.
AssertPin(i) ==
  LET c == worker[i].claim
  IN  /\ worker[i].pc = "asserting"
      /\ Goes(i, IF revision[c.account] = c.revision THEN "publishing" ELSE "ending")
      /\ UNCHANGED <<source, current, today, overtaken, lease, trouble>>

\* Mutant: the caches are written before the guard is looked at, and stay.
PublishUnfenced(i) ==
  LET c == worker[i].claim
  IN  /\ worker[i].pc = "publishing" /\ Goes(i, "claiming")
      /\ cache' = [cache EXCEPT ![c.account] =
                     [revision |-> c.revision, window |-> worker[i].window]]
      /\ queue' = IF AckGuard(i)
                  THEN [queue EXCEPT ![c.account].dirty = @ + 1, ![c.account].pending = FALSE]
                  ELSE queue
      /\ lane' = Requeued
      /\ UNCHANGED <<revision, stocked, public, nextId, current, epoch, today, overtaken, lease, trouble>>

\* publishCommunityAnalysisCaches: one batch.  The triggers on the caches mark
\* the row and requeue the lane; the last statement consumes the mark.  A failed
\* condition takes back everything.
Publish(i) ==
  LET c == worker[i].claim
  IN  /\ worker[i].pc = "publishing" /\ Goes(i, "claiming")
      /\ IF AckGuard(i)
         THEN /\ cache' = [cache EXCEPT ![c.account] =
                             [revision |-> c.revision, window |-> worker[i].window]]
              /\ queue' = [queue EXCEPT ![c.account].dirty = @ + 1,
                                        ![c.account].pending = FALSE]
              /\ lane' = Requeued
         ELSE UNCHANGED <<cache, queue, lane>>
      /\ UNCHANGED <<revision, stocked, public, nextId, current, epoch, today, overtaken, lease, trouble>>

\* recordCommunityRefreshLane: the receipt and its fence are one statement.
Record(i) ==
  /\ worker[i].pc = "recording" /\ Goes(i, "ending")
  /\ lane' = IF /\ epoch = worker[i].pin /\ LiveLease(i)
                /\ ~QueuePending(worker[i].window)
             THEN [complete |-> TRUE, epoch |-> worker[i].pin, window |-> worker[i].window]
             ELSE lane
  /\ UNCHANGED <<revision, stocked, public, cache, queue, nextId, current, epoch,
                 today, overtaken, lease, trouble>>

\* Mutant: the lease is given back whoever holds it.
EndAnyhow(i) ==
  /\ worker[i].pc = "ending"
  /\ worker' = [worker EXCEPT ![i] = Rests(today)]
  /\ lease' = [owner |-> Nothing, live |-> FALSE]
  /\ UNCHANGED <<source, current, today, overtaken, trouble>>

\* releaseMaintenanceLease
End(i) ==
  /\ worker[i].pc = "ending"
  /\ worker' = [worker EXCEPT ![i] = Rests(today)]
  /\ lease' = IF lease.owner = i THEN [owner |-> Nothing, live |-> FALSE] ELSE lease
  /\ UNCHANGED <<source, current, today, overtaken, trouble>>

\* The invocation is cut off; its lease stays behind.
Crash(i) ==
  /\ Trouble
  /\ worker[i].pc # "idle"
  /\ worker' = [worker EXCEPT ![i] = Rests(today)]
  /\ UNCHANGED <<source, current, today, overtaken, lease>>

\* The lease of a crashed invocation ends in time; that of one which works on
\* may end too.
LeaseLapses ==
  /\ lease.live /\ lease' = [lease EXCEPT !.live = FALSE]
  /\ IF worker[lease.owner].pc = "idle" THEN UNCHANGED trouble ELSE Trouble
  /\ UNCHANGED <<source, current, today, overtaken, worker>>

---------------------------------------------------------------------------
WorkerStep(i) ==
  \/ ReadLane(i) \/ Prepare(i) \/ (\E a \in Account : Claim(i, a)) \/ ClaimsNothing(i)
  \/ Probe(i) \/ Acknowledge(i) \/ Retire(i) \/ AssertPin(i) \/ Publish(i)
  \/ Record(i) \/ End(i)

AnalysisNext ==
  \/ \E a \in Account : Upload(a) \/ LoseSource(a) \/ CacheDamaged(a) \/ Withdraw(a)
  \/ \E w \in Window : TodayChanges(w)
  \/ \E i \in Worker : \/ Start(i) \/ WorkerStep(i) \/ OutOfBudget(i) \/ Defer(i) \/ Crash(i)
                       \/ \E a \in Account : Bootstrap(i, a)
  \/ LeaseLapses

AnalysisSpec == AnalysisInit /\ [][AnalysisNext]_vars

\* The cron trigger comes back, an invocation that runs takes its next step,
\* and time passes.
FairAnalysisSpec ==
  /\ AnalysisSpec
  /\ WF_vars(\E i \in Worker : Start(i))
  /\ \A i \in Worker : WF_vars(WorkerStep(i))
  /\ WF_vars(LeaseLapses /\ trouble' = trouble)

---------------------------------------------------------------------------
\* A row that is settled in the window the queue stands at has the caches of
\* exactly the account's current input and of that window: no upload and no
\* damage is swallowed by the acknowledgement of an older claim.
SettledIsCurrent ==
  \A a \in Account :
    HasRow(a) /\ ~queue[a].pending /\ queue[a].window = current.generation
      => cache[a] = [revision |-> revision[a], window |-> current.window]

\* An account whose contributions the public may see is never forgotten: it
\* has a row, whatever was retired or withdrawn before.
SourcesAreQueued == \A a \in public \cap stocked : HasRow(a)

\* While the lane reads as current, every public account's published analysis
\* is that of its current input and of the day asked about.
ReceiptTellsTruth ==
  \A w \in Window : LaneCurrent(w) =>
    \A a \in public \cap stocked : cache[a] = [revision |-> revision[a], window |-> w]

\* The caches an invocation writes are those of the account's current input and
\* of a window the queue still stands at, whatever happened while it computed.
\* A lapsed invocation never overwrites a newer result.
PublishesCurrentInput ==
  [][\A a \in Account :
       cache'[a] # cache[a] /\ cache'[a] # Nothing
         => cache'[a] = [revision |-> revision[a], window |-> current.window]]_vars

\* While an account waits in the current window no row is served twice: an
\* account that never stops uploading, or whose work never fits into the
\* budget, cannot keep the others from being served.
ServedInTurn ==
  [][\A i \in Worker :
       worker'[i].claim # worker[i].claim /\ worker'[i].claim # Nothing
         => \A b \in Account \ {worker'[i].claim.account} :
              Ready(b) => worker'[i].claim.id \notin overtaken[b]]_vars

\* When nothing changes any more the day's recomputation becomes complete and
\* stays so, after every crash, deferral, lapse and rollover there has been.
BecomesComplete == <>[]LaneCurrent(today)
=============================================================================
