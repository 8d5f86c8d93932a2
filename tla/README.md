# TiboTattle: a TLA+ verification project

TiboTattle is a local-first usage and quota monitor for coding agents.  It reads
session files on the user's machine, keeps an accounting index and a contribution
queue on disk, serves a dashboard from a loopback companion, and, with consent,
uploads prepared contributions to a hosted service, a worker over D1 and R2.  This
directory holds TLA+ modules of the parts where order, failure and concurrency
matter, TLC configurations that check them on small instances, and TLAPS proofs of
the main results for every value of the constants.

Paths are written as in `PROJECT.json`: the repository's own `src/application/x.js`
is `src/src/application/x.js` here, its `apps/...` is `src/apps/...`.

    tlc -config sq_race.cfg MCSyncQueue     # a run: the pairs are in PROJECT.json
    tlapm SyncQueueProofs.tla               # the proofs of one module

Contents: 1 inventory, 2 modules, 3 runs, 4 proofs, 5 divergences found,
6 abstractions and what is left out, 7 plan.

## 1. Inventory

### Parts and how they interact

```
 agent session files ──> collector / unified index ──> accounting, quota analysis
                                   │                              │
                                   v                              v
  contribution preparation ── prepared sets (spool)       companion server <── HTTP ── dashboard
             │                     │                       │      │              (renderer)
             v                     v                       │      │                 │ IPC
      incremental sync      contribution queue  <── pause, │      │                 v
   (controller, runner)     (one SQLite file)   preview,   │      │          desktop controller
             │                     │            retirement ┘      │     (cadence, leases, windows)
             │  accountless sharing <── private channel, fences ──┼── preference, secret store
             │  (scheduler, passes, supplement)                   │                 │
             v         v           v                              └── supervisor ───┘
        device credential (keychain, renewal, mutation leases)
             │         │           │
             └───────── HTTPS ─────┴──> worker: upload handlers ──> D1 rows, R2 objects
                                          │            ^  ^
                                cron ─────┼── reconciliation, erasure
                                          └── analysis queue, caches, receipts
```

Several operating-system processes share files: command-line delivery passes, the
companion server and dead predecessors of either open the same queue; the desktop
shell owns its settings, the sharing preference and the secret of accountless
sharing.  In one process, every `await` is a point where another callback runs.  At
the service, requests and cron invocations overlap, and D1 and R2 share no
transaction.

### Components

| component | state it keeps | operations | what is hard | what makes it correct |
| --- | --- | --- | --- | --- |
| **contribution queue** | rows in SQLite (state, attempts, next attempt, lease), a pause flag, prepared directories | discover, enqueue, claim, upload, record outcome, recover leases, pause, inspect, retire accepted or superseded sets | several processes, crashes, leases that lapse while an upload runs, lost receipts, two stores (files, rows) that change one after the other | outcomes are final, live leases are exclusive, what was recorded as accepted is not sent again, rows outlive the files they deduplicate, work is not stranded |
| **contribution preparation** | staged and published directories | select, redact, write, publish by rename | a crash before the rename | a published set is whole |
| **incremental contribution sync** | consent, pause and next attempt in a file and in memory, one timer, one claimed run | load, start, stop, claim, settle, approve, pause for a device, resume | deadlines that abandon a runner, writes that fail before or after the rename, an unreadable file, runs that settle after a pause | consent is never lost, a run counts only under the consent it was claimed for, the cadence does not die |
| **incremental contribution runner** | how far a pass is; the guard flags of the companion server | check, renew the credential, upload; pair, disconnect, reset, approve, start, read | a rotation whose answer is lost, routes beside an abandoned pass, crashes at any await | a secret that may have been rotated is fenced on file and sent nowhere, one user of the credential at a time |
| **accountless contribution scheduler** | a timer, the pass under way, a status, notes of what came meanwhile | start, stop, ask, upload, retry, change of preference, published index | aborts that release a pass whose work goes on, the turn between an outcome and its release | one pass at a time, it keeps going, a published index is not forgotten |
| **accountless sharing** | the preference, a secret and its binding file, requests and fences on a channel between two processes | opt in, opt out, authorize, read and create the secret, send, dispose | an opt-out beside a request that was just cleared, timeouts at both ends, a companion that ends | nothing is sent after an opt-out has returned, no secret without its binding |
| **telemetry performance scheduler** | a supplement beside the passes | fetch behind a look at the preference | the same gap | the same fence (section 5) |
| **desktop refresh cadence** | a stamp in a protected file, its copy in memory, the last clock reading | choose a mode, reserve, take back | a clock that is set back, saves that fail after they took effect, restarts between reservation and delivery | automatic detailed refreshes keep the hourly budget |
| **desktop refresh schedule and leases** | timers, the tick in flight, an operation queue, the active lease and two watchdogs, the dashboard window | tick, follow-up, rearm, change interval, grant, heartbeat, settle, recover, dispose, open and close windows | late messages of superseded sessions, watchdogs that race them, settings that change during a tick | a lease is always watched, only its own settlement ends it, the cadence never dies |
| **companion refresh** | the running refresh, its stages, terminal status | start (quick joins detailed), cancel, time out, publish results | cancellation against completion | one refresh at a time, a terminal status per run |
| **device credential** | active and pending secrets, renewal state | enroll, renew, use, disconnect, repair | a crash between the service's answer and the local write | never without a usable secret, never two active ones |
| **credential mutation leases** | lease tables in memory, native mutexes, journals | acquire, run an operation, release, recover | a holder that dies | one mutation at a time |
| **export deletion and discard** | a journal, the export's files | plan, delete, recover, discard | a crash half-way | nothing outside the export is removed, recovery finishes |
| **desktop notifications** | policy state, the delivery in progress | evaluate, deliver, record | failure after delivery, stale evidence | one notification per event |
| **desktop lifecycle and supervisor** | windows, the child process | open, reveal, destroy, start, stop, restart | exit while starting | one child, no window of a dead companion |
| **desktop updater** | check, download and install states | check, download, install | events of an external updater | operations do not overlap |
| **unified local index**, **collector state** | SQLite generations, observation records | ingest, rebuild, swap | interruption of a rebuild | readers see a complete generation |
| **dashboard** | the renderer's refresh session | start, heartbeat, finish | replies later than their deadline | gives back every lease it takes |
| **worker ingress and admission** | reservations and a mutation barrier | acquire, renew, release | expiry, retries | never over the budget |
| **worker storage and lifecycle** | D1 rows, R2 objects, pending registrations, authorizations, audits of erasures | upload, reconcile, erase, replay | two stores that no transaction spans, lost answers, overlapping passes and erasures | an accepted upload keeps its object and its receipt, no object is lost sight of |
| **worker community analysis** | a queue row, caches and an input revision per account, receipts per lane | mark, claim, analyse, publish, acknowledge, retire, record the receipt | uploads while an analysis runs, leases that lapse, a day that ends, a budget that runs out | a receipt is true, nobody is forgotten or starved, the day's work ends |
| **accounting and quota analysis**, **identity core and telemetry contract** | none | estimate, encode, validate | numerical | pure functions |
| **companion server**, **settings, migration and credentials**, **native helpers and packaging** | sessions of the parts above | serve, migrate, build | mostly I/O | covered through the parts they serve |

`PROJECT.json` lists each of them with its sources and status, and under `hazards`
what is hard to test in the modelled components, at its line, with the properties
that cover it or the reason why none does.

## 2. Modules

| module | what it is |
| --- | --- |
| `SyncQueue`, `MCSyncQueue` | the contribution queue: rows, artifacts, passes, retirement, crashes, the operator |
| `DeliveryOutbox` | what the queue promises, without leases, files, passes and crashes |
| `RefreshCadence`, `MCRefreshCadence` | the hourly budget of automatic detailed refreshes |
| `RefreshSchedule`, `MCRefreshSchedule` | cadence timers, ticks, refresh leases, windows and renderer sessions |
| `IncrementalSync` | the controller of the incremental sync, whatever its runner does |
| `ContributionDelivery` | that controller composed with the runner, the routes and the credential; shown to implement it |
| `AccountlessScheduler` | the scheduler of accountless sharing, whatever a pass does |
| `AccountlessSharing`, `MCAccountlessSharing` | that scheduler composed with both ends of the channel, the operator and the passes; shown to implement it |
| `SharingSupplement` | the performance supplement on the same channel |
| `AnalysisQueue` | the worker's queue of analyses and the receipt of a day |
| `QuarantineStore`, `MCQuarantineStore` | the worker's two stores under uploads, reconciliations and erasures |
| `SyncQueueProofs`, `RefreshCadenceProofs`, `RefreshScheduleProofs`, `IncrementalSyncProofs`, `ContributionDeliveryProofs`, `AccountlessSharingProofs`, `AnalysisQueueProofs`, `QuarantineStoreProofs` | the theorems of section 4 |

Definitions whose comment begins with "Mutant:" are faulty variants of the
definition that follows them.  Nothing uses them; put in its place, each makes a
property of some run fail, which shows that the property depends on the code.

### SyncQueue

Sources: `local-contribution-sync-queue.js` (the pass and the retirement),
`local-contribution-sync-queue-storage.js` (the SQL), `contribution-device-sync.js`
(one upload).

* `row[j]` is the row of a contribution in `contribution_jobs`, `paused` the flag of
  `queue_meta`, `artifact[s]` what is on disk of a prepared set.  Retirement removes
  a directory file by file, so a set goes from `whole` through `partial` and
  `review` to `gone`.
* A pass is `pc`, `job` and `local`.  It goes through `discover` (list the spool,
  verify set by set), `enqueue` and `insert` (read an entry, then the transaction of
  `enqueueJob`), `select` (the delivery loop over the candidates of `readyJobs`),
  `claimed`, `authorize`, `send` and `stored` (one upload: key request,
  authorization, upload, receipt).  Each of these is an `await` at which every other
  process may act; each SQL statement or transaction is one step.
* Errors carry what the catch block reads of them: `retryable`,
  `deviceUnavailable`, a retry delay, a delay past the horizon.
* `ret` is the retirement: its candidates are selected once and then, set by set,
  files and rows are removed.
* `CrashPass` and `CrashRetirement` lose everything but files and rows; `AbortPass`
  is a signal, which the loop checks between jobs.  The environment lets retry
  deadlines and leases pass, prepares sets, pauses, resumes and inspects.

`DeliveryOutbox` has items that are absent, open, accepted or dropped.  It lets the
service store a known item any number of times and accept it at most once, after it
was stored; outcomes are final; items are forgotten in whole groups that are all
open or all accepted.  `Box` in `SyncQueue` is the refinement mapping.

### RefreshCadence

Sources: `desktop-automatic-refresh-cadence.js`, the settings backend, and the tick
of `desktop-controller.js` as far as it uses them.  There are two clocks: `wall`,
which the code reads and which may be set back, and `age`, the true time, which only
histories and properties look at.  A save takes a step in which it may land, fail,
or fail after the file has changed (`reconciliation_required`).  A restart may hit
any await.

### RefreshSchedule

Sources: `desktop-controller.js` (timers, tick, operation queue, leases),
`electron-refresh-lifecycle.js` (the renderer's session), `desktop-lifecycle.js` and
`desktop-runtime.js` (the window).  A timer handle holds what its callback does,
`tracked` is the one handle the controller remembers (`refreshTimer`).  `inbox` is
the ordered channel from the renderer to the main process.  A session is the
renderer's side: what became of its start request, its work, its settlement, and
whether it has stopped waiting for the reply.  Durations are left out: any armed
timer may fire at any moment, so a watchdog may find a renderer that is merely slow.

The choice between a quick and a detailed tick is `RefreshCadence`; the schedule sees
it only as the awaits between the beginning of a tick and its end.

### IncrementalSync and ContributionDelivery

Sources: `local-incremental-contribution-sync.js` (the controller); `apps/local/server.js`
(runner, guards, routes) and the `contribution-device-*.js` modules (renewal, pairing,
disconnect).

* Every operation of the controller passes `#serialize`, so that an operation with
  the write it ends in is one action: `Start`, `Approve`, `PauseForDevice`, `Resume`,
  `Claim`, `Withdraw`, `Settle`.  `Persist` is that write, which may fail before or
  after the file was replaced, and what each caller does then.  `settings` and `file`
  are the two copies; `available` says whether the code still trusts the first.
* `claim[r]` is a run from the timer to its settlement.  A generation number is only
  compared with the current one, so `fenced` stands for "older".  A deadline moves the
  claim on and leaves the runner where it is.
* In `ContributionDelivery` the runner of a pass goes from the guard through the
  renewal (pause for repair on file, request, compare-and-swap in the Keychain,
  record, resume) to the upload, one await per step; an abandoned runner goes on.
  `route` is the operator's request under way, `Busy` and `Conflict` the flags that
  admit it.  `credential` is how Keychain and service stand to each other.
* `ImplementsController` says that all this changes the controller only by its own
  operations, so that what is proved of `IncrementalSync` holds in the composition.

### AccountlessScheduler, AccountlessSharing and SharingSupplement

Sources: `accountless-contribution-scheduler.js`; `desktop-sharing.js`,
`accountless-contribution-channel.js` (both ends), `apps/local/accountless-contribution.js`,
`contribution-accountless-client.js`; `telemetry-performance-scheduler.js`.

* A pass is `asking` (its look at the preference), `uploading`, and `leaving`: its
  outcome is decided a turn before `pending` is cleared, and an index that is
  published, or a preference that changes, in that turn must not be lost (`rerun`,
  `published`).  An abort or the deadline releases a pass whether or not its work is
  done; in `AccountlessSharing` that work is `worker[p]`, which goes on.
* `toChild` and `toParent` are the two directions of the channel, in order.  Requests
  and fences carry numbers in the code; what matters is whether anybody still waits,
  so a message nobody waits for stays in its place, addressed to `Nobody`, or is left
  out where it is the last and would have no effect (`Forgets`).
* `call[c]` is one `setEnabled`: fence, save, wait for the acknowledgement, fence again.
  `serving` is the desktop's handling of one request, which a fence makes `stale`.
* `SharingSupplement` adds the supplement as one more client of the channel.

### AnalysisQueue

Sources: `community-analysis-queue.ts`, `community-analysis-warmer.ts`, lane `current`
of `community-refresh-lanes.ts`, the triggers of migrations 0054 and 0060, and the
maintenance lease in `index.ts`.

* A D1 batch with its triggers is one step.  `queue[a]` is the row of an account (id,
  dirty mark, window, pending, served), `cache[a]` the input revision and window its
  published analysis was computed for, `lane` the receipt.
* `worker[i]` is an invocation: it reads the lane and pins the epoch (`ReadLane`), moves
  a batch of rows into the current window (`Prepare`), and then claims (`Claim`, which
  puts the row at the back), probes the caches, computes and publishes under
  `AckGuard`, or acknowledges, or retires the row, until there is nothing left, and
  records the receipt.
* Uploads, retention, withdrawals, damaged caches, the end of the day, a lapsing lease,
  exhausted budgets and crashes come between any two of these.

### QuarantineStore

Sources: the upload handlers of the worker's `index.ts`, `device-auth.ts`,
`quarantine-reconciliation.ts`, `participant-erasure.ts`, `repository.ts`, and the
triggers of migrations 0013, 0058 and ingestion-isolation 0014.

* An upload registers its id, puts its object and inserts its row; `handler[u]` is at
  one call of D1 or R2 at a time.  `registration[u]` is its row in
  `pending_quarantine_objects` (or the pass that is deleting it), `objects` what R2
  holds, `rows` what was accepted, `auth[u]` and `receipt[u]` the one-use
  authorization and what it was consumed for.
* After a failing insert the handler looks the row up: it may be its own (the answer was
  lost), that of an equal upload, or none; what it then deletes depends on that.  A
  call that failed may have taken effect or not.
* The three formats differ in what fences a late insert (`FenceAdmits`): v0 refuses
  while its registration is being deleted and clears it as it is accepted; v1.2
  needs the registration to stand; v1.0 and v1.1 look at neither.
* `pass[r]` is a reconciliation under its lease: select a batch, look for the row, claim,
  assert the lease, read, assert and look again, delete, settle.  Registrations are
  ordered by age; `horizon` is how many are older than the grace.
* `erasure[e]` is one attempt to erase the participant: mark or take over, tombstone,
  count, page through the rows and delete their objects, recount, delete the rows.
* A behaviour is about one `setting`: the format, which uploads carry equal records,
  what kind of owner, and which passes and attempts take part.

## 3. Runs

| run | module, configuration | shows |
| --- | --- | --- |
| `race` | `MCSyncQueue`, `sq_race` | two deliverers over one set: final outcomes, exclusive leases, no second sending after a receipt |
| `retire` | `MCSyncQueue`, `sq_retire` | delivery against both retirements and crashes, under all limits: rows outlive files, accepted retirement loses nothing, the queue implements the outbox |
| `settles` | `MCSyncQueue`, `sq_live` | two deliverers over one contribution, leases lost during an upload, every answer of the service, pauses, a crash: a delay past the horizon that a pass hears of while it holds its lease lets none begin before the operator resumes, heard later it only ends the pass; everything queued is settled or the queue is paused |
| `budget` | `MCRefreshCadence`, `rc_budget` | the hourly budget |
| `leases` | `MCRefreshSchedule`, `rs_leases` | two sessions: watchdogs, survival of the cadence, who ends a lease, a finished renderer gives it back |
| `ticks` | `MCRefreshSchedule`, `rs_ticks` | automatic ticks keep coming whatever a renderer does |
| `delivery` | `ContributionDelivery`, `cd_delivery` | passes that rotate the credential, hanging runners, every route, failing writes, crashes: a rotated bearer is fenced and sent nowhere, one user of the credential, consent and disconnects last, the controller is implemented, attempts keep coming |
| `sharing` | `MCAccountlessSharing`, `as_sharing` | nothing is sent after an opt-out has returned, no secret is orphaned, the scheduler is implemented and keeps going |
| `analysis` | `AnalysisQueue`, `aq_analysis` | settled rows and the receipt are true, nobody is forgotten, publications are current, accounts take turns, the day becomes complete |
| `quarantine` | `MCQuarantineStore`, `qs_quarantine` | an accepted upload keeps its object and receipt, no object leaves both journals, what has no row goes in the end |
| `registration_horizon` | `MCSyncQueue`, `sq_registration` | section 5 |
| `supplement_fence` | `SharingSupplement`, `as_supplement` | section 5 |

### Bounds, and why they are enough

* `race`: two passes, because every hazard of a lease is between its holder and one
  successor; two contributions, so that a pass goes on with the next one while the
  first is contested; one crash or interruption; one answer, `Transient`, since the
  kinds of answer are the question of `settles`.  Uploads may outlast their lease.
  The passes are symmetric.
* `retire`: two sets, of two and of one contribution, so that a set can be half
  enqueued, half delivered, or retired beside another one.  The limit of two rows
  cuts the first set; the second contribution does not fit a pass beside another
  one; one candidate per pass and per retirement makes the order of selection
  matter.  A pass may be bound to one set or to one reviewed contribution.
* `settles`: all five kinds of answer; two passes and leases that lapse under them, so
  that an answer can come after the lease was taken over and another pass can begin
  beside the one that was told to wait; one contribution, since the pause is one flag
  of the queue (the theorem covers any number).  `MaxAttempts` is 2, the smallest
  number for which a retry and its exhaustion differ.
* `registration_horizon`: one pass, one contribution, no lapse under an upload: the
  run is about the request only.
* `budget`: an interval of two ticks of the clock, a life of three intervals, two
  restarts, the clock set back twice, one damage.  A violation needs two detailed
  attempts (one interval apart) and something that goes wrong between them.
* `leases`: two sessions, so that one can be superseded by, or be late for, the
  other; one dashboard after the first; two timer handles and one change of the
  interval.  A step that would arm a third timer does not happen in this run; the
  proofs have no such bound.  Handles and sessions are symmetric.
* `ticks`: one session and four handles.  Without a change of the interval no
  behaviour has four timers at once, so no step is cut off by the number of handles.
* `delivery`: two runs, an abandoned one and its successor; two schemas, so that an
  approval can replace another consent; `RetryLimit` 1, so that the settings the file
  has no room for are reached; two failing writes, because the retry of a pause that
  failed may fail too.  Crashes and restarts are not bounded.
* `sharing`: two passes, a released one whose work goes on and its successor, which are
  symmetric; one change at a time by the operator, repeated without bound.  `MaxQueue`
  delays a request or a change while messages are on their way; answers, fences and
  acknowledgements are not delayed.  Timeouts and exits of the companion are not
  bounded.
* `analysis`: two accounts for the order of service, two overlapping invocations, two
  windows of which each can come back, one row per batch so that a rollover is cut
  off, and two troubles in a behaviour (an upload, a withdrawal, a damage, a lapse,
  a deferral, a crash): the hazards listed need two, something that changes and
  something that comes late.
* `quarantine`: ten scenes, each with one actor more than the hazard needs: two equal
  uploads beside a pass and two passes beside one upload, in every format; an erasure
  beside a pass; an erasure of two uploads; two erasures.  A batch of one, so that
  the cursor matters; one trouble in a behaviour.  (With two troubles the three
  invariants were checked as well, on 988 000 states.)
* Deadlock is checked in `delivery` and `analysis`.  The other systems may stop: bounds
  on crashes, time and changes run out, a program that was disposed of has nothing
  left to do, a queue whose work is done rests, and two scenes of `quarantine` schedule
  no pass.

Previewing passes (`Previewer`) occur in no run: what one does is the beginning of
what an interrupted delivering pass does.  The theorems cover them.

### Fairness

* `FairDelivery` (`settles`): the delivering process is invoked again and again (the
  `watch` loop of the command line), the awaits of a pass end, time passes, so that
  retry deadlines come and the leases of dead passes lapse.  `FairRetirement`: the
  companion starts a retirement after its work again and again, and its awaits end.
  Nobody is obliged to prepare, pause, resume or preview; crashes are bounded.  An
  upload may outlast its lease, but not for ever: `QueuedEventuallySettles` supposes
  that leases lapse under a live upload only finitely often (`SlowUploadsEnd`).  An
  upload has no timeout of its own, so that one which always outlasts its lease is
  always retried.
* `CadenceSpec` (`ticks`): armed timers fire, awaits end, queued operations and
  messages are handled, and the absolute deadline of a lease passes.  Nothing is
  assumed of renderers: one may hang at any point, or send heartbeats for ever.
* `DeliveryFairness` (`delivery`): time passes, an armed timer fires when its moment has
  come, a claim goes on to the runner, a runner that was turned away returns, and the
  deadline or the settlement ends a claim.  Nothing is assumed of a runner that was
  admitted (it may hang for ever; the deadline is there for that), nor of the operator.
* `FairAnalysisSpec` (`analysis`): the cron comes back, the calls of an invocation end,
  and a lease left behind lapses.  Which step an invocation takes is open; what comes
  from outside, deferrals and crashes are bounded, so that "when nothing changes any
  more" is a state behaviours reach.
* `FairStoreSpec` (`quarantine`): requests and passes do not hang, maintenance is
  scheduled again, authorizations and leases lapse, registrations grow old.  Nothing is
  assumed of erasures.

## 4. Proofs

All theorems hold for every value of the constants under the assumptions named in
the modules: `QueueConstants`, `TargetsEnqueueWhatTheySend` (a pass bound to a set
enqueues that set, any other one enqueues all), `CadenceConstants`,
`ScheduleConstants`, `IncrementalConstants`, `PassConstants`, `SharingConstants`,
`AnalysisConstants`, `NothingIsNoRecord`, `StoreConstants`.  They are typings,
finiteness and non-memberships of model values (`SharingConstants` also keeps the
names of requests and of changes apart, which in the code are numbers of two
counters), and every run evaluates those of its modules.

### SyncQueueProofs

1. `TypeCorrect` (`TypeOK`).  `TypeInv` adds that a pass past its claim, or about to
   insert, has a job in hand.
2. `QueueInv` = `TypeInv`, what rows mean for the histories (`RowInv`) and what
   passes do (`PassInv`).  `NoResendUnderLease` is not inductive alone: that a receipt
   outlives its row needs that rows are deleted only when the files are gone, and
   that in turn needs that a known contribution without a row has no files.
   From it: `NeverResent` (`NoResendUnderLease`), `RowsOutliveFiles`
   (`DedupeRowsOutliveFiles`).
3. `StepEffect` classifies every step by what it does to the rows (`Effect`):
   shuffle open rows, store, enter, fail, succeed, leave by whole sets.
   `OutcomesAreFinal` (`SettledIsFinal`) and `QueueImplementsOutbox`
   (`ImplementsOutbox`) are read off this classification: each class is one action
   of the outbox or a stutter.
4. `StepLeases` classifies every step by what it does to the lease of a row
   (`LeaseEffect`), with the invariant that only rows in flight have a holder.
   From it: `LeasesAreKept` (`LeasesAreExclusive`).
5. `overHorizon` records every answer past the horizon, under the request it answers,
   or as `late` if the pass had lost its lease by then (`RecordAnswer`, in both
   branches of `FinishFailed`).  `HorizonInv` (an answer to the key request or the
   upload that was heard under the lease is on record only while the queue is paused)
   gives `HorizonIsKept` (`HorizonKept`): no pass begins to send while there is one,
   and the pass that hears such an answer, or a late one, ends.  The theorem promises
   no pause after a late answer; the code makes none (section 5).
6. `SetInv` gives `RetirementLosesNothing` (`AcceptedRetirementLosesNothing`).
   "Accepted" is decided from the rows of a set that exist, so that none may be
   missing.  A pass claims only from sets whose every contribution it has enqueued
   (`PassesEnqueueSets`); hence a row that was ever tried belongs to a set all of which
   was enqueued (`TriedSetsAreKnown`), and such a contribution loses its row only when
   the files are gone (part of `RowInv`).  An accepted contribution is delivered, and
   what a retirement has selected stays free of loss (`RetirementIsSafe`).

### RefreshCadenceProofs

`BudgetInv` says of each stamp (in memory, on file, being written, in hand) that
neither the wall clock nor the clock of the process is further past it than true time
is past the last delivered reservation (`Covers`).  Setting the clock back keeps
this, which is why it is stated as a difference.  A reservation the tick holds is an
interval past the last delivered one, and what it would put back is covered as well
(`Reserved`).  From it: `CadenceTypeCorrect`, `DetailedIsReservedOnFile`
(`ReservedOnFile`), `BudgetIsKept` (`HourlyBudget`).

### RefreshScheduleProofs

`ScheduleInv` is inductive: types, a running operation is the head of the queue,
`WatchdogsGuardLease`, `CadenceSurvives`.  From it: `ScheduleTypeCorrect`,
`LeasesAreWatched`, `CadenceNeverDies`.  `MessageInv` adds that start and settlement
are each in the channel at most once and agree with the renderer's session.
From it: `LeasesEndByTheirOwn` (`OnlyOwnSettlementReleases`).  `SettleInv` follows one
settlement: while a lease is active its session knows of it or is about to, and the
last settled lease is one whose settlement was answered.  From it:
`FinishedSessionsGiveBack` (`FinishedSessionSettles`).

### IncrementalSyncProofs and ContributionDeliveryProofs

`ControlInv` adds to the types and properties of the controller that the file never
holds what its format has no room for, that settings which are served name a next
attempt, and, for `ConsentKept`, that settings which lack a consent the file has are
never written, because they are neither available nor the retry of a pause.
`PersistInv` says once what a write needs, and every operation cites it.  From it:
`SpecTypeOK`, `SpecOneClaim`, `SpecMemoryMatchesFile`, `SpecCurrentRuns`,
`SpecCadenceAlive`, `SpecConsentKept`.

`DeliveryStepsControl` shows that every step of runner and routes is a step of the
controller or leaves it alone (`DeliveryImplementsController`), so that `ControlInv`
carries over.  `PausesInv` then follows a pause on file (it has fenced every claim, and
memory may differ from it only while nothing but its retry is written), `PartiesInv`
the runner and the route: a runner that renews holds the guard and has the pause for
repair on file.  From their conjunction `DeliveryInv`: `DeliverySpecTypeOK`,
`DeliveryCredentialIsExclusive`, `DeliveryRotatedIsFenced`, `DeliveryRotatedIsNotSent`,
`DeliveryDisconnectHolds`, and `DeliveryRemovedWhilePaused` (a credential is removed
only while delivery is paused on file).

### AccountlessSharingProofs

`SchedulerInv`: there is one pass; one that counts belongs to a started scheduler;
one that does not is followed by another and shows nothing; what a pass that leaves has
decided is what its release finds.  From it: `SchedulerSpecTypeOK`,
`SchedulerKeepsGoing`, `SchedulerStatusIsTrue`, `SchedulerPublicationIsKept`.

Every step of the composed system is a step of the scheduler or leaves it alone
(`SharingStepsSchedule`): outside the companion nothing touches it, a fence that
arrives is a change of the preference, and a pass moves it only by operations for that
pass.  Hence `SharingImplementsScheduler` (`ImplementsScheduler`) and, of the composed
system, `SharingKeepsGoing` and `SharingPublicationIsKept`.

`SharingInv` joins to this what the two processes know of each other, for message
queues of any length.  Whatever a step does to a queue, each message in it is one it
held before, perhaps readdressed to `Nobody`, or a new one at the end (`Carries`);
each of the invariants is shown once to survive that (`OneAtATimeMoves`,
`AwaitedMoves`, `QuietStays`, `SecretStays`), and a handler has only to say which
message it takes and which it adds.

1. `ChannelInv`: whoever a message names is waiting for it, and is named once,
   queues and desktop taken together.  Without this an answer to a request that was
   given up could be taken for the answer to the next.  `WorkersAreAwaited` says which
   question the work of a pass may be waiting on, released or not.
2. `NoSendAfterOptOut` speaks of a step long after the opt-out.  `FencesAreQuiet`
   follows the fence: on its way to the companion it has no permission *behind* it
   (the channel keeps its order); once the companion has taken it in, there is no
   permission anywhere that a pass which has not been aborted will still act on
   (`Quiet`); that lasts while the change does, because a change under way answers
   "no", and after it, because the preference says "off", until the operator begins
   another.
3. `NoOrphanSecret` needs to know why a binding may be removed.  The pass removes it
   after an answer other than "stored" or "uncertain", and `RefusalIsTrue` says that
   such an answer is given, or will be, only while nothing is stored and no create is
   on its way or being served.  `SecretInv` adds that one pass at most owns the
   binding: the work of a released pass goes on beside its successor.

From it: `SharingSpecTypeOK` (`SharingTypeOK`), `NothingSentAfterOptOut`
(`NoSendAfterOptOut`), `NoSecretIsOrphaned` (`NoOrphanSecret`); and of the time before an
opt-out is reported `AcknowledgedFenceHolds`, of the time before a binding is removed
`BindingIsRemovedSafely`.

### AnalysisQueueProofs

`AnalysisInv`: a row belongs to a public account and its id to no other row; a row that
still has the id of a claim has lost none of its marks; a row unmarked since it was
claimed still has the caches that were seen; those who were served while an account
waited stand behind it.  The steps that touch rows are classified by what they do to
one row (`Touched`, `Evolves`), so that each part is shown once for all of them.  From
it: `AnalysisTypeCorrect`, `SettledRowsAreCurrent`, `NobodyIsForgotten`,
`ReceiptIsTrue`, `PublicationsAreCurrent`, `AccountsTakeTurns`.

### QuarantineStoreProofs

`StoreInv` says, beside the types and the three invariants, that records are accepted
once (`RowsAreUnique`), what a handler knows (one that cleans up has no row, and an
upload old enough for a pass to delete it can no longer be accepted), what a pass
knows of the registration it has come to, and how far an erasure is.  The last clause
of `HandlerKnows` is the fence: when an object is gone before its insert, the
participant is being erased or the registration no longer stands.  Steps that only move
a local variable are handled by one lemma per actor; each step that writes to a store
has a lemma of its own.  From it: `StoreTypeCorrect`, `RetainedRowsHaveObjects`,
`AcknowledgedIsKept`, `ObjectsAreTracked`.

### Proved and not in a run, and the other way round

Every safety property (invariant or action property) of a passing run is stated by a
theorem.

Proved only: the type invariants `TypeOK` (queue, cadence, schedule, controller),
`DeliveryTypeOK`, `StoreTypeOK`, and `ReservedOnFile`, `OneClaim`,
`MemoryMatchesFile`, `RemovedWhilePaused`, `StatusIsTrue`.  TLC agreed with each
before it was proved, and with the parts of `SharingInv` on the instance of `sharing`.

Only model-checked: liveness (`QueuedEventuallySettles`, `TicksKeepComing`,
`AttemptsKeepComing`, `BecomesComplete`, `OrphansGo`), which the prover does not do
under fairness.

## 5. Divergences found

Two have a run, whose property is what the repository says and which TLC refutes.

| run | what happens |
| --- | --- |
| `registration_horizon` | A retry delay past the horizon, answered to the upload-authorization request, loses that mark on its way through the credential callback (`contribution-device-sync.js:273`): the queue is not paused and retries after its ordinary backoff. |
| `supplement_fence` | The performance supplement looks at the preference, the opt-out completes, and then its request begins (`accountless-contribution.js:258`): nothing between its look and its request hears of the fence, which a comment of the channel promises to close for every such gap. |

Others are modelled as the code has them, or lie just outside a model, and have no run:

* A pass whose lease was taken over, or recovered by an inspection, and that is then
  told to wait past the horizon throws before it pauses the queue: the guarded
  `UPDATE` of `finishFailed` changes no row (`local-contribution-sync-queue-storage.js:534`,
  the pause is at `:535`).  Other passes begin to send and claim the same contribution,
  although the decision `2026-08-04-public-upload-ingress-admission.md:32` says such an
  answer pauses the queue.  It refutes the property of `registration_horizon` too: in
  that configuration with `SlowUploads = TRUE` there is the behaviour LeaseLapses,
  InspectQueue, FetchKeyFails, then a second Claim with `<<1, "late">>` on record.  The
  run leaves it out so that its counterexample is about the request.
* Rows left by a retirement that died between files and rows may be the oldest
  waiting rows; each later retirement then keeps them as the set under review
  (`local-contribution-sync-queue.js:411`).  Candidates of superseded retirement are
  selected once; a delivery that starts afterwards loses its files (`:408`).
* Rows of one pass share their timestamp.  `nextQueuedJob` breaks the tie by job,
  `oldestPreparedSetId` by set, so retirement can take the set whose contribution the
  review shows (`local-contribution-sync-queue-storage.js:565`).
* A stamp file that does not decode makes the cadence's state "unavailable" for good,
  where the comment promises a new seed (`desktop-automatic-refresh-cadence.js:219`).
* The follow-up of a tick overwrites the handle of a timer that was armed while the
  tick waited; both fire (`desktop-controller.js:654`).
* A disconnect whose pause could not be written leaves "binding available for retry"
  (comment at `apps/local/server.js:5958`); the retry is refused with
  `settings_unavailable` by the guard before it (`:5949`), until the program restarts.
* `handleSyntheticContribution` (worker `index.ts:2310`), the handler of the legacy
  synthetic preview, deletes its object after any failing insert without looking its
  row up.  A committed insert whose answer was lost leaves an accepted row without an
  object.  The handlers of the telemetry formats look first, which is what
  `RetainedHasObject` is about.
* A tick that began before a renderer took the lease sends its command under that
  lease (`TickDelivers` has no guard), and a window that becomes ready releases the
  lease its own page has taken while loading (`DashboardReady`).

## 6. Abstractions, and what is left out

Queue, cadence and schedule:

* Time.  In the queue a row is due or not, a lease has lapsed or not; in the schedule
  durations are left out; the cadence has a clock.  A clock that is set forward is
  not modelled: the code cannot tell it from time that has passed.
* `attempt_count` saturates at its maximum, which is all it is compared with.  It is
  compared only after a failure that was caught: claims that end by a crash do not
  exhaust a row.
* A lease token is named by the pass that made the claim: tokens are unique and a
  pass makes one claim at a time.  The reservation token of the cadence is named by
  its time.
* Which accepted sets are past their age limit, and the order of `accepted_at`, is a
  choice.
* The pause is read before a pass selects, as in the code: a second delivering
  process that is already in its loop goes on to its last candidate.  `HorizonKept`
  is stated so that it says what holds beside that, and beside an answer that comes
  after the lease was lost.  The read of the pause and the selection of candidates,
  two statements with nothing awaited between them, are one step.  An upload has no timeout of its
  own and may outlast its lease; the reservation stops at the first candidate that
  does not fit; a retirement that dies among the files leaves a set that fails
  verification.  These behaviours are in the model and no property denies them.
* A reload inside one dashboard window is not modelled; a new window is.  The
  controller's other operations (homes, notifications, appearance) only share the
  operation queue and are left out.

Incremental sync and sharing:

* A stamp of time is one of four relations to the present.  The jitter and clamp of a
  retry are the choice between two of them.
* What a pass uploads (days, chunks, its journal) is one step with any outcome; the
  outcome `synced` presupposes a credential the service knows.
* `retryCount` has room for a thousand failures in the file; the properties are stated
  for settings that parse, and a controller past that does stop (see `hazards`).
* `Sends` counts the requests that use a device credential.  The pairing request, which
  may hand the previous one over, is authorized by its pairing code and is not counted.
* In sharing, an invalidation is always taken by the channel, the deletion of a secret
  and the status messages are left out, and a failed save of the preference makes
  it unavailable for good, as in the code.

Worker:

* Analyses are their input revision and window; budgets and deadlines are choices of
  `OutOfBudget` and `Defer`.  A pin that was superseded throws out of the loop and ends
  the invocation, as in the code.  The daily lane, other lanes and snapshots are left
  out.
* An upload that makes its account public and queues it is one step (`Upload`), and so
  are adjacent reads of a request or of a reconciliation that nothing depends on in
  between.
* In the store, the result of a D1 call whose answer was lost is settled when the call
  is made, and learned by the look after it.  A cursor stands for the columns
  `complete`, `cutoff` and position; the rule against a clock set back
  is left out; a page of an erasure is one row; replays are answered by the same
  look-up as a failed insert.
* Two facts about durations are assumed there (`Ages`): no put lasts as long as
  the grace (an hour), and, since the fence of all formats but v1.2 does not cover a
  registration that has already gone, no authorization (five minutes) does either.
* Restore replay, storage routing, the erasure of the ingestion stores, retention by
  age (disabled), identity cooldown and the legacy synthetic handler are left out.

General: digests, payloads, encryption and HTTP are the outcomes they lead to; the
service seen from the client, and the client seen from the service, stores, asks,
answers or fails at any time.

Not modelled at all: parsing and indexing of session files, accounting and quota
estimation, codecs, catalogues, rendering, packaging (data and I/O without a
protocol), and the components of the plan.

## 7. Plan

Done: the queue with its outbox, the cadence, the schedule, the incremental sync with
its runner and routes, accountless sharing with its scheduler and supplement, the
analysis queue, the quarantine store, and their main theorems.

Next, in this order:

1. Worker ingress: reservations of the budget at their limit and the mutation barrier,
   with expiry and retries.
2. Companion refresh: single flight, a quick request joining a detailed one,
   cancellation against completion.  It composes with `RefreshSchedule`, whose
   renderer sessions follow it.
3. Credential mutation leases, under `ContributionDelivery`.
4. Export deletion and discard: the journal and its recovery.
5. Restore replay beside `QuarantineStore`.
6. Notifications and the supervisor.
