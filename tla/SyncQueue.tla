------------------------------ MODULE SyncQueue ------------------------------
(***************************************************************************)
(* The durable contribution queue of the local companion: prepared sets on *)
(* disk, one SQLite row per contribution file, delivery passes that lease  *)
(* a row, upload its contribution and record the outcome, and the          *)
(* retirement pass that removes artifacts and rows.                        *)
(*                                                                         *)
(*   src/src/application/local-contribution-sync-queue.js         (passes) *)
(*   src/src/platform/local-contribution-sync-queue-storage.js  (the rows) *)
(*   src/src/contribution-device-sync.js                      (one upload) *)
(*                                                                         *)
(* Several processes open the same queue file: command-line delivery       *)
(* passes, the companion server (previews, pause, retirement) and crashed  *)
(* predecessors of either.  Every SQLite statement or transaction is one   *)
(* step; every await of the code is a point where another process runs.    *)
(*                                                                         *)
(* Wall-clock time is abstracted to what the statements compare: a row is  *)
(* due or not yet (next_attempt_at <= now), and a lease has lapsed or not  *)
(* (lease_expires_at <= now).  Timestamps that are only ordered            *)
(* (created_at) are numbers that advance when a row has been written.      *)
(***************************************************************************)
EXTENDS Naturals, FiniteSets

CONSTANTS
  Pass,            \* queue passes that can run at the same time
  Previewer,       \* those of them that only preview (companion server)
  PreparedSet,     \* prepared_set_id values, ordered by SQL: numbers
  Job,             \* job_id values, ordered by SQL: numbers
  SetOf,           \* the prepared set of each contribution
  Bytes,           \* the upload reservation of each contribution
  Targets,         \* what a pass may be bound to: all, one set, one job
  Protected,       \* protectedPreparedSetIds of the retirement calls
  RetireKinds,     \* the retirement passes that run
  ServiceErrors,   \* the failures the service and the network answer with
  MaxAttempts, MaxQueued, MaxPerPass, MaxReserved,
  MaxRetirements, MaxRetained,
  SlowUploads,     \* may a lease lapse while its pass is still uploading
  OperatorPauses,  \* bound: does the operator pause the queue
  MaxCrashes,      \* bound: crashes and interruptions in a behaviour
  NoPass, NoJob, NoSet

\* What the catch block of a pass reads of an error: retryable,
\* deviceUnavailable, a Retry-After within the horizon, one past it.
Error == [retryable : BOOLEAN, gone : BOOLEAN, floor : BOOLEAN, over : BOOLEAN]

ASSUME QueueConstants ==
  /\ Previewer \subseteq Pass
  /\ PreparedSet \subseteq Nat
  /\ Job \subseteq Nat /\ IsFiniteSet(Job)
  /\ SetOf \in [Job -> PreparedSet]
  /\ Bytes \in [Job -> Nat]
  /\ Targets \subseteq [enqueue : SUBSET PreparedSet, send : SUBSET Job]
  /\ Protected \subseteq PreparedSet
  /\ RetireKinds \subseteq {"accepted", "superseded"}
  /\ MaxAttempts \in Nat \ {0}
  /\ {MaxQueued, MaxPerPass, MaxReserved} \subseteq Nat
  /\ {MaxRetirements, MaxRetained, MaxCrashes} \subseteq Nat
  /\ ServiceErrors \subseteq Error
  /\ {SlowUploads, OperatorPauses} \subseteq BOOLEAN
  /\ NoPass \notin Pass
  /\ NoJob \notin Job
  /\ NoSet \notin PreparedSet

\* A pass sends only contributions of the sets it enqueues.
ASSUME TargetsEnqueueWhatTheySend ==
  \A t \in Targets : \A j \in t.send : SetOf[j] \in t.enqueue

VARIABLES
  artifact,      \* per prepared set: how much of it is on disk
  row,           \* per contribution: its row, or NoRow
  paused,        \* queue_meta.paused
  tick,          \* the next created_at timestamp
  pc,            \* per pass: the await it is at
  job,           \* per pass: the job it holds in hand
  local,         \* per pass: its other local variables
  ret,           \* the retirement pass
  crashes,       \* crashes and interruptions so far
  everQueued,    \* history: contributions that have ever had a row
  delivered,     \* history: contributions the service has stored
  receipted,     \* history: contributions recorded as accepted
  overHorizon    \* history: the answers that put the next attempt past the
                 \* supported horizon, until the operator resumes

queue    == <<row, paused, tick>>
history  == <<everQueued, delivered, receipted, overHorizon>>
passVars == <<pc, job, local>>
vars     == <<artifact, queue, passVars, ret, crashes, history>>
-----------------------------------------------------------------------------
(***************************************************************************)
(* Rows.                                                                   *)
(***************************************************************************)
JobState == {"none", "pending", "in_flight", "retryable", "accepted", "rejected"}
Waiting  == {"pending", "retryable"}

Row == [state : JobState, attempts : 0..MaxAttempts, due : BOOLEAN,
        holder : Pass \cup {NoPass}, lapsed : BOOLEAN, created : Nat]

NoRow == [state |-> "none", attempts |-> 0, due |-> FALSE,
          holder |-> NoPass, lapsed |-> FALSE, created |-> 0]

\* enqueueJob: a new row is due at once.
NewRow(stamp) == [NoRow EXCEPT !.state = "pending", !.due = TRUE, !.created = stamp]

\* claimJob.  The lease token is unique to the claim; a pass makes one claim at
\* a time, so the pass names the token.  attempt_count is only ever compared
\* with maximumAttempts and saturates there.
Leased(r, p) ==
  [r EXCEPT !.state = "in_flight", !.due = FALSE, !.holder = p, !.lapsed = FALSE,
            !.attempts = IF r.attempts < MaxAttempts THEN r.attempts + 1
                                                     ELSE MaxAttempts]

\* The end of a lease: token and expiry are cleared with the state.
Released(r, state, due) ==
  [r EXCEPT !.state = state, !.due = due, !.holder = NoPass, !.lapsed = FALSE]

Rows(s)      == {j \in Job : SetOf[j] = s /\ row[j].state # "none"}
RowsExist    == {j \in Job : row[j].state # "none"}
Ready(j)     == row[j].state \in Waiting /\ row[j].due

\* Mutant: the lease token is not compared.
HoldsAnyLease(p, j) == row[j].state = "in_flight"

Holds(p, j)  == row[j].state = "in_flight" /\ row[j].holder = p

\* Mutant: opening the queue recovers nothing.
RecoversNothing == row

\* recoverExpiredLeases: one UPDATE over every lapsed lease.
RecoveredRows ==
  [j \in Job |-> IF row[j].state = "in_flight" /\ row[j].lapsed
                 THEN Released(row[j], "retryable", TRUE)
                 ELSE row[j]]

\* ORDER BY created_at, job_id (or enqueued_at, prepared_set_id).
Before(a, b) == a[1] < b[1] \/ (a[1] = b[1] /\ a[2] < b[2])

\* LIMIT n of an ordered selection.
Limit(S, n) == {x \in S : Cardinality({y \in S : Before(y, x)}) < n}
First(S)    == {x \in S : \A y \in S \ {x} : Before(x, y)}

ReadyJobs(send) ==
  Limit({<<row[j].created, j>> : j \in {k \in send : Ready(k)}}, MaxPerPass)
-----------------------------------------------------------------------------
(***************************************************************************)
(* Artifacts.  Retirement unlinks the prepared directory file by file      *)
(* ("partial"), removes it (only the "review" directory is left), then the *)
(* review directory ("gone").                                              *)
(***************************************************************************)
ArtifactState == {"unmade", "whole", "partial", "review", "gone"}

Listed(s)     == artifact[s] \in {"whole", "partial"}
Readable(s)   == artifact[s] \in {"whole", "partial"}  \* this file may be there
Unreadable(s) == artifact[s] # "whole"                 \* this file may be missing
-----------------------------------------------------------------------------
(***************************************************************************)
(* Passes.                                                                 *)
(***************************************************************************)
Uploading == {"claimed", "authorize", "send", "stored"}
PassPC    == {"idle", "discover", "enqueue", "insert", "select"} \cup Uploading

NoTarget == [enqueue |-> {}, send |-> {}]

Local == [target : Targets \cup {NoTarget},
          sets : SUBSET PreparedSet, verify : SUBSET PreparedSet,
          load : SUBSET Job, stamp : Nat, cands : SUBSET (Nat \X Job),
          reserved : Nat, aborted : BOOLEAN]

IdleLocal == [target |-> NoTarget, sets |-> {}, verify |-> {}, load |-> {},
              stamp |-> 0, cands |-> {}, reserved |-> 0, aborted |-> FALSE]

\* A pass that returns, throws or dies forgets everything but the files it left.
EndPass(p) ==
  /\ pc' = [pc EXCEPT ![p] = "idle"]
  /\ job' = [job EXCEPT ![p] = NoJob]
  /\ local' = [local EXCEPT ![p] = IdleLocal]

\* The loop goes on with the candidates that are left.
NextTurn(p) ==
  /\ pc' = [pc EXCEPT ![p] = "select"]
  /\ job' = [job EXCEPT ![p] = NoJob]

Retirement == [kind : {"idle", "accepted", "superseded"},
               todo : SUBSET (Nat \X PreparedSet \X Nat),
               at : PreparedSet \cup {NoSet}, total : Nat]

NoRetirement == [kind |-> "idle", todo |-> {}, at |-> NoSet, total |-> 0]

\* An answer past the horizon: the job it is about and the request it answers, or
\* that the pass had lost the lease of the job when it heard of it.
HorizonAnswer == Job \X {"key", "registration", "upload", "late"}

TypeOK ==
  /\ artifact \in [PreparedSet -> ArtifactState]
  /\ row \in [Job -> Row]
  /\ paused \in BOOLEAN
  /\ tick \in Nat
  /\ pc \in [Pass -> PassPC]
  /\ job \in [Pass -> Job \cup {NoJob}]
  /\ local \in [Pass -> Local]
  /\ ret \in Retirement
  /\ crashes \in Nat
  /\ everQueued \subseteq Job
  /\ delivered \subseteq Job
  /\ receipted \subseteq Job
  /\ overHorizon \subseteq HorizonAnswer

Init ==
  /\ artifact = [s \in PreparedSet |-> "unmade"]
  /\ row = [j \in Job |-> NoRow]
  /\ paused = FALSE
  /\ tick = 0
  /\ pc = [p \in Pass |-> "idle"]
  /\ job = [p \in Pass |-> NoJob]
  /\ local = [p \in Pass |-> IdleLocal]
  /\ ret = NoRetirement
  /\ crashes = 0
  /\ everQueued = {}
  /\ delivered = {}
  /\ receipted = {}
  /\ overHorizon = {}
-----------------------------------------------------------------------------
(***************************************************************************)
(* Discovery and enqueueing.                                               *)
(***************************************************************************)
\* A preparation publishes a finished set by one rename.
PrepareSet(s) ==
  /\ artifact[s] = "unmade"
  /\ artifact' = [artifact EXCEPT ![s] = "whole"]
  /\ UNCHANGED <<queue, passVars, ret, crashes, history>>

\* discoverCommittedPreparedSets lists the spool, then verifies set by set.
StartPass(p, t) ==
  /\ pc[p] = "idle"
  /\ pc' = [pc EXCEPT ![p] = "discover"]
  /\ local' = [local EXCEPT ![p].target = t,
                            ![p].verify = {s \in PreparedSet : Listed(s)}]
  /\ UNCHANGED <<artifact, queue, job, ret, crashes, history>>

VerifySet(p, s) ==
  /\ pc[p] = "discover" /\ s \in local[p].verify
  /\ artifact[s] = "whole"
  /\ local' = [local EXCEPT ![p].verify = @ \ {s}, ![p].sets = @ \cup {s}]
  /\ UNCHANGED <<artifact, queue, pc, job, ret, crashes, history>>

\* A set that is damaged or gone since it was listed fails the whole pass.
VerifyFails(p, s) ==
  /\ pc[p] = "discover" /\ s \in local[p].verify
  /\ artifact[s] # "whole"
  /\ EndPass(p)
  /\ UNCHANGED <<artifact, queue, ret, crashes, history>>

\* The queue is opened, lapsed leases are recovered, and the entries of the
\* discovered sets (of the one set the pass is bound to) are to be enqueued.
OpenQueue(p) ==
  /\ pc[p] = "discover" /\ local[p].verify = {}
  /\ row' = RecoveredRows
  /\ pc' = [pc EXCEPT ![p] = "enqueue"]
  /\ LET sets == local[p].sets \cap local[p].target.enqueue IN
     local' = [local EXCEPT ![p].sets = sets, ![p].stamp = tick,
                            ![p].load = {j \in Job : SetOf[j] \in sets}]
  /\ UNCHANGED <<artifact, paused, tick, job, ret, crashes, history>>

LoadEntry(p, j) ==
  /\ pc[p] = "enqueue" /\ j \in local[p].load
  /\ Readable(SetOf[j])
  /\ pc' = [pc EXCEPT ![p] = "insert"]
  /\ job' = [job EXCEPT ![p] = j]
  /\ UNCHANGED <<artifact, queue, local, ret, crashes, history>>

LoadEntryFails(p, j) ==
  /\ pc[p] = "enqueue" /\ j \in local[p].load
  /\ Unreadable(SetOf[j])
  /\ EndPass(p)
  /\ UNCHANGED <<artifact, queue, ret, crashes, history>>

\* enqueueJob: INSERT OR IGNORE below the job limit.
InsertRow(p) ==
  LET j == job[p] IN
  /\ pc[p] = "insert"
  /\ row[j].state # "none" \/ Cardinality(RowsExist) < MaxQueued
  /\ IF row[j].state = "none"
     THEN /\ row' = [row EXCEPT ![j] = NewRow(local[p].stamp)]
          /\ tick' = IF tick = local[p].stamp THEN tick + 1 ELSE tick
          /\ everQueued' = everQueued \cup {j}
     ELSE UNCHANGED <<row, tick, everQueued>>
  /\ pc' = [pc EXCEPT ![p] = "enqueue"]
  /\ job' = [job EXCEPT ![p] = NoJob]
  /\ local' = [local EXCEPT ![p].load = @ \ {j}]
  /\ UNCHANGED <<artifact, paused, ret, crashes, delivered, receipted, overHorizon>>

\* Mutant: at the limit the entry counts as existing and the pass goes on.
InsertAtLimitSkips(p) ==
  /\ pc[p] = "insert"
  /\ row[job[p]].state = "none" /\ Cardinality(RowsExist) >= MaxQueued
  /\ pc' = [pc EXCEPT ![p] = "enqueue"]
  /\ job' = [job EXCEPT ![p] = NoJob]
  /\ local' = [local EXCEPT ![p].load = @ \ {job[p]}]
  /\ UNCHANGED <<artifact, queue, ret, crashes, history>>

\* The "limit" answer fails the pass (job_limit) before it delivers anything.
InsertAtLimit(p) ==
  /\ pc[p] = "insert"
  /\ row[job[p]].state = "none" /\ Cardinality(RowsExist) >= MaxQueued
  /\ EndPass(p)
  /\ UNCHANGED <<artifact, queue, ret, crashes, history>>

\* A preview reads the queue and returns; so does a paused or aborted pass.
ReturnEarly(p) ==
  /\ pc[p] = "enqueue" /\ local[p].load = {}
  /\ p \in Previewer \/ paused \/ local[p].aborted
  /\ EndPass(p)
  /\ UNCHANGED <<artifact, queue, ret, crashes, history>>

SelectReady(p) ==
  /\ pc[p] = "enqueue" /\ local[p].load = {}
  /\ p \notin Previewer /\ ~paused /\ ~local[p].aborted
  /\ local' = [local EXCEPT ![p].cands = ReadyJobs(local[p].target.send),
                            ![p].stamp = 0]
  /\ pc' = [pc EXCEPT ![p] = "select"]
  /\ UNCHANGED <<artifact, queue, job, ret, crashes, history>>
-----------------------------------------------------------------------------
(***************************************************************************)
(* The delivery loop.                                                      *)
(***************************************************************************)
\* The loop is over: no candidate is left, or the pass was interrupted.
FinishPass(p) ==
  /\ pc[p] = "select"
  /\ local[p].cands = {} \/ local[p].aborted
  /\ EndPass(p)
  /\ UNCHANGED <<artifact, queue, ret, crashes, history>>

Affordable(p, j) == local[p].reserved + Bytes[j] <= MaxReserved

\* claimJob's WHERE clause.  A row deleted and inserted again since the
\* selection has another job_id; it is told from the selected one by its age.
Claimable(c) == Ready(c[2]) /\ row[c[2]].created = c[1]

\* The next candidate does not fit the pass's reservation: the pass stops.
BandwidthStop(p) ==
  /\ pc[p] = "select" /\ ~local[p].aborted
  /\ \E c \in First(local[p].cands) :
       SetOf[c[2]] \in local[p].sets /\ ~Affordable(p, c[2])
  /\ EndPass(p)
  /\ UNCHANGED <<artifact, queue, ret, crashes, history>>

\* The candidate's set was not discovered by this pass, or its row is no longer
\* waiting and due: another process was faster.
SkipCandidate(p) ==
  /\ pc[p] = "select" /\ ~local[p].aborted
  /\ \E c \in First(local[p].cands) :
       /\ \/ SetOf[c[2]] \notin local[p].sets
          \/ Affordable(p, c[2]) /\ ~Claimable(c)
       /\ local' = [local EXCEPT ![p].cands = @ \ {c}]
  /\ UNCHANGED <<artifact, queue, pc, job, ret, crashes, history>>

Claim(p, c) ==
  /\ pc[p] = "select" /\ ~local[p].aborted
  /\ c \in First(local[p].cands)
  /\ SetOf[c[2]] \in local[p].sets /\ Affordable(p, c[2])
  /\ Claimable(c)
  /\ row' = [row EXCEPT ![c[2]] = Leased(@, p)]
  /\ pc' = [pc EXCEPT ![p] = "claimed"]
  /\ job' = [job EXCEPT ![p] = c[2]]
  /\ local' = [local EXCEPT ![p].cands = @ \ {c}]
  /\ UNCHANGED <<artifact, paused, tick, ret, crashes, history>>
-----------------------------------------------------------------------------
(***************************************************************************)
(* Outcomes of one upload.                                                 *)
(***************************************************************************)
Refused     == [retryable |-> FALSE, gone |-> FALSE, floor |-> FALSE, over |-> FALSE]
Transient   == [Refused EXCEPT !.retryable = TRUE]
Throttled   == [Transient EXCEPT !.floor = TRUE]
TooLong     == [Transient EXCEPT !.over = TRUE]
DeviceGone  == [Refused EXCEPT !.gone = TRUE]

\* The registration outcome crosses the credential callback as a plain record
\* of code, retryable, deviceUnavailable and retryAfterMilliseconds.
RegistrationReport(e) == [e EXCEPT !.over = FALSE]

\* finishAccepted: only the holder of the lease records a receipt.
FinishAccepted(p) ==
  LET j == job[p] IN
  IF Holds(p, j)
  THEN /\ row' = [row EXCEPT ![j] = Released(@, "accepted", FALSE)]
       /\ receipted' = receipted \cup {j}
       /\ NextTurn(p) /\ UNCHANGED local
  ELSE /\ UNCHANGED <<row, receipted>>
       /\ EndPass(p)

\* The reservation counts from the moment the upload is tried.
Reserve(p) ==
  local' = [local EXCEPT ![p].reserved =
              IF pc[p] = "claimed" THEN @ + Bytes[job[p]] ELSE @]

\* The row a failure leaves behind.
FailedRow(p, e) ==
  LET r == row[job[p]]
      mayRetry == local[p].aborted \/ e.gone \/ e.retryable
      retry    == mayRetry /\ r.attempts < MaxAttempts IN
  Released(r, IF retry THEN "retryable" ELSE "rejected",
              retry /\ local[p].aborted /\ ~e.floor)

\* The record of what the service said, whatever became of the lease meanwhile.
RecordAnswer(p, answered, request) ==
  overHorizon' = IF answered.over
                 THEN overHorizon \cup
                        {<<job[p], IF Holds(p, job[p]) THEN request ELSE "late">>}
                 ELSE overHorizon

\* Mutant: the failure is recorded without regard to the lease.
FinishFailedUnguarded(p, e, answered, request) ==
  /\ row' = [row EXCEPT ![job[p]] = FailedRow(p, e)]
  /\ paused' = (paused \/ e.gone \/ e.over)
  /\ RecordAnswer(p, answered, request)
  /\ NextTurn(p) /\ Reserve(p)

\* Mutant: a delay past the horizon is retried like any other.
FinishFailedNoPause(p, e, answered, request) ==
  /\ Holds(p, job[p])
  /\ row' = [row EXCEPT ![job[p]] = FailedRow(p, e)]
  /\ paused' = (paused \/ e.gone)
  /\ RecordAnswer(p, answered, request)
  /\ NextTurn(p) /\ Reserve(p)

\* The catch block and finishFailed: the row and the pause flag change in one
\* transaction, guarded by the lease; without the lease the pass throws before
\* it pauses anything, whatever the answer was.
\* answered is what the service said, e what the catch block was given.
FinishFailed(p, e, answered, request) ==
  /\ RecordAnswer(p, answered, request)
  /\ IF Holds(p, job[p])
     THEN /\ row' = [row EXCEPT ![job[p]] = FailedRow(p, e)]
          /\ paused' = (paused \/ e.gone \/ e.over)
          /\ IF e.gone \/ e.over \/ local[p].aborted
             THEN EndPass(p)
             ELSE NextTurn(p) /\ Reserve(p)
     ELSE /\ UNCHANGED <<row, paused>>
          /\ EndPass(p)

\* entryForJob finds no entry with the row's digest, size and set name.
EntryChanged(p) ==
  LET j == job[p] IN
  /\ pc[p] = "claimed"
  /\ IF Holds(p, j)
     THEN /\ row' = [row EXCEPT ![j] = Released(@, "rejected", FALSE)]
          /\ NextTurn(p) /\ UNCHANGED local
     ELSE UNCHANGED row /\ EndPass(p)
  /\ UNCHANGED <<artifact, paused, tick, ret, crashes, history>>

\* The payload is read and verified again and the envelope key fetched.
LoadAndFetchKey(p) ==
  /\ pc[p] = "claimed"
  /\ Readable(SetOf[job[p]])
  /\ pc' = [pc EXCEPT ![p] = "authorize"]
  /\ Reserve(p)
  /\ UNCHANGED <<artifact, queue, job, ret, crashes, history>>

LoadFails(p) ==
  /\ pc[p] = "claimed"
  /\ Unreadable(SetOf[job[p]])
  /\ FinishFailed(p, Refused, Refused, "key")
  /\ UNCHANGED <<artifact, tick, ret, crashes, everQueued, delivered, receipted>>

FetchKeyFails(p, e) ==
  /\ pc[p] = "claimed"
  /\ Readable(SetOf[job[p]])
  /\ FinishFailed(p, e, e, "key")
  /\ UNCHANGED <<artifact, tick, ret, crashes, everQueued, delivered, receipted>>

Authorize(p) ==
  /\ pc[p] = "authorize"
  /\ pc' = [pc EXCEPT ![p] = "send"]
  /\ UNCHANGED <<artifact, queue, job, local, ret, crashes, history>>

AuthorizeFails(p, e) ==
  /\ pc[p] = "authorize"
  /\ FinishFailed(p, RegistrationReport(e), e, "registration")
  /\ UNCHANGED <<artifact, tick, ret, crashes, everQueued, delivered, receipted>>

\* The service stores the envelope; the pass has not heard of it yet.
ServiceStores(p) ==
  /\ pc[p] = "send"
  /\ pc' = [pc EXCEPT ![p] = "stored"]
  /\ delivered' = delivered \cup {job[p]}
  /\ UNCHANGED <<artifact, queue, job, local, ret, crashes, everQueued, receipted, overHorizon>>

SendFails(p, e) ==
  /\ pc[p] = "send"
  /\ FinishFailed(p, e, e, "upload")
  /\ UNCHANGED <<artifact, tick, ret, crashes, everQueued, delivered, receipted>>

ReceiptArrives(p) ==
  /\ pc[p] = "stored"
  /\ FinishAccepted(p)
  /\ UNCHANGED <<artifact, paused, tick, ret, crashes, everQueued, delivered, overHorizon>>

\* The answer is lost on the way back (Transient) or malformed (Refused).
ReceiptLost(p, e) ==
  /\ pc[p] = "stored"
  /\ FinishFailed(p, e, e, "upload")
  /\ UNCHANGED <<artifact, tick, ret, crashes, everQueued, delivered, receipted>>
-----------------------------------------------------------------------------
(***************************************************************************)
(* Retirement.  Candidates are selected once; then, set by set, the        *)
(* prepared directory, the review directory and last the rows are removed. *)
(***************************************************************************)
\* One selection tuple per set: enqueued_at (MIN(created_at)), id, COUNT( * ).
SetTuples(S) ==
  {<<row[j].created, SetOf[j], Cardinality(Rows(SetOf[j]))>> :
     j \in {k \in Job : /\ row[k].state # "none" /\ SetOf[k] \in S
                        /\ \A i \in Rows(SetOf[k]) : row[k].created <= row[i].created}}

InactiveSets == {s \in PreparedSet : \A j \in Rows(s) : row[j].state \in Waiting}
AcceptedSets == {s \in PreparedSet : \A j \in Rows(s) : row[j].state = "accepted"}

\* oldestPreparedSetId: the set of the oldest waiting row; ties by set id.
OldestPreparedSet ==
  {c[2] : c \in First({<<row[j].created, SetOf[j]>> :
                         j \in {k \in Job : row[k].state \in Waiting}})}

SupersededCandidates ==
  Limit(SetTuples(InactiveSets \ (OldestPreparedSet \cup Protected)), MaxRetirements)

\* Of the unprotected accepted sets all but the MaxRetained latest, and those
\* past the age limit.  Age and accepted_at order are abstracted to a choice.
AcceptedCandidates ==
  LET unprotected == SetTuples(AcceptedSets \ Protected) IN
  {C \in SUBSET unprotected :
     /\ Cardinality(C) <= MaxRetirements
     /\ \/ Cardinality(unprotected \ C) <= MaxRetained
        \/ Cardinality(C) = MaxRetirements}

StartRetirement(kind) ==
  /\ ret.kind = "idle" /\ kind \in RetireKinds
  /\ \E C \in IF kind = "superseded" THEN {SupersededCandidates} ELSE AcceptedCandidates :
       /\ C # {}
       /\ ret' = [NoRetirement EXCEPT !.kind = kind, !.todo = C]
  /\ UNCHANGED <<artifact, queue, passVars, crashes, history>>

RetireNextSet ==
  /\ ret.kind # "idle" /\ ret.at = NoSet
  /\ \E c \in IF ret.kind = "superseded" THEN First(ret.todo) ELSE ret.todo :
       ret' = [ret EXCEPT !.todo = @ \ {c}, !.at = c[2], !.total = c[3]]
  /\ UNCHANGED <<artifact, queue, passVars, crashes, history>>

\* retireFlatDirectory, twice; a directory that is already gone is passed over.
RetireArtifact ==
  /\ ret.at # NoSet
  /\ \/ artifact[ret.at] = "whole"   /\ artifact' = [artifact EXCEPT ![ret.at] = "partial"]
     \/ artifact[ret.at] = "partial" /\ artifact' = [artifact EXCEPT ![ret.at] = "review"]
     \/ artifact[ret.at] = "review"  /\ artifact' = [artifact EXCEPT ![ret.at] = "gone"]
  /\ UNCHANGED <<queue, passVars, ret, crashes, history>>

\* Mutant: the rows are deleted whatever became of them meanwhile.
DeletableAlways(s) == TRUE

\* deleteAcceptedSet, deleteInactiveSet: all rows of the set or none.
Deletable(s) ==
  IF ret.kind = "accepted" THEN s \in AcceptedSets ELSE s \in InactiveSets

\* Mutant: the rows are deleted while the files are still there.
RetireRowsFirst ==
  LET deleted == IF Deletable(ret.at) THEN Rows(ret.at) ELSE {} IN
  /\ ret.at # NoSet
  /\ row' = [j \in Job |-> IF j \in deleted THEN NoRow ELSE row[j]]
  /\ ret' = NoRetirement
  /\ UNCHANGED <<artifact, paused, tick, passVars, crashes, history>>

RetireRows ==
  LET s       == ret.at
      deleted == IF Deletable(s) THEN Rows(s) ELSE {} IN
  /\ s # NoSet /\ artifact[s] = "gone"
  /\ row' = [j \in Job |-> IF j \in deleted THEN NoRow ELSE row[j]]
  /\ ret' = IF Cardinality(deleted) = ret.total /\ ret.todo # {}
            THEN [ret EXCEPT !.at = NoSet, !.total = 0]
            ELSE NoRetirement           \* done, or failed: retirement_invalid
  /\ UNCHANGED <<artifact, paused, tick, passVars, crashes, history>>
-----------------------------------------------------------------------------
(***************************************************************************)
(* Time, crashes, interruptions and the operator.                          *)
(***************************************************************************)
BecomeDue(j) ==
  /\ row[j].state \in Waiting /\ ~row[j].due
  /\ row' = [row EXCEPT ![j].due = TRUE]
  /\ UNCHANGED <<artifact, paused, tick, passVars, ret, crashes, history>>

Orphaned(j) == \A p \in Pass : ~(Holds(p, j) /\ pc[p] \in Uploading /\ job[p] = j)

LeaseLapses(j) ==
  /\ row[j].state = "in_flight" /\ ~row[j].lapsed
  /\ SlowUploads \/ Orphaned(j)
  /\ row' = [row EXCEPT ![j].lapsed = TRUE]
  /\ UNCHANGED <<artifact, paused, tick, passVars, ret, crashes, history>>

CrashPass(p) ==
  /\ pc[p] # "idle" /\ crashes < MaxCrashes
  /\ crashes' = crashes + 1
  /\ EndPass(p)
  /\ UNCHANGED <<artifact, queue, ret, history>>

\* SIGINT or SIGTERM: the signal is checked between jobs and fails requests.
AbortPass(p) ==
  /\ p \notin Previewer
  /\ pc[p] # "idle" /\ ~local[p].aborted /\ crashes < MaxCrashes
  /\ crashes' = crashes + 1
  /\ local' = [local EXCEPT ![p].aborted = TRUE]
  /\ UNCHANGED <<artifact, queue, pc, job, ret, history>>

CrashRetirement ==
  /\ ret.kind # "idle" /\ crashes < MaxCrashes
  /\ crashes' = crashes + 1
  /\ ret' = NoRetirement
  /\ UNCHANGED <<artifact, queue, passVars, history>>

\* setContributionSyncPaused.
Pause ==
  /\ ~paused /\ OperatorPauses
  /\ paused' = TRUE
  /\ UNCHANGED <<artifact, row, tick, passVars, ret, crashes, history>>

Resume ==
  /\ paused
  /\ paused' = FALSE
  /\ overHorizon' = {}
  /\ UNCHANGED <<artifact, row, tick, passVars, ret, crashes,
                 everQueued, delivered, receipted>>

\* inspectContributionSyncQueue recovers lapsed leases before it reads.
InspectQueue ==
  /\ row' = RecoveredRows
  /\ UNCHANGED <<artifact, paused, tick, passVars, ret, crashes, history>>
-----------------------------------------------------------------------------
Discover(p) ==
  \/ \E s \in PreparedSet : VerifySet(p, s) \/ VerifyFails(p, s)
  \/ OpenQueue(p)

Enqueue(p) ==
  \/ \E j \in Job : LoadEntry(p, j) \/ LoadEntryFails(p, j)
  \/ InsertRow(p) \/ InsertAtLimit(p)
  \/ ReturnEarly(p) \/ SelectReady(p)

Deliver(p) ==
  \/ FinishPass(p) \/ BandwidthStop(p) \/ SkipCandidate(p)
  \/ \E c \in local[p].cands : Claim(p, c)

Upload(p) ==
  \/ EntryChanged(p) \/ LoadAndFetchKey(p) \/ LoadFails(p)
  \/ \E e \in ServiceErrors \ {DeviceGone} : FetchKeyFails(p, e)
  \/ Authorize(p)
  \/ \E e \in ServiceErrors : AuthorizeFails(p, e)
  \/ ServiceStores(p)
  \/ \E e \in ServiceErrors \ {DeviceGone} : SendFails(p, e)
  \/ ReceiptArrives(p)
  \/ \E e \in {Transient, Refused} \cap ServiceErrors : ReceiptLost(p, e)

\* Everything a running pass does by itself.
RunPass(p) == Discover(p) \/ Enqueue(p) \/ Deliver(p) \/ Upload(p)

RunRetirement == RetireNextSet \/ RetireArtifact \/ RetireRows

Environment ==
  \/ \E s \in PreparedSet : PrepareSet(s)
  \/ \E j \in Job : BecomeDue(j) \/ LeaseLapses(j)
  \/ \E p \in Pass : CrashPass(p) \/ AbortPass(p)
  \/ CrashRetirement
  \/ Pause \/ Resume \/ InspectQueue

Next ==
  \/ \E p \in Pass : (\E t \in Targets : StartPass(p, t)) \/ RunPass(p)
  \/ \E kind \in RetireKinds : StartRetirement(kind)
  \/ RunRetirement
  \/ Environment

Spec == Init /\ [][Next]_vars

(***************************************************************************)
(* Fairness.  A delivering process is invoked again and again (watch), each *)
(* await of a running pass completes, time passes, and so retry deadlines  *)
(* and the leases of dead passes are reached.  The companion server starts *)
(* a retirement again and again.  Crashes are bounded; nobody is obliged   *)
(* to prepare, pause, resume or preview.                                   *)
(***************************************************************************)
DeliverEverything == [enqueue |-> PreparedSet, send |-> Job]

FairDelivery ==
  /\ \A p \in Pass \ Previewer : /\ WF_vars(StartPass(p, DeliverEverything))
                                /\ WF_vars(RunPass(p))
  /\ \A j \in Job : WF_vars(BecomeDue(j)) /\ WF_vars(LeaseLapses(j))

FairRetirement ==
  /\ \A kind \in RetireKinds : WF_vars(StartRetirement(kind))
  /\ WF_vars(RunRetirement)

FairSpec == Spec /\ FairDelivery /\ FairRetirement
-----------------------------------------------------------------------------
(***************************************************************************)
(* Safety.                                                                 *)
(***************************************************************************)
\* A contribution whose receipt was recorded is never uploaded again under a
\* valid lease: neither a second pass, nor a row lost and enqueued anew, nor a
\* crashed retirement can make the queue send it twice.
NoResendUnderLease ==
  \A p \in Pass : pc[p] \in {"authorize", "send", "stored"} /\ Holds(p, job[p])
                    => job[p] \notin receipted

\* The crash order of both retirements: rows outlive the files they
\* deduplicate, so no set is discoverable after its rows have been deleted.
DedupeRowsOutliveFiles ==
  \A j \in everQueued : row[j].state = "none" => artifact[SetOf[j]] = "gone"

\* Retiring accepted sets removes no contribution the service has not stored,
\* although "accepted" is decided from the rows that exist, not from the files.
AcceptedRetirementLosesNothing ==
  ret.kind = "accepted" /\ ret.at # NoSet /\ artifact[ret.at] # "gone"
    => \A j \in Job : SetOf[j] = ret.at => j \in delivered

\* A recorded outcome is final: a rejected row never changes again, and an
\* accepted row only disappears, with its whole set, once its files are gone.
\* A pass that lost its lease cannot overwrite what its successor recorded.
SettledStays ==
  \A j \in Job :
    /\ row[j].state = "rejected" => row'[j] = row[j]
    /\ row[j].state = "accepted" /\ row'[j] # row[j]
         => artifact[SetOf[j]] = "gone" /\ \A i \in Rows(SetOf[j]) : row'[i] = NoRow

SettledIsFinal == [][SettledStays]_vars

\* A lease that has not lapsed ends only by its own holder's hand: recovery,
\* retirement and passes whose lease was taken over leave it alone.
LeasesAreExclusive ==
  [][\A j \in Job, q \in Pass :
       row[j].holder = q /\ ~row[j].lapsed /\ row'[j].holder # q
         => job[q] = j /\ job'[q] = NoJob]_vars

Claimed(j) == row[j].state \in Waiting /\ row'[j].state = "in_flight"

\* Answers the queue takes to heart: to a request whose answer reaches the catch
\* block whole, heard by a pass that still held the lease of its job.
Heeded(a) == a[2] \in {"key", "upload"}

\* Told(p): this step is p's, and an answer past the horizon about its job is new.
Told(p, a) == a \in overHorizon' \ overHorizon /\ a[1] = job[p] /\ pc'[p] # pc[p]

\* The service asks for a delay past the supported horizon, in answer to the key
\* request or to the upload.  Heard under the lease, the answer keeps every pass
\* from beginning to send before the operator resumes the queue.  (A pass of
\* another process that is already in its loop does not look at the pause again.)
\* Heard after the lease was lost it pauses nothing, and all that is promised is
\* that the pass that heard it ends, as does the one that heard it in time.
HorizonKept ==
  [][\A p \in Pass :
       /\ pc[p] = "enqueue" /\ pc'[p] = "select" => \A a \in overHorizon : ~Heeded(a)
       /\ \A a \in HorizonAnswer :
            Told(p, a) /\ (Heeded(a) \/ a[2] = "late") => pc'[p] = "idle"]_vars

\* A contribution is not tried again before the operator resumes the queue,
\* whichever request the service answered with a delay past the horizon.
OverHorizonNeedsResume ==
  [][\A j \in Job : Claimed(j) => \A a \in overHorizon : a[1] # j]_vars
-----------------------------------------------------------------------------
(***************************************************************************)
(* Leases, files, passes and crashes hidden, the queue is an outbox.       *)
(***************************************************************************)
PhaseOf(state) ==
  CASE state = "none" -> "absent"
    [] state \in Waiting \cup {"in_flight"} -> "open"
    [] state = "accepted" -> "accepted"
    [] state = "rejected" -> "dropped"

Box == INSTANCE DeliveryOutbox
         WITH Item <- Job, Group <- PreparedSet, GroupOf <- SetOf,
              phase <- [j \in Job |-> PhaseOf(row[j].state)],
              known <- everQueued, stored <- delivered, receipts <- receipted

\* Every step of the queue is a step of the outbox or changes nothing of it.
ImplementsOutbox == Box!Outbox
-----------------------------------------------------------------------------
(***************************************************************************)
(* Liveness, of FairSpec.                                                  *)
(***************************************************************************)
\* A lease lapses under a pass that is still uploading only finitely often: the
\* network is not for ever slower than the lease.
SlowUploadsEnd ==
  <>[][\A j \in Job : ~row[j].lapsed /\ row'[j].lapsed => Orphaned(j)]_vars

\* Every queued contribution is settled in the end, through retries, crashes
\* and leases that lapse or are taken over, unless the queue is paused.
QueuedEventuallySettles ==
  SlowUploadsEnd =>
    \A j \in Job : (row[j].state \in Waiting \cup {"in_flight"})
                    ~> (row[j].state \in {"accepted", "rejected", "none"} \/ paused)

=============================================================================
