--------------------------- MODULE SyncQueueProofs ---------------------------
(***************************************************************************)
(* Theorems about the contribution queue, for every number of passes,      *)
(* prepared sets, contributions, limits and crashes.                       *)
(***************************************************************************)
EXTENDS SyncQueue, FiniteSetTheorems, TLAPS

(***************************************************************************)
(* Rows.                                                                   *)
(***************************************************************************)
LEMMA LeasedType ==
  ASSUME NEW r \in Row, NEW p \in Pass
  PROVE  Leased(r, p) \in Row
<1>1. ASSUME NEW n \in 0..MaxAttempts
      PROVE [r EXCEPT !.state = "in_flight", !.due = FALSE, !.holder = p, !.lapsed = FALSE,
                      !.attempts = n] \in Row
  BY DEF Row, JobState
<1>2. (IF r.attempts < MaxAttempts THEN r.attempts + 1 ELSE MaxAttempts) \in 0..MaxAttempts
  BY QueueConstants DEF Row
<1> QED BY <1>1, <1>2 DEF Leased

LEMMA ReleasedType ==
  ASSUME NEW r \in Row, NEW s \in JobState, NEW d \in BOOLEAN
  PROVE  Released(r, s, d) \in Row
BY DEF Released, Row

LEMMA ReleasedState ==
  ASSUME NEW r \in Row, NEW s, NEW d
  PROVE  Released(r, s, d).state = s
BY DEF Released, Row

LEMMA NewRowType ==
  ASSUME NEW n \in Nat
  PROVE  NoRow \in Row /\ NewRow(n) \in Row /\ NewRow(n).state = "pending"
<1>1. 0 \in 0..MaxAttempts
  BY QueueConstants
<1>2. NoRow \in Row
  BY <1>1 DEF NoRow, Row, JobState
<1>3. ASSUME NEW r \in Row
      PROVE  LET m == [r EXCEPT !.state = "pending", !.due = TRUE, !.created = n] IN
             m \in Row /\ m.state = "pending"
  BY DEF Row, JobState
<1> QED BY <1>2, <1>3 DEF NewRow

\* Recovery only turns in-flight rows into retryable ones.
LEMMA RecoveryType ==
  ASSUME row \in [Job -> Row]
  PROVE  RecoveredRows \in [Job -> Row]
<1> SUFFICES ASSUME NEW j \in Job
             PROVE  Released(row[j], "retryable", TRUE) \in Row
    BY DEF RecoveredRows
<1> QED BY ReleasedType DEF JobState

\* What a failure writes is a row, whatever the error was.
LEMMA FailedRowType ==
  ASSUME TypeOK, NEW p \in Pass, NEW e \in Error, job[p] \in Job
  PROVE  FailedRow(p, e) \in Row
<1>1. row[job[p]] \in Row /\ local[p].aborted \in BOOLEAN
  BY DEF TypeOK, Local
<1>2. {"retryable", "rejected"} \subseteq JobState
  BY DEF JobState
<1> QED BY <1>1, <1>2, ReleasedType DEF FailedRow, Error

(***************************************************************************)
(* Type correctness.  A pass between claim and outcome, or about to insert *)
(* a row, has a contribution in hand.                                      *)
(***************************************************************************)
JobInHand == \A p \in Pass : pc[p] \in {"insert"} \cup Uploading => job[p] \in Job

TypeInv == TypeOK /\ JobInHand

\* How a step changes the local variables of a pass keeps them local variables.
LEMMA LocalTypes ==
  ASSUME NEW l \in Local
  PROVE  /\ \A s \in SUBSET PreparedSet, v \in SUBSET PreparedSet :
              [l EXCEPT !.verify = v, !.sets = s] \in Local
         /\ \A t \in Targets, v \in SUBSET PreparedSet :
              [l EXCEPT !.target = t, !.verify = v] \in Local
         /\ \A s \in SUBSET PreparedSet, n \in Nat, J \in SUBSET Job :
              [l EXCEPT !.sets = s, !.stamp = n, !.load = J] \in Local
         /\ \A C \in SUBSET (Nat \X Job), n \in Nat :
              [l EXCEPT !.cands = C, !.stamp = n] \in Local
         /\ \A C \in SUBSET (Nat \X Job) : [l EXCEPT !.cands = C] \in Local
         /\ \A J \in SUBSET Job : [l EXCEPT !.load = J] \in Local
         /\ \A n \in Nat : [l EXCEPT !.reserved = n] \in Local
         /\ [l EXCEPT !.aborted = TRUE] \in Local
BY DEF Local

LEMMA IdleLocalType == IdleLocal \in Local
BY DEF IdleLocal, Local, NoTarget

LEMMA InitType == Init => TypeInv
<1> SUFFICES ASSUME Init PROVE TypeInv
  OBVIOUS
<1>1. row \in [Job -> Row] /\ local \in [Pass -> Local]
  BY IdleLocalType, NewRowType DEF Init
<1>2. ret \in Retirement
  BY DEF Init, NoRetirement, Retirement
<1> QED BY <1>1, <1>2
        DEF Init, TypeInv, TypeOK, JobInHand, ArtifactState, PassPC, Uploading

LEMMA EndPassType ==
  ASSUME TypeInv, NEW p \in Pass, EndPass(p)
  PROVE  /\ pc' \in [Pass -> PassPC] /\ job' \in [Pass -> Job \cup {NoJob}]
         /\ local' \in [Pass -> Local] /\ JobInHand'
BY IdleLocalType DEF EndPass, TypeInv, TypeOK, JobInHand, PassPC, Uploading

LEMMA NextTurnType ==
  ASSUME TypeInv, NEW p \in Pass, NextTurn(p)
  PROVE  /\ pc' \in [Pass -> PassPC] /\ job' \in [Pass -> Job \cup {NoJob}]
         /\ JobInHand'
BY DEF NextTurn, TypeInv, TypeOK, JobInHand, PassPC, Uploading

LEMMA ReserveType ==
  ASSUME TypeInv, NEW p \in Pass, job[p] \in Job, Reserve(p)
  PROVE  local' \in [Pass -> Local]
<1>1. Bytes[job[p]] \in Nat /\ local[p] \in Local
  BY QueueConstants DEF TypeInv, TypeOK
<1>2. [local[p] EXCEPT !.reserved = IF pc[p] = "claimed" THEN @ + Bytes[job[p]] ELSE @] \in Local
  BY <1>1 DEF Local
<1> QED BY <1>2 DEF Reserve, TypeInv, TypeOK

LEMMA DiscoverType ==
  ASSUME TypeInv, NEW p \in Pass, Discover(p)
  PROVE  TypeInv'
<1>1. ASSUME NEW s \in PreparedSet, VerifySet(p, s)
      PROVE  TypeInv'
  <2>1. local[p] \in Local /\ local[p].sets \cup {s} \subseteq PreparedSet
        /\ local[p].verify \ {s} \subseteq PreparedSet
    BY DEF TypeInv, TypeOK, Local
  <2>2. local' \in [Pass -> Local]
    BY <1>1, <2>1, LocalTypes DEF VerifySet, TypeInv, TypeOK
  <2> QED BY <1>1, <2>2 DEF VerifySet, TypeInv, TypeOK, JobInHand, queue, history
<1>2. ASSUME NEW s \in PreparedSet, VerifyFails(p, s)
      PROVE  TypeInv'
  BY <1>2, EndPassType DEF VerifyFails, TypeInv, TypeOK, queue, history
<1>3. CASE OpenQueue(p)
  <2>1. row' \in [Job -> Row]
    BY <1>3, RecoveryType DEF OpenQueue, TypeInv, TypeOK
  <2>2. local' \in [Pass -> Local]
    <3>1. local[p] \in Local /\ local[p].sets \cap local[p].target.enqueue \subseteq PreparedSet
      BY DEF TypeInv, TypeOK, Local
    <3> QED BY <1>3, <3>1, LocalTypes DEF OpenQueue, TypeInv, TypeOK
  <2>3. pc' \in [Pass -> PassPC] /\ JobInHand'
    BY <1>3 DEF OpenQueue, TypeInv, TypeOK, PassPC, JobInHand, Uploading
  <2> QED BY <1>3, <2>1, <2>2, <2>3 DEF OpenQueue, TypeInv, TypeOK, history
<1> QED BY <1>1, <1>2, <1>3 DEF Discover

LEMMA EnqueueType ==
  ASSUME TypeInv, NEW p \in Pass, Enqueue(p)
  PROVE  TypeInv'
<1>1. ASSUME NEW j \in Job, LoadEntry(p, j)
      PROVE  TypeInv'
  BY <1>1 DEF LoadEntry, TypeInv, TypeOK, JobInHand, PassPC, Uploading, queue, history
<1>2. ASSUME NEW j \in Job, LoadEntryFails(p, j)
      PROVE  TypeInv'
  BY <1>2, EndPassType DEF LoadEntryFails, TypeInv, TypeOK, queue, history
<1>3. CASE InsertRow(p)
  <2>1. local[p].stamp \in Nat /\ job[p] \in Job
    BY <1>3 DEF InsertRow, TypeInv, TypeOK, Local, JobInHand
  <2>2. row' \in [Job -> Row] /\ tick' \in Nat /\ everQueued' \subseteq Job
    BY <1>3, <2>1, NewRowType DEF InsertRow, TypeInv, TypeOK
  <2>3. local' \in [Pass -> Local]
    <3>1. local[p] \in Local /\ local[p].load \ {job[p]} \subseteq Job
      BY DEF TypeInv, TypeOK, Local
    <3> QED BY <1>3, <3>1, LocalTypes DEF InsertRow, TypeInv, TypeOK
  <2>4. /\ pc' \in [Pass -> PassPC] /\ job' \in [Pass -> Job \cup {NoJob}]
        /\ JobInHand'
    BY <1>3 DEF InsertRow, TypeInv, TypeOK, PassPC, JobInHand, Uploading
  <2> QED BY <1>3, <2>2, <2>3, <2>4 DEF InsertRow, TypeInv, TypeOK
<1>4. CASE InsertAtLimit(p)
  BY <1>4, EndPassType DEF InsertAtLimit, TypeInv, TypeOK, queue, history
<1>5. CASE ReturnEarly(p)
  BY <1>5, EndPassType DEF ReturnEarly, TypeInv, TypeOK, queue, history
<1>6. CASE SelectReady(p)
  <2>1. local[p].target.send \subseteq Job
    BY QueueConstants DEF TypeInv, TypeOK, Local, NoTarget
  <2>2. \A j \in Job : row[j].created \in Nat
    BY DEF TypeInv, TypeOK, Row
  <2>3. ReadyJobs(local[p].target.send) \subseteq Nat \X Job
    BY <2>1, <2>2 DEF ReadyJobs, Limit
  <2>4. local' \in [Pass -> Local]
    BY <1>6, <2>3, LocalTypes DEF SelectReady, TypeInv, TypeOK
  <2>5. pc' \in [Pass -> PassPC] /\ JobInHand'
    BY <1>6 DEF SelectReady, TypeInv, TypeOK, PassPC, JobInHand, Uploading
  <2> QED BY <1>6, <2>4, <2>5 DEF SelectReady, TypeInv, TypeOK, queue, history
<1> QED BY <1>1, <1>2, <1>3, <1>4, <1>5, <1>6 DEF Enqueue

LEMMA DeliverType ==
  ASSUME TypeInv, NEW p \in Pass, Deliver(p)
  PROVE  TypeInv'
<1>1. CASE FinishPass(p)
  BY <1>1, EndPassType DEF FinishPass, TypeInv, TypeOK, queue, history
<1>2. CASE BandwidthStop(p)
  BY <1>2, EndPassType DEF BandwidthStop, TypeInv, TypeOK, queue, history
<1>3. CASE SkipCandidate(p)
  <2>1. PICK c : local' = [local EXCEPT ![p].cands = @ \ {c}]
    BY <1>3 DEF SkipCandidate
  <2>2. local[p] \in Local /\ local[p].cands \ {c} \in SUBSET (Nat \X Job)
    BY DEF TypeInv, TypeOK, Local
  <2>3. [local[p] EXCEPT !.cands = @ \ {c}] \in Local
    BY <2>2, LocalTypes
  <2>4. local' \in [Pass -> Local]
    BY <2>1, <2>3 DEF TypeInv, TypeOK
  <2> QED BY <1>3, <2>4 DEF SkipCandidate, TypeInv, TypeOK, JobInHand, queue, history
<1>4. ASSUME NEW c \in local[p].cands, Claim(p, c)
      PROVE  TypeInv'
  <2>1. c \in Nat \X Job
    BY DEF TypeInv, TypeOK, Local
  <2>2. row' \in [Job -> Row]
    <3>1. c[2] \in Job /\ Leased(row[c[2]], p) \in Row
      BY <2>1, LeasedType DEF TypeInv, TypeOK
    <3> QED BY <1>4, <3>1 DEF Claim, TypeInv, TypeOK
  <2>3. local' \in [Pass -> Local]
    <3>1. local[p] \in Local /\ local[p].cands \ {c} \subseteq Nat \X Job
      BY DEF TypeInv, TypeOK, Local
    <3> QED BY <1>4, <3>1, LocalTypes DEF Claim, TypeInv, TypeOK
  <2>4. /\ pc' \in [Pass -> PassPC] /\ job' \in [Pass -> Job \cup {NoJob}]
        /\ JobInHand'
    BY <1>4, <2>1 DEF Claim, TypeInv, TypeOK, PassPC, JobInHand, Uploading
  <2> QED BY <1>4, <2>2, <2>3, <2>4 DEF Claim, TypeInv, TypeOK, history
<1> QED BY <1>1, <1>2, <1>3, <1>4 DEF Deliver

\* A recorded failure: the whole catch block.
LEMMA FinishFailedType ==
  ASSUME TypeInv, NEW p \in Pass, NEW e \in Error, NEW answered,
         NEW request \in {"key", "registration", "upload"},
         pc[p] \in Uploading, FinishFailed(p, e, answered, request)
  PROVE  /\ row' \in [Job -> Row] /\ paused' \in BOOLEAN
         /\ overHorizon' \subseteq HorizonAnswer
         /\ pc' \in [Pass -> PassPC] /\ job' \in [Pass -> Job \cup {NoJob}]
         /\ local' \in [Pass -> Local] /\ JobInHand'
<1>0. job[p] \in Job
  BY DEF TypeInv, JobInHand
<1>1. FailedRow(p, e) \in Row
  BY <1>0, FailedRowType DEF TypeInv
<1>2. row' \in [Job -> Row]
  BY <1>1 DEF FinishFailed, TypeInv, TypeOK
<1>3. paused' \in BOOLEAN
  BY DEF FinishFailed, TypeInv, TypeOK, Error
<1>4. overHorizon' \subseteq HorizonAnswer
  BY <1>0 DEF FinishFailed, RecordAnswer, HorizonAnswer, TypeInv, TypeOK
<1>5. EndPass(p) \/ (NextTurn(p) /\ Reserve(p))
  BY DEF FinishFailed
<1> QED BY <1>0, <1>2, <1>3, <1>4, <1>5, EndPassType, NextTurnType, ReserveType

LEMMA ErrorTypes ==
  /\ Refused \in Error
  /\ \A e \in Error : RegistrationReport(e) \in Error
  /\ ServiceErrors \subseteq Error
BY QueueConstants DEF Refused, Error, RegistrationReport

LEMMA UploadType ==
  ASSUME TypeInv, NEW p \in Pass, Upload(p)
  PROVE  TypeInv'
<1>0. pc[p] \in Uploading => job[p] \in Job
  BY DEF TypeInv, JobInHand
<1>1. CASE EntryChanged(p)
  <2>1. job[p] \in Job /\ row[job[p]] \in Row
    BY <1>0, <1>1 DEF EntryChanged, Uploading, TypeInv, TypeOK
  <2>2. Released(row[job[p]], "rejected", FALSE) \in Row
    BY <2>1, ReleasedType DEF JobState
  <2>3. row' \in [Job -> Row]
    BY <1>1, <2>2 DEF EntryChanged, TypeInv, TypeOK
  <2>4. EndPass(p) \/ (NextTurn(p) /\ UNCHANGED local)
    BY <1>1 DEF EntryChanged
  <2>5. /\ pc' \in [Pass -> PassPC] /\ job' \in [Pass -> Job \cup {NoJob}]
        /\ local' \in [Pass -> Local] /\ JobInHand'
    BY <2>4, EndPassType, NextTurnType DEF TypeInv, TypeOK
  <2> QED BY <1>1, <2>3, <2>5 DEF EntryChanged, TypeInv, TypeOK, history
<1>2. CASE LoadAndFetchKey(p)
  <2>1. local' \in [Pass -> Local]
    BY <1>0, <1>2, ReserveType DEF LoadAndFetchKey, Uploading
  <2> QED BY <1>2, <2>1
          DEF LoadAndFetchKey, TypeInv, TypeOK, PassPC, JobInHand, Uploading, queue, history
<1>3. CASE LoadFails(p)
  BY <1>3, ErrorTypes, FinishFailedType DEF LoadFails, TypeInv, TypeOK, Uploading
<1>4. ASSUME NEW e \in ServiceErrors, FetchKeyFails(p, e)
      PROVE  TypeInv'
  BY <1>4, ErrorTypes, FinishFailedType DEF FetchKeyFails, TypeInv, TypeOK, Uploading
<1>5. CASE Authorize(p)
  BY <1>5 DEF Authorize, TypeInv, TypeOK, PassPC, JobInHand, Uploading, queue, history
<1>6. ASSUME NEW e \in ServiceErrors, AuthorizeFails(p, e)
      PROVE  TypeInv'
  BY <1>6, ErrorTypes, FinishFailedType DEF AuthorizeFails, TypeInv, TypeOK, Uploading
<1>7. CASE ServiceStores(p)
  BY <1>0, <1>7 DEF ServiceStores, TypeInv, TypeOK, PassPC, JobInHand, Uploading, queue
<1>8. ASSUME NEW e \in ServiceErrors, SendFails(p, e)
      PROVE  TypeInv'
  BY <1>8, ErrorTypes, FinishFailedType DEF SendFails, TypeInv, TypeOK, Uploading
<1>9. CASE ReceiptArrives(p)
  <2>1. job[p] \in Job /\ row[job[p]] \in Row
    BY <1>0, <1>9 DEF ReceiptArrives, Uploading, TypeInv, TypeOK
  <2>2. Released(row[job[p]], "accepted", FALSE) \in Row
    BY <2>1, ReleasedType DEF JobState
  <2>3. row' \in [Job -> Row] /\ receipted' \subseteq Job
    BY <1>9, <2>1, <2>2 DEF ReceiptArrives, FinishAccepted, TypeInv, TypeOK
  <2>4. EndPass(p) \/ (NextTurn(p) /\ UNCHANGED local)
    BY <1>9 DEF ReceiptArrives, FinishAccepted
  <2>5. /\ pc' \in [Pass -> PassPC] /\ job' \in [Pass -> Job \cup {NoJob}]
        /\ local' \in [Pass -> Local] /\ JobInHand'
    BY <2>4, EndPassType, NextTurnType DEF TypeInv, TypeOK
  <2> QED BY <1>9, <2>3, <2>5 DEF ReceiptArrives, TypeInv, TypeOK
<1>10. ASSUME NEW e \in ServiceErrors, ReceiptLost(p, e)
       PROVE  TypeInv'
  BY <1>10, ErrorTypes, FinishFailedType DEF ReceiptLost, TypeInv, TypeOK, Uploading
<1> QED BY <1>1, <1>2, <1>3, <1>4, <1>5, <1>6, <1>7, <1>8, <1>9, <1>10 DEF Upload

\* The sets a retirement selects come with their age and their number of rows.
LEMMA SetTuplesType ==
  ASSUME TypeOK, NEW S \in SUBSET PreparedSet
  PROVE  SetTuples(S) \subseteq Nat \X PreparedSet \X Nat
<1> SUFFICES ASSUME NEW j \in Job
             PROVE  /\ row[j].created \in Nat /\ SetOf[j] \in PreparedSet
                    /\ Cardinality(Rows(SetOf[j])) \in Nat
    BY DEF SetTuples
<1>1. row[j].created \in Nat /\ SetOf[j] \in PreparedSet
  BY QueueConstants DEF TypeOK, Row
<1>2. IsFiniteSet(Rows(SetOf[j]))
  BY QueueConstants, FS_Subset DEF Rows
<1> QED BY <1>1, <1>2, FS_CardinalityType

LEMMA RetirementType ==
  ASSUME TypeInv,
         (\E kind \in RetireKinds : StartRetirement(kind)) \/ RunRetirement
  PROVE  TypeInv'
<1>1. ASSUME NEW kind \in RetireKinds, StartRetirement(kind)
      PROVE  TypeInv'
  <2>1. /\ SetTuples(AcceptedSets \ Protected) \subseteq Nat \X PreparedSet \X Nat
        /\ SetTuples(InactiveSets \ (OldestPreparedSet \cup Protected))
             \subseteq Nat \X PreparedSet \X Nat
    <3>1. AcceptedSets \subseteq PreparedSet /\ InactiveSets \subseteq PreparedSet
      BY DEF AcceptedSets, InactiveSets
    <3> QED BY <3>1, SetTuplesType DEF TypeInv
  <2>2. \A C \in AcceptedCandidates : C \subseteq Nat \X PreparedSet \X Nat
    BY <2>1 DEF AcceptedCandidates
  <2>3. SupersededCandidates \subseteq Nat \X PreparedSet \X Nat
    BY <2>1 DEF SupersededCandidates, Limit
  <2>4. PICK C \in SUBSET (Nat \X PreparedSet \X Nat) :
          ret' = [NoRetirement EXCEPT !.kind = kind, !.todo = C]
    BY <1>1, <2>2, <2>3 DEF StartRetirement
  <2>5. NoRetirement \in Retirement /\ kind \in {"accepted", "superseded"}
    BY QueueConstants DEF NoRetirement, Retirement
  <2>6. ASSUME NEW r \in Retirement
        PROVE  [r EXCEPT !.kind = kind, !.todo = C] \in Retirement
    BY <2>5 DEF Retirement
  <2>7. ret' \in Retirement
    BY <2>4, <2>5, <2>6
  <2> QED BY <1>1, <2>7 DEF StartRetirement, TypeInv, TypeOK, JobInHand, queue, passVars, history
<1>2. CASE RetireNextSet
  <2>1. ret.todo \subseteq Nat \X PreparedSet \X Nat
    BY DEF TypeInv, TypeOK, Retirement
  <2>2. PICK c \in Nat \X PreparedSet \X Nat :
          ret' = [ret EXCEPT !.todo = @ \ {c}, !.at = c[2], !.total = c[3]]
    BY <1>2, <2>1 DEF RetireNextSet, First
  <2>3. c[2] \in PreparedSet /\ c[3] \in Nat /\ ret \in Retirement
        /\ ret.todo \ {c} \subseteq Nat \X PreparedSet \X Nat
    BY <2>1 DEF TypeInv, TypeOK
  <2>4. ret' \in Retirement
    BY <2>2, <2>3 DEF Retirement
  <2> QED BY <1>2, <2>4 DEF RetireNextSet, TypeInv, TypeOK, JobInHand, queue, passVars, history
<1>3. CASE RetireArtifact
  BY <1>3 DEF RetireArtifact, TypeInv, TypeOK, ArtifactState, JobInHand, queue, passVars, history
<1>4. CASE RetireRows
  <2>1. row' \in [Job -> Row]
    BY <1>4, NewRowType DEF RetireRows, TypeInv, TypeOK
  <2>2. NoRetirement \in Retirement
    BY DEF NoRetirement, Retirement
  <2>3. ret' \in Retirement
    BY <1>4, <2>2 DEF RetireRows, TypeInv, TypeOK, Retirement
  <2> QED BY <1>4, <2>1, <2>3 DEF RetireRows, TypeInv, TypeOK, JobInHand, passVars, history
<1> QED BY <1>1, <1>2, <1>3, <1>4 DEF RunRetirement

LEMMA EnvironmentType ==
  ASSUME TypeInv, Environment
  PROVE  TypeInv'
<1>1. ASSUME NEW s \in PreparedSet, PrepareSet(s)
      PROVE  TypeInv'
  BY <1>1 DEF PrepareSet, TypeInv, TypeOK, ArtifactState, JobInHand, queue, passVars, history
<1>2. ASSUME NEW j \in Job, BecomeDue(j) \/ LeaseLapses(j)
      PROVE  TypeInv'
  <2>1. row[j] \in Row
    BY DEF TypeInv, TypeOK
  <2>2. [row[j] EXCEPT !.due = TRUE] \in Row /\ [row[j] EXCEPT !.lapsed = TRUE] \in Row
    BY <2>1 DEF Row
  <2>3. row' \in [Job -> Row]
    BY <1>2, <2>2 DEF BecomeDue, LeaseLapses, TypeInv, TypeOK
  <2> QED BY <1>2, <2>3
          DEF BecomeDue, LeaseLapses, TypeInv, TypeOK, JobInHand, passVars, history
<1>3. ASSUME NEW p \in Pass, CrashPass(p)
      PROVE  TypeInv'
  BY <1>3, EndPassType DEF CrashPass, TypeInv, TypeOK, queue, history
<1>4. ASSUME NEW p \in Pass, AbortPass(p)
      PROVE  TypeInv'
  <2>1. local[p] \in Local
    BY DEF TypeInv, TypeOK
  <2>2. local' \in [Pass -> Local]
    BY <1>4, <2>1, LocalTypes DEF AbortPass, TypeInv, TypeOK
  <2> QED BY <1>4, <2>2 DEF AbortPass, TypeInv, TypeOK, JobInHand, queue, history
<1>5. CASE CrashRetirement
  <2>1. NoRetirement \in Retirement
    BY DEF NoRetirement, Retirement
  <2> QED BY <1>5, <2>1 DEF CrashRetirement, TypeInv, TypeOK, JobInHand, queue, passVars, history
<1>6. CASE Pause \/ Resume
  BY <1>6 DEF Pause, Resume, TypeInv, TypeOK, JobInHand, passVars, history
<1>7. CASE InspectQueue
  BY <1>7, RecoveryType DEF InspectQueue, TypeInv, TypeOK, JobInHand, passVars, history
<1> QED BY <1>1, <1>2, <1>3, <1>4, <1>5, <1>6, <1>7 DEF Environment

LEMMA StepType == TypeInv /\ [Next]_vars => TypeInv'
<1> SUFFICES ASSUME TypeInv, [Next]_vars PROVE TypeInv'
  OBVIOUS
<1>1. ASSUME NEW p \in Pass, NEW t \in Targets, StartPass(p, t)
      PROVE  TypeInv'
  <2>1. local[p] \in Local /\ {s \in PreparedSet : Listed(s)} \in SUBSET PreparedSet
    BY DEF TypeInv, TypeOK
  <2>2. local' \in [Pass -> Local]
    BY <1>1, <2>1, LocalTypes DEF StartPass, TypeInv, TypeOK
  <2> QED BY <1>1, <2>2
          DEF StartPass, TypeInv, TypeOK, PassPC, JobInHand, Uploading, queue, history
<1>2. ASSUME NEW p \in Pass, RunPass(p)
      PROVE  TypeInv'
  BY <1>2, DiscoverType, EnqueueType, DeliverType, UploadType DEF RunPass
<1>3. CASE UNCHANGED vars
  BY <1>3 DEF vars, queue, passVars, history, TypeInv, TypeOK, JobInHand
<1> QED BY <1>1, <1>2, <1>3, RetirementType, EnvironmentType DEF Next

\* Rows, passes, artifacts and histories always have the shape the schema and
\* the passes give them; a pass that uploads has a contribution in hand.
THEOREM TypeCorrect == Spec => []TypeOK
<1>1. TypeInv => TypeOK
  BY DEF TypeInv
<1> QED BY <1>1, InitType, StepType, PTL DEF Spec

(***************************************************************************)
(* Receipts, rows and files.  NoResendUnderLease is not inductive: what    *)
(* keeps an accepted contribution from being sent again is that its row    *)
(* stays accepted until its files are gone, after which no pass can load   *)
(* it; and a row is deleted only then.                                     *)
(***************************************************************************)
ReceiptRemembered ==
  \A j \in receipted : row[j].state = "accepted" \/ artifact[SetOf[j]] = "gone"

RowsAreKnown == \A j \in Job : row[j].state # "none" => j \in everQueued

HandIsKnown == \A p \in Pass : pc[p] \in Uploading => job[p] \in everQueued

StoredIsDelivered == \A p \in Pass : pc[p] = "stored" => job[p] \in delivered

RowInv  == ReceiptRemembered /\ DedupeRowsOutliveFiles /\ RowsAreKnown
PassInv == NoResendUnderLease /\ HandIsKnown /\ StoredIsDelivered

QueueInv == TypeInv /\ RowInv /\ PassInv

LEMMA InitInv == Init => QueueInv
<1>1. Init => RowInv /\ PassInv
  BY QueueConstants
     DEF Init, RowInv, PassInv, ReceiptRemembered, DedupeRowsOutliveFiles, RowsAreKnown,
         NoResendUnderLease, HandIsKnown, StoredIsDelivered, NoRow, Uploading
<1> QED BY <1>1, InitType DEF QueueInv

\* A step that neither makes nor deletes rows nor unsettles an accepted one.
LEMMA RowsKept ==
  ASSUME TypeInv, RowInv, UNCHANGED <<everQueued, receipted>>,
         \A s \in PreparedSet : artifact[s] = "gone" => artifact'[s] = "gone",
         \A j \in Job : row'[j].state # row[j].state
                          => row[j].state \notin {"none", "accepted"} /\ row'[j].state # "none"
  PROVE  RowInv'
<1>1. everQueued \subseteq Job /\ receipted \subseteq Job /\ \A j \in Job : SetOf[j] \in PreparedSet
  BY QueueConstants DEF TypeInv, TypeOK
<1> QED BY <1>1 DEF RowInv, ReceiptRemembered, DedupeRowsOutliveFiles, RowsAreKnown

\* A step in which no pass starts to upload or takes a lease.
LEMMA PassesKept ==
  ASSUME TypeInv, PassInv,
         \A q \in Pass : pc'[q] \in Uploading => pc'[q] = pc[q] /\ job'[q] = job[q],
         everQueued \subseteq everQueued', delivered \subseteq delivered',
         \A j \in Job, q \in Pass : Holds(q, j)' => Holds(q, j) /\ (j \in receipted' => j \in receipted)
  PROVE  PassInv'
<1>1. \A q \in Pass : pc[q] \in Uploading => job[q] \in Job
  BY DEF TypeInv, JobInHand
<1> QED BY <1>1 DEF PassInv, NoResendUnderLease, HandIsKnown, StoredIsDelivered, Holds, Uploading

LEMMA DiscoverInv ==
  ASSUME QueueInv, NEW p \in Pass, Discover(p)
  PROVE  RowInv' /\ PassInv'
<1>1. ASSUME NEW s \in PreparedSet, VerifySet(p, s) \/ VerifyFails(p, s)
      PROVE  RowInv' /\ PassInv'
  <2>1. UNCHANGED <<artifact, queue, history>>
    BY <1>1 DEF VerifySet, VerifyFails
  <2>2. \A q \in Pass : pc'[q] \in Uploading => pc'[q] = pc[q] /\ job'[q] = job[q]
    BY <1>1 DEF VerifySet, VerifyFails, EndPass, QueueInv, TypeInv, TypeOK, Uploading
  <2> QED BY <2>1, <2>2, RowsKept, PassesKept DEF QueueInv, queue, history, Holds
<1>2. CASE OpenQueue(p)
  <2>1. UNCHANGED <<artifact, everQueued, delivered, receipted>>
    BY <1>2 DEF OpenQueue, history
  <2>2. \A j \in Job : row'[j] # row[j] => row[j].state = "in_flight" /\ row'[j].state = "retryable"
    BY <1>2 DEF OpenQueue, RecoveredRows, Released, QueueInv, TypeInv, TypeOK, Row
  <2>3. \A q \in Pass : pc'[q] \in Uploading => pc'[q] = pc[q] /\ job'[q] = job[q]
    BY <1>2 DEF OpenQueue, QueueInv, TypeInv, TypeOK, Uploading
  <2> QED BY <2>1, <2>2, <2>3, RowsKept, PassesKept DEF QueueInv, Holds
<1> QED BY <1>1, <1>2 DEF Discover

LEMMA EnqueueInv ==
  ASSUME QueueInv, NEW p \in Pass, Enqueue(p)
  PROVE  RowInv' /\ PassInv'
<1>1. CASE \/ \E j \in Job : LoadEntry(p, j) \/ LoadEntryFails(p, j)
           \/ InsertAtLimit(p) \/ ReturnEarly(p) \/ SelectReady(p)
  <2>1. UNCHANGED <<artifact, queue, history>>
    BY <1>1 DEF LoadEntry, LoadEntryFails, InsertAtLimit, ReturnEarly, SelectReady
  <2>2. \A q \in Pass : pc'[q] \in Uploading => pc'[q] = pc[q] /\ job'[q] = job[q]
    BY <1>1 DEF LoadEntry, LoadEntryFails, InsertAtLimit, ReturnEarly, SelectReady, EndPass,
                QueueInv, TypeInv, TypeOK, Uploading
  <2> QED BY <2>1, <2>2, RowsKept, PassesKept DEF QueueInv, queue, history, Holds
<1>2. CASE InsertRow(p)
  <2>1. /\ UNCHANGED <<artifact, delivered, receipted>>
        /\ everQueued \subseteq everQueued'
        /\ \A j \in everQueued' : j \in everQueued \/ row'[j].state # "none"
        /\ \A j \in Job : row'[j] # row[j] =>
              row[j].state = "none" /\ row'[j].state = "pending" /\ j \in everQueued'
    <3>1. job[p] \in Job /\ NewRow(local[p].stamp).state = "pending"
      BY <1>2, NewRowType DEF InsertRow, QueueInv, TypeInv, TypeOK, JobInHand, Local
    <3> QED BY <1>2, <3>1 DEF InsertRow, QueueInv, TypeInv, TypeOK
  <2>2. \A q \in Pass : pc'[q] \in Uploading => pc'[q] = pc[q] /\ job'[q] = job[q]
    BY <1>2 DEF InsertRow, QueueInv, TypeInv, TypeOK, Uploading
  <2>3. PassInv'
    BY <2>1, <2>2, PassesKept DEF QueueInv, Holds
  <2>4. everQueued' \subseteq Job /\ receipted \subseteq Job
    BY <1>2, EnqueueType DEF Enqueue, QueueInv, TypeInv, TypeOK
  <2>5. RowInv'
    BY <2>1, <2>4
       DEF QueueInv, RowInv, ReceiptRemembered, DedupeRowsOutliveFiles, RowsAreKnown
  <2> QED BY <2>3, <2>5
<1> QED BY <1>1, <1>2 DEF Enqueue

LEMMA DeliverInv ==
  ASSUME QueueInv, NEW p \in Pass, Deliver(p)
  PROVE  RowInv' /\ PassInv'
<1>1. CASE FinishPass(p) \/ BandwidthStop(p) \/ SkipCandidate(p)
  <2>1. UNCHANGED <<artifact, queue, history>>
    BY <1>1 DEF FinishPass, BandwidthStop, SkipCandidate
  <2>2. \A q \in Pass : pc'[q] \in Uploading => pc'[q] = pc[q] /\ job'[q] = job[q]
    BY <1>1 DEF FinishPass, BandwidthStop, SkipCandidate, EndPass, QueueInv, TypeInv, TypeOK, Uploading
  <2> QED BY <2>1, <2>2, RowsKept, PassesKept DEF QueueInv, queue, history, Holds
<1>2. ASSUME NEW c \in local[p].cands, Claim(p, c)
      PROVE  RowInv' /\ PassInv'
  <2>1. c[2] \in Job
    BY DEF QueueInv, TypeInv, TypeOK, Local
  <2>2. /\ UNCHANGED <<artifact, everQueued, delivered, receipted>>
        /\ row[c[2]].state \in Waiting
        /\ row' = [row EXCEPT ![c[2]] = Leased(@, p)]
        /\ pc' = [pc EXCEPT ![p] = "claimed"] /\ job' = [job EXCEPT ![p] = c[2]]
    BY <1>2 DEF Claim, Claimable, Ready, history
  <2>3. /\ \A j \in Job : j # c[2] => row'[j] = row[j]
        /\ row'[c[2]].state = "in_flight" /\ row'[c[2]].holder = p
    BY <2>1, <2>2 DEF Leased, QueueInv, TypeInv, TypeOK, Row
  <2>4. RowInv'
    BY <2>2, <2>3, RowsKept DEF QueueInv, Waiting
  <2>5. c[2] \in everQueued
    BY <2>1, <2>2 DEF QueueInv, RowInv, RowsAreKnown, Waiting
  <2>6. \A q \in Pass \ {p} : /\ pc'[q] = pc[q] /\ job'[q] = job[q]
                              /\ pc[q] \in Uploading => job[q] \in Job
                              /\ \A j \in Job : Holds(q, j)' => Holds(q, j)
    BY <2>2, <2>3 DEF QueueInv, TypeInv, TypeOK, JobInHand, Holds
  <2>7. pc'[p] = "claimed" /\ job'[p] = c[2]
    BY <2>2 DEF QueueInv, TypeInv, TypeOK
  <2>8. PassInv'
    BY <2>2, <2>5, <2>6, <2>7
       DEF QueueInv, PassInv, NoResendUnderLease, HandIsKnown, StoredIsDelivered, Holds, Uploading
  <2> QED BY <2>4, <2>8
<1> QED BY <1>1, <1>2 DEF Deliver

LEMMA FinishFailedInv ==
  ASSUME QueueInv, NEW p \in Pass, NEW e \in Error, NEW answered,
         NEW request, pc[p] \in Uploading, FinishFailed(p, e, answered, request),
         UNCHANGED <<artifact, everQueued, delivered, receipted>>
  PROVE  RowInv' /\ PassInv'
<1>1. \A j \in Job : row'[j] # row[j] =>
        row[j].state = "in_flight" /\ row'[j].state \in {"retryable", "rejected"}
  <2>1. job[p] \in Job /\ row[job[p]] \in Row
    BY DEF QueueInv, TypeInv, TypeOK, JobInHand
  <2>2. FailedRow(p, e).state \in {"retryable", "rejected"}
    BY <2>1, ReleasedState DEF FailedRow
  <2> QED BY <2>1, <2>2 DEF FinishFailed, Holds, QueueInv, TypeInv, TypeOK
<1>2. EndPass(p) \/ NextTurn(p)
  BY DEF FinishFailed
<1>3. \A q \in Pass : pc'[q] \in Uploading => pc'[q] = pc[q] /\ job'[q] = job[q]
  BY <1>2 DEF EndPass, NextTurn, QueueInv, TypeInv, TypeOK, Uploading
<1> QED BY <1>1, <1>3, RowsKept, PassesKept DEF QueueInv, Holds

LEMMA UploadInv ==
  ASSUME QueueInv, NEW p \in Pass, Upload(p)
  PROVE  RowInv' /\ PassInv'
<1>0. pc[p] \in Uploading => job[p] \in Job
  BY DEF QueueInv, TypeInv, JobInHand
<1>1. CASE EntryChanged(p)
  <2>1. \A j \in Job : row'[j] # row[j] =>
          row[j].state = "in_flight" /\ row'[j].state = "rejected"
    <3>1. job[p] \in Job /\ row[job[p]] \in Row
      BY <1>0, <1>1 DEF EntryChanged, Uploading, QueueInv, TypeInv, TypeOK
    <3>2. \/ UNCHANGED row
          \/ /\ row[job[p]].state = "in_flight"
             /\ row' = [row EXCEPT ![job[p]] = Released(row[job[p]], "rejected", FALSE)]
      BY <1>1 DEF EntryChanged, Holds
    <3>3. Released(row[job[p]], "rejected", FALSE).state = "rejected"
      BY <3>1, ReleasedState
    <3> QED BY <3>1, <3>2, <3>3 DEF QueueInv, TypeInv, TypeOK
  <2>2. UNCHANGED <<artifact, everQueued, delivered, receipted>> /\ (EndPass(p) \/ NextTurn(p))
    BY <1>1 DEF EntryChanged, history
  <2>3. \A q \in Pass : pc'[q] \in Uploading => pc'[q] = pc[q] /\ job'[q] = job[q]
    BY <2>2 DEF EndPass, NextTurn, QueueInv, TypeInv, TypeOK, Uploading
  <2> QED BY <2>1, <2>2, <2>3, RowsKept, PassesKept DEF QueueInv, Holds
<1>2. CASE LoadAndFetchKey(p)
  \* The contribution can be read, so it is not a receipted one.
  <2>1. UNCHANGED <<artifact, row, job, everQueued, delivered, receipted>>
        /\ pc' = [pc EXCEPT ![p] = "authorize"] /\ job[p] \in Job
        /\ artifact[SetOf[job[p]]] # "gone"
    BY <1>0, <1>2 DEF LoadAndFetchKey, Readable, queue, history, Uploading
  <2>2. RowInv'
    BY <2>1, RowsKept DEF QueueInv
  <2>3. Holds(p, job[p]) => job[p] \notin receipted
    BY <2>1 DEF QueueInv, RowInv, ReceiptRemembered, Holds
  <2>4. job[p] \in everQueued
    BY <1>2 DEF LoadAndFetchKey, QueueInv, PassInv, HandIsKnown, Uploading
  <2>5. PassInv'
    BY <2>1, <2>3, <2>4
       DEF QueueInv, TypeInv, TypeOK, PassInv, NoResendUnderLease, HandIsKnown,
           StoredIsDelivered, Holds, Uploading
  <2> QED BY <2>2, <2>5
<1>3. CASE LoadFails(p)
  BY <1>3, ErrorTypes, FinishFailedInv DEF LoadFails, Uploading
<1>4. ASSUME NEW e \in ServiceErrors, FetchKeyFails(p, e)
      PROVE  RowInv' /\ PassInv'
  BY <1>4, ErrorTypes, FinishFailedInv DEF FetchKeyFails, Uploading
<1>5. CASE Authorize(p) \/ ServiceStores(p)
  <2>1. UNCHANGED <<artifact, row, job, everQueued, receipted>>
    BY <1>5 DEF Authorize, ServiceStores, queue, history
  <2>2. RowInv'
    BY <2>1, RowsKept DEF QueueInv
  <2>3. PassInv'
    BY <1>5, <2>1
       DEF Authorize, ServiceStores, history, QueueInv, TypeInv, TypeOK, PassInv,
           NoResendUnderLease, HandIsKnown, StoredIsDelivered, Holds, Uploading
  <2> QED BY <2>2, <2>3
<1>6. ASSUME NEW e \in ServiceErrors, AuthorizeFails(p, e)
      PROVE  RowInv' /\ PassInv'
  BY <1>6, ErrorTypes, FinishFailedInv DEF AuthorizeFails, Uploading
<1>7. ASSUME NEW e \in ServiceErrors, SendFails(p, e)
      PROVE  RowInv' /\ PassInv'
  BY <1>7, ErrorTypes, FinishFailedInv DEF SendFails, Uploading
<1>8. CASE ReceiptArrives(p)
  <2>1. job[p] \in Job
    BY <1>0, <1>8 DEF ReceiptArrives, Uploading
  <2>2. /\ UNCHANGED <<artifact, everQueued, delivered>> /\ (EndPass(p) \/ NextTurn(p))
        /\ \/ UNCHANGED <<row, receipted>>
           \/ /\ row' = [row EXCEPT ![job[p]] = Released(@, "accepted", FALSE)]
              /\ receipted' = receipted \cup {job[p]} /\ Holds(p, job[p])
    BY <1>8 DEF ReceiptArrives, FinishAccepted
  <2>3. /\ \A j \in Job : row'[j] # row[j] =>
             row[j].state = "in_flight" /\ row'[j].state = "accepted"
        /\ \A j \in receipted' : j \in receipted \/ row'[j].state = "accepted"
        /\ receipted' \subseteq Job
    <3>1. row[job[p]] \in Row /\ receipted \subseteq Job
      BY <2>1 DEF QueueInv, TypeInv, TypeOK
    <3>2. Released(row[job[p]], "accepted", FALSE).state = "accepted"
      BY <3>1, ReleasedState
    <3> QED BY <2>1, <2>2, <3>1, <3>2 DEF Holds, QueueInv, TypeInv, TypeOK
  <2>4. RowInv'
    BY <2>2, <2>3
       DEF QueueInv, TypeInv, TypeOK, RowInv, ReceiptRemembered, DedupeRowsOutliveFiles, RowsAreKnown
  <2>5. \A q \in Pass : pc'[q] \in Uploading => pc'[q] = pc[q] /\ job'[q] = job[q]
    BY <2>2 DEF EndPass, NextTurn, QueueInv, TypeInv, TypeOK, Uploading
  <2>6. PassInv'
    BY <2>2, <2>3, <2>5, PassesKept DEF QueueInv, Holds
  <2> QED BY <2>4, <2>6
<1>9. ASSUME NEW e \in ServiceErrors, ReceiptLost(p, e)
      PROVE  RowInv' /\ PassInv'
  BY <1>9, ErrorTypes, FinishFailedInv DEF ReceiptLost, Uploading
<1> QED BY <1>1, <1>2, <1>3, <1>4, <1>5, <1>6, <1>7, <1>8, <1>9 DEF Upload

\* Every pass is where it was, and no lease is taken.
LEMMA RetirementInv ==
  ASSUME QueueInv,
         (\E kind \in RetireKinds : StartRetirement(kind)) \/ RunRetirement
  PROVE  RowInv' /\ PassInv'
<1>1. CASE (\E kind \in RetireKinds : StartRetirement(kind)) \/ RetireNextSet
  <2>1. UNCHANGED <<artifact, queue, passVars, history>>
    BY <1>1 DEF StartRetirement, RetireNextSet
  <2> QED BY <2>1, RowsKept, PassesKept DEF QueueInv, queue, passVars, history, Holds
<1>2. CASE RetireArtifact
  <2>1. UNCHANGED <<queue, passVars, history>>
    BY <1>2 DEF RetireArtifact
  <2>2. \A s \in PreparedSet : artifact[s] = "gone" => artifact'[s] = "gone"
    BY <1>2 DEF RetireArtifact, QueueInv, TypeInv, TypeOK
  <2> QED BY <2>1, <2>2, RowsKept, PassesKept DEF QueueInv, queue, passVars, history, Holds
<1>3. CASE RetireRows
  <2>1. /\ UNCHANGED <<artifact, passVars, history>>
        /\ \A j \in Job : row'[j] # row[j] =>
              row'[j] = NoRow /\ artifact[SetOf[j]] = "gone"
    BY <1>3 DEF RetireRows, Rows, QueueInv, TypeInv, TypeOK
  <2>2. RowInv'
    BY <2>1 DEF QueueInv, TypeInv, TypeOK, RowInv, ReceiptRemembered, DedupeRowsOutliveFiles,
                RowsAreKnown, NoRow, history
  <2>3. PassInv'
    BY <2>1, PassesKept DEF QueueInv, passVars, history, Holds, NoRow
  <2> QED BY <2>2, <2>3
<1> QED BY <1>1, <1>2, <1>3 DEF RunRetirement

LEMMA EnvironmentInv ==
  ASSUME QueueInv, Environment
  PROVE  RowInv' /\ PassInv'
<1>1. ASSUME NEW s \in PreparedSet, PrepareSet(s)
      PROVE  RowInv' /\ PassInv'
  <2>1. /\ UNCHANGED <<queue, passVars, history>>
        /\ \A r \in PreparedSet : artifact[r] = "gone" => artifact'[r] = "gone"
    BY <1>1 DEF PrepareSet, QueueInv, TypeInv, TypeOK
  <2> QED BY <2>1, RowsKept, PassesKept DEF QueueInv, queue, passVars, history, Holds
<1>2. ASSUME NEW j \in Job, BecomeDue(j) \/ LeaseLapses(j)
      PROVE  RowInv' /\ PassInv'
  <2>1. /\ UNCHANGED <<artifact, passVars, history>>
        /\ \A i \in Job : row'[i].state = row[i].state /\ row'[i].holder = row[i].holder
    BY <1>2 DEF BecomeDue, LeaseLapses, QueueInv, TypeInv, TypeOK, Row
  <2> QED BY <2>1, RowsKept, PassesKept DEF QueueInv, passVars, history, Holds
<1>3. ASSUME NEW p \in Pass, CrashPass(p) \/ AbortPass(p)
      PROVE  RowInv' /\ PassInv'
  <2>1. UNCHANGED <<artifact, queue, history>>
    BY <1>3 DEF CrashPass, AbortPass
  <2>2. \A q \in Pass : pc'[q] \in Uploading => pc'[q] = pc[q] /\ job'[q] = job[q]
    BY <1>3 DEF CrashPass, AbortPass, EndPass, QueueInv, TypeInv, TypeOK, Uploading
  <2> QED BY <2>1, <2>2, RowsKept, PassesKept DEF QueueInv, queue, history, Holds
<1>4. CASE CrashRetirement \/ Pause \/ Resume
  <2>1. UNCHANGED <<artifact, row, passVars, everQueued, delivered, receipted>>
    BY <1>4 DEF CrashRetirement, Pause, Resume, queue, history
  <2> QED BY <2>1, RowsKept, PassesKept DEF QueueInv, passVars, Holds
<1>5. CASE InspectQueue
  <2>1. /\ UNCHANGED <<artifact, passVars, history>>
        /\ \A j \in Job : row'[j] # row[j] => row[j].state = "in_flight" /\ row'[j].state = "retryable"
    BY <1>5 DEF InspectQueue, RecoveredRows, Released, QueueInv, TypeInv, TypeOK, Row
  <2> QED BY <2>1, RowsKept, PassesKept DEF QueueInv, passVars, history, Holds
<1> QED BY <1>1, <1>2, <1>3, <1>4, <1>5 DEF Environment

LEMMA StepInv == QueueInv /\ [Next]_vars => QueueInv'
<1> SUFFICES ASSUME QueueInv, [Next]_vars PROVE QueueInv'
  OBVIOUS
<1>1. TypeInv'
  BY StepType DEF QueueInv
<1>2. RowInv' /\ PassInv'
  <2>1. ASSUME NEW p \in Pass, NEW t \in Targets, StartPass(p, t)
        PROVE  RowInv' /\ PassInv'
    <3>1. UNCHANGED <<artifact, queue, history>>
      BY <2>1 DEF StartPass
    <3>2. \A q \in Pass : pc'[q] \in Uploading => pc'[q] = pc[q] /\ job'[q] = job[q]
      BY <2>1 DEF StartPass, QueueInv, TypeInv, TypeOK, Uploading
    <3> QED BY <3>1, <3>2, RowsKept, PassesKept DEF QueueInv, queue, history, Holds
  <2>2. ASSUME NEW p \in Pass, RunPass(p)
        PROVE  RowInv' /\ PassInv'
    BY <2>2, DiscoverInv, EnqueueInv, DeliverInv, UploadInv DEF RunPass
  <2>3. CASE UNCHANGED vars
    BY <2>3, RowsKept, PassesKept DEF QueueInv, vars, queue, passVars, history, Holds
  <2> QED BY <2>1, <2>2, <2>3, RetirementInv, EnvironmentInv DEF Next
<1> QED BY <1>1, <1>2 DEF QueueInv

LEMMA Invariance == Spec => []QueueInv
BY InitInv, StepInv, PTL DEF Spec

\* The queue never uploads a contribution again, under a valid lease, once its
\* receipt was recorded: whatever the passes, retirements and crashes.
THEOREM NeverResent == Spec => []NoResendUnderLease
<1>1. QueueInv => NoResendUnderLease
  BY DEF QueueInv, PassInv
<1> QED BY <1>1, Invariance, PTL

\* The crash order of the retirements: no set is discoverable after its rows
\* were deleted.
THEOREM RowsOutliveFiles == Spec => []DedupeRowsOutliveFiles
<1>1. QueueInv => DedupeRowsOutliveFiles
  BY DEF QueueInv, RowInv
<1> QED BY <1>1, Invariance, PTL

(***************************************************************************)
(* What any step does to rows and histories.  Finality and the refinement  *)
(* follow from this classification alone.                                  *)
(***************************************************************************)
OpenState  == Waiting \cup {"in_flight"}
OnlyRow(i) == \A j \in Job \ {i} : row'[j] = row[j]

Shuffles ==
  /\ UNCHANGED <<everQueued, delivered, receipted>>
  /\ \A j \in Job : row'[j] = row[j] \/ {row[j].state, row'[j].state} \subseteq OpenState

Stores(i) ==
  /\ i \in everQueued /\ delivered' = delivered \cup {i}
  /\ UNCHANGED <<row, everQueued, receipted>>

Enters(i) ==
  /\ row[i].state = "none" /\ row'[i].state = "pending" /\ OnlyRow(i)
  /\ everQueued' = everQueued \cup {i} /\ UNCHANGED <<delivered, receipted>>

Fails(i) ==
  /\ row[i].state \in OpenState /\ row'[i].state = "rejected" /\ OnlyRow(i)
  /\ UNCHANGED <<everQueued, delivered, receipted>>

Succeeds(i) ==
  /\ row[i].state \in OpenState /\ row'[i].state = "accepted" /\ OnlyRow(i)
  /\ i \in delivered /\ i \notin receipted /\ receipted' = receipted \cup {i}
  /\ UNCHANGED <<everQueued, delivered>>

Leaves(s) ==
  /\ artifact[s] = "gone" /\ s \in AcceptedSets \cup InactiveSets
  /\ row' = [j \in Job |-> IF j \in Rows(s) THEN NoRow ELSE row[j]]
  /\ UNCHANGED <<everQueued, delivered, receipted>>

Effect == \/ Shuffles
          \/ \E i \in Job : Stores(i) \/ Enters(i) \/ Fails(i) \/ Succeeds(i)
          \/ \E s \in PreparedSet : Leaves(s)

LEMMA FailedEffect ==
  ASSUME QueueInv, NEW p \in Pass, NEW e, NEW answered, NEW request,
         pc[p] \in Uploading, FinishFailed(p, e, answered, request),
         UNCHANGED <<everQueued, delivered, receipted>>
  PROVE  Effect
<1>1. job[p] \in Job /\ row[job[p]] \in Row
  BY DEF QueueInv, TypeInv, TypeOK, JobInHand
<1>2. FailedRow(p, e).state \in {"retryable", "rejected"}
  BY <1>1, ReleasedState DEF FailedRow
<1>3. \/ UNCHANGED row
      \/ /\ row[job[p]].state = "in_flight"
         /\ row' = [row EXCEPT ![job[p]] = FailedRow(p, e)]
  BY DEF FinishFailed, Holds
<1>4. UNCHANGED row \/ Shuffles \/ Fails(job[p])
  BY <1>1, <1>2, <1>3 DEF Shuffles, Fails, OnlyRow, OpenState, Waiting, QueueInv, TypeInv, TypeOK
<1> QED BY <1>1, <1>4 DEF Effect, Shuffles

LEMMA UploadEffect ==
  ASSUME QueueInv, NEW p \in Pass, Upload(p)
  PROVE  Effect
<1>1. CASE EntryChanged(p)
  <2>1. job[p] \in Job /\ row[job[p]] \in Row
    BY <1>1 DEF EntryChanged, Uploading, QueueInv, TypeInv, TypeOK, JobInHand
  <2>2. \/ UNCHANGED row
        \/ /\ row[job[p]].state = "in_flight"
           /\ row' = [row EXCEPT ![job[p]] = Released(row[job[p]], "rejected", FALSE)]
    BY <1>1 DEF EntryChanged, Holds
  <2>3. Released(row[job[p]], "rejected", FALSE).state = "rejected"
    BY <2>1, ReleasedState
  <2>4. Shuffles \/ Fails(job[p])
    BY <1>1, <2>1, <2>2, <2>3
       DEF EntryChanged, history, Shuffles, Fails, OnlyRow, OpenState, QueueInv, TypeInv, TypeOK
  <2> QED BY <2>1, <2>4 DEF Effect
<1>2. CASE LoadAndFetchKey(p) \/ Authorize(p)
  BY <1>2 DEF LoadAndFetchKey, Authorize, queue, history, Effect, Shuffles
<1>3. CASE LoadFails(p)
  BY <1>3, FailedEffect DEF LoadFails, Uploading
<1>4. ASSUME NEW e \in ServiceErrors,
             FetchKeyFails(p, e) \/ AuthorizeFails(p, e) \/ SendFails(p, e) \/ ReceiptLost(p, e)
      PROVE  Effect
  BY <1>4, FailedEffect DEF FetchKeyFails, AuthorizeFails, SendFails, ReceiptLost, Uploading
<1>5. CASE ServiceStores(p)
  <2>1. job[p] \in Job /\ job[p] \in everQueued
    BY <1>5 DEF ServiceStores, Uploading, QueueInv, TypeInv, JobInHand, PassInv, HandIsKnown
  <2> QED BY <1>5, <2>1 DEF ServiceStores, queue, Effect, Stores
<1>6. CASE ReceiptArrives(p)
  <2>1. job[p] \in Job /\ row[job[p]] \in Row /\ job[p] \in delivered
    BY <1>6 DEF ReceiptArrives, Uploading, QueueInv, TypeInv, TypeOK, JobInHand, PassInv,
                StoredIsDelivered
  <2>2. \/ UNCHANGED <<row, receipted>>
        \/ /\ row[job[p]].state = "in_flight" /\ job[p] \notin receipted
           /\ row' = [row EXCEPT ![job[p]] = Released(row[job[p]], "accepted", FALSE)]
           /\ receipted' = receipted \cup {job[p]}
    BY <1>6 DEF ReceiptArrives, FinishAccepted, Holds, QueueInv, PassInv, NoResendUnderLease
  <2>3. Released(row[job[p]], "accepted", FALSE).state = "accepted"
    BY <2>1, ReleasedState
  <2>4. UNCHANGED <<everQueued, delivered>>
    BY <1>6 DEF ReceiptArrives
  <2>5. Shuffles \/ Succeeds(job[p])
    BY <2>1, <2>2, <2>3, <2>4
       DEF Shuffles, Succeeds, OnlyRow, OpenState, QueueInv, TypeInv, TypeOK
  <2> QED BY <2>1, <2>5 DEF Effect
<1> QED BY <1>1, <1>2, <1>3, <1>4, <1>5, <1>6 DEF Upload

LEMMA PassEffect ==
  ASSUME QueueInv, NEW p \in Pass, Discover(p) \/ Enqueue(p) \/ Deliver(p)
  PROVE  Effect
<1>1. CASE \/ \E s \in PreparedSet : VerifySet(p, s) \/ VerifyFails(p, s)
           \/ \E j \in Job : LoadEntry(p, j) \/ LoadEntryFails(p, j)
           \/ InsertAtLimit(p) \/ ReturnEarly(p) \/ SelectReady(p)
           \/ FinishPass(p) \/ BandwidthStop(p) \/ SkipCandidate(p)
  <2>1. UNCHANGED <<queue, history>>
    BY <1>1 DEF VerifySet, VerifyFails, LoadEntry, LoadEntryFails, InsertAtLimit, ReturnEarly,
                SelectReady, FinishPass, BandwidthStop, SkipCandidate
  <2> QED BY <2>1 DEF queue, history, Effect, Shuffles
<1>2. CASE OpenQueue(p)
  <2>1. \A j \in Job : row'[j] # row[j] => row[j].state = "in_flight" /\ row'[j].state = "retryable"
    BY <1>2 DEF OpenQueue, RecoveredRows, Released, QueueInv, TypeInv, TypeOK, Row
  <2> QED BY <1>2, <2>1 DEF OpenQueue, history, Effect, Shuffles, OpenState, Waiting
<1>3. CASE InsertRow(p)
  <2>1. job[p] \in Job /\ NewRow(local[p].stamp).state = "pending"
    BY <1>3, NewRowType DEF InsertRow, QueueInv, TypeInv, TypeOK, JobInHand, Local
  <2>2. Shuffles \/ Enters(job[p])
    BY <1>3, <2>1 DEF InsertRow, Shuffles, Enters, OnlyRow, QueueInv, TypeInv, TypeOK
  <2> QED BY <2>1, <2>2 DEF Effect
<1>4. ASSUME NEW c \in local[p].cands, Claim(p, c)
      PROVE  Effect
  <2>1. c[2] \in Job
    BY DEF QueueInv, TypeInv, TypeOK, Local
  <2>2. /\ UNCHANGED <<everQueued, delivered, receipted>> /\ row[c[2]].state \in Waiting
        /\ row' = [row EXCEPT ![c[2]] = Leased(@, p)]
    BY <1>4 DEF Claim, Claimable, Ready, history
  <2>3. Leased(row[c[2]], p).state = "in_flight"
    BY <2>1 DEF Leased, QueueInv, TypeInv, TypeOK, Row
  <2>4. Shuffles
    BY <2>1, <2>2, <2>3 DEF Shuffles, OpenState, QueueInv, TypeInv, TypeOK
  <2> QED BY <2>4 DEF Effect
<1> QED BY <1>1, <1>2, <1>3, <1>4 DEF Discover, Enqueue, Deliver

LEMMA StepEffect == QueueInv /\ [Next]_vars => Effect
<1> SUFFICES ASSUME QueueInv, [Next]_vars PROVE Effect
  OBVIOUS
<1>1. ASSUME NEW p \in Pass, NEW t \in Targets, StartPass(p, t)
      PROVE  Effect
  BY <1>1 DEF StartPass, queue, history, Effect, Shuffles
<1>2. ASSUME NEW p \in Pass, RunPass(p)
      PROVE  Effect
  BY <1>2, PassEffect, UploadEffect DEF RunPass
<1>3. CASE (\E kind \in RetireKinds : StartRetirement(kind)) \/ RetireNextSet \/ RetireArtifact
  BY <1>3 DEF StartRetirement, RetireNextSet, RetireArtifact, queue, history, Effect, Shuffles
<1>4. CASE RetireRows
  <2>1. UNCHANGED <<everQueued, delivered, receipted>> /\ artifact[ret.at] = "gone"
        /\ ret.at \in PreparedSet
    BY <1>4 DEF RetireRows, history, QueueInv, TypeInv, TypeOK, Retirement
  <2>2. CASE Deletable(ret.at)
    <3>1. Leaves(ret.at)
      BY <1>4, <2>1, <2>2 DEF RetireRows, Leaves, Deletable
    <3> QED BY <2>1, <3>1 DEF Effect
  <2>3. CASE ~Deletable(ret.at)
    <3>1. \A j \in Job : row'[j] = row[j]
      BY <1>4, <2>3 DEF RetireRows
    <3> QED BY <2>1, <3>1 DEF Effect, Shuffles
  <2> QED BY <2>2, <2>3
<1>5. CASE Environment
  <2>1. UNCHANGED <<everQueued, delivered, receipted>>
    BY <1>5 DEF Environment, PrepareSet, BecomeDue, LeaseLapses, CrashPass, AbortPass,
                CrashRetirement, Pause, Resume, InspectQueue, history
  <2>2. ASSUME NEW j \in Job, BecomeDue(j) \/ LeaseLapses(j)
        PROVE  Shuffles
    BY <2>1, <2>2 DEF BecomeDue, LeaseLapses, Shuffles, OpenState, QueueInv, TypeInv, TypeOK, Row
  <2>3. CASE InspectQueue
    <3>1. \A j \in Job : row'[j] # row[j] => row[j].state = "in_flight" /\ row'[j].state = "retryable"
      BY <2>3 DEF InspectQueue, RecoveredRows, Released, QueueInv, TypeInv, TypeOK, Row
    <3> QED BY <2>1, <3>1 DEF Effect, Shuffles, OpenState, Waiting
  <2>4. CASE \/ \E s \in PreparedSet : PrepareSet(s)
             \/ \E p \in Pass : CrashPass(p) \/ AbortPass(p)
             \/ CrashRetirement \/ Pause \/ Resume
    <3>1. UNCHANGED row
      BY <2>4 DEF PrepareSet, CrashPass, AbortPass, CrashRetirement, Pause, Resume, queue
    <3> QED BY <2>1, <3>1 DEF Effect, Shuffles
  <2> QED BY <1>5, <2>2, <2>3, <2>4 DEF Environment, Effect
<1>6. CASE UNCHANGED vars
  BY <1>6 DEF vars, queue, history, Effect, Shuffles
<1> QED BY <1>1, <1>2, <1>3, <1>4, <1>5, <1>6 DEF Next, RunRetirement

LEMMA SettledStep == QueueInv /\ Effect => SettledStays
<1> SUFFICES ASSUME QueueInv, Effect, NEW j \in Job, row[j].state \in {"accepted", "rejected"},
                    row'[j] # row[j]
             PROVE  /\ row[j].state = "accepted" /\ artifact[SetOf[j]] = "gone"
                    /\ \A i \in Rows(SetOf[j]) : row'[i] = NoRow
  BY DEF SettledStays
<1>1. ~Shuffles /\ \A i \in Job : ~Stores(i) /\ ~Enters(i) /\ ~Fails(i) /\ ~Succeeds(i)
  BY DEF Shuffles, Stores, Enters, Fails, Succeeds, OnlyRow, OpenState, Waiting
<1>2. PICK s \in PreparedSet : Leaves(s)
  BY <1>1 DEF Effect
<1>3. j \in Rows(s) /\ SetOf[j] = s
  BY <1>2 DEF Leaves, Rows
<1>4. row[j].state = "accepted"
  BY <1>2, <1>3 DEF Leaves, AcceptedSets, InactiveSets, Waiting
<1> QED BY <1>2, <1>3, <1>4 DEF Leaves, Rows

\* Recorded outcomes are final, in every interleaving of passes that lost their
\* lease, recoveries and retirements.
THEOREM OutcomesAreFinal == Spec => SettledIsFinal
<1>1. QueueInv /\ [Next]_vars => [SettledStays]_vars
  BY StepEffect, SettledStep
<1> QED BY <1>1, Invariance, PTL DEF Spec, SettledIsFinal

(***************************************************************************)
(* What accepted retirement removes.  "Accepted" is decided from the rows  *)
(* of a set that exist.  That none is missing needs that a pass claims     *)
(* only from sets whose every contribution it has enqueued, and that such  *)
(* a contribution loses its row only when the files are gone.              *)
(***************************************************************************)
SetIsKnown(s) == \A i \in Job : SetOf[i] = s => i \in everQueued

Sending == {"select"} \cup Uploading

PassesEnqueueSets ==
  \A p \in Pass :
    /\ pc[p] \notin {"idle", "discover"} =>
         \A i \in Job : SetOf[i] \in local[p].sets => i \in local[p].load \cup everQueued
    /\ pc[p] \in Sending => local[p].load = {}

TriedState == {"in_flight", "retryable", "accepted", "rejected"}

TriedSetsAreKnown == \A j \in Job : row[j].state \in TriedState => SetIsKnown(SetOf[j])

AcceptedIsDelivered == \A j \in Job : row[j].state = "accepted" => j \in delivered

\* Of a set that is being retired, nothing that is not delivered is there to lose.
NothingToLose(s) == artifact[s] = "gone" \/ \A i \in Job : SetOf[i] = s => i \in delivered

RetirementIsSafe ==
  ret.kind = "accepted" =>
    /\ \A c \in ret.todo : NothingToLose(c[2])
    /\ ret.at # NoSet => NothingToLose(ret.at)

SetInv == PassesEnqueueSets /\ TriedSetsAreKnown /\ AcceptedIsDelivered /\ RetirementIsSafe

\* What a step may do to the sets a pass has discovered and to what it still
\* has to enqueue of them.
PassEvolves(q) ==
  \/ pc'[q] \in {"idle", "discover"}
  \/ /\ pc[q] \notin {"idle", "discover"}
     /\ local'[q].sets = local[q].sets /\ local'[q].load = local[q].load
     /\ pc'[q] \in Sending => pc[q] \in Sending \/ local[q].load = {}
  \/ /\ pc'[q] = "enqueue"
     /\ \A i \in Job : SetOf[i] \in local'[q].sets => i \in local'[q].load
  \/ /\ pc[q] = "insert" /\ pc'[q] = "enqueue"
     /\ local'[q].sets = local[q].sets /\ local'[q].load = local[q].load \ {job[q]}
     /\ job[q] \in everQueued'

LEMMA PassStands ==
  ASSUME NEW q \in Pass, pc'[q] = pc[q], local'[q] = local[q]
  PROVE  PassEvolves(q)
BY DEF PassEvolves

\* How a pass changes its own local variables.
LEMMA LocalFields ==
  ASSUME NEW l \in Local
  PROVE  /\ \A C, n : LET m == [l EXCEPT !.cands = C, !.stamp = n]
                     IN  m.sets = l.sets /\ m.load = l.load
         /\ \A C : LET m == [l EXCEPT !.cands = C] IN m.sets = l.sets /\ m.load = l.load
         /\ \A n : LET m == [l EXCEPT !.reserved = n] IN m.sets = l.sets /\ m.load = l.load
         /\ LET m == [l EXCEPT !.aborted = TRUE] IN m.sets = l.sets /\ m.load = l.load
         /\ \A J : LET m == [l EXCEPT !.load = J] IN m.sets = l.sets /\ m.load = J
         /\ \A s, n, J : LET m == [l EXCEPT !.sets = s, !.stamp = n, !.load = J]
                        IN  m.sets = s /\ m.load = J
BY DEF Local

LEMMA EnqueueEvolves ==
  ASSUME QueueInv, NEW p \in Pass, Discover(p) \/ Enqueue(p), NEW q \in Pass
  PROVE  PassEvolves(q)
<1>0. pc \in [Pass -> PassPC] /\ local \in [Pass -> Local] /\ job \in [Pass -> Job \cup {NoJob}]
  BY DEF QueueInv, TypeInv, TypeOK
<1>1. CASE q # p
  <2>1. pc'[q] = pc[q] /\ local'[q] = local[q]
    BY <1>0, <1>1 DEF Discover, Enqueue, VerifySet, VerifyFails, OpenQueue, LoadEntry, LoadEntryFails,
                      InsertRow, InsertAtLimit, ReturnEarly, SelectReady, EndPass
  <2> QED BY <2>1, PassStands
<1>2. CASE q = p
  <2>1. CASE \/ \E s \in PreparedSet : VerifySet(p, s) \/ VerifyFails(p, s)
             \/ \E j \in Job : LoadEntryFails(p, j)
             \/ InsertAtLimit(p) \/ ReturnEarly(p)
    BY <1>0, <1>2, <2>1 DEF VerifySet, VerifyFails, LoadEntryFails, InsertAtLimit, ReturnEarly,
                            EndPass, PassEvolves
  <2>2. CASE OpenQueue(p)
    <3>1. pc'[p] = "enqueue"
      BY <1>0, <2>2 DEF OpenQueue
    <3> DEFINE sets == local[p].sets \cap local[p].target.enqueue
               load == {j \in Job : SetOf[j] \in sets}
    <3>2. local' = [local EXCEPT ![p] = [@ EXCEPT !.sets = sets, !.stamp = tick, !.load = load]]
      BY <2>2 DEF OpenQueue
    <3> HIDE DEF sets, load
    <3>3. local'[p].sets = sets /\ local'[p].load = load
      BY <1>0, <3>2, LocalFields
    <3> USE DEF load
    <3> QED BY <1>2, <3>1, <3>3 DEF PassEvolves
  <2>3. CASE \E j \in Job : LoadEntry(p, j)
    BY <1>0, <1>2, <2>3 DEF LoadEntry, PassEvolves, Sending, Uploading
  <2>4. CASE InsertRow(p)
    <3>1. pc[p] = "insert" /\ pc'[p] = "enqueue" /\ job[p] \in Job
      BY <1>0, <2>4 DEF InsertRow, QueueInv, TypeInv, JobInHand
    <3>2. local'[p].sets = local[p].sets /\ local'[p].load = local[p].load \ {job[p]}
      BY <1>0, <2>4, LocalFields DEF InsertRow
    <3>3. job[p] \in everQueued'
      BY <2>4, <3>1 DEF InsertRow, QueueInv, RowInv, RowsAreKnown
    <3> QED BY <1>2, <3>1, <3>2, <3>3 DEF PassEvolves
  <2>5. CASE SelectReady(p)
    <3>1. pc[p] = "enqueue" /\ local[p].load = {}
      BY <2>5 DEF SelectReady
    <3>2. local'[p].sets = local[p].sets /\ local'[p].load = local[p].load
      BY <1>0, <2>5, LocalFields DEF SelectReady
    <3> QED BY <1>2, <3>1, <3>2 DEF PassEvolves
  <2> QED BY <2>1, <2>2, <2>3, <2>4, <2>5 DEF Discover, Enqueue
<1> QED BY <1>1, <1>2

LEMMA SendingEvolves ==
  ASSUME QueueInv, NEW p \in Pass, Deliver(p) \/ Upload(p), NEW q \in Pass
  PROVE  PassEvolves(q)
<1>0. pc \in [Pass -> PassPC] /\ local \in [Pass -> Local]
  BY DEF QueueInv, TypeInv, TypeOK
<1>1. /\ pc[p] \in Sending
      /\ \/ EndPass(p)
         \/ /\ pc' \in {pc} \cup {[pc EXCEPT ![p] = s] : s \in Sending}
            /\ \/ UNCHANGED local \/ Reserve(p)
               \/ \E C : local' = [local EXCEPT ![p].cands = C]
  <2>1. CASE Deliver(p)
    BY <2>1 DEF Deliver, FinishPass, BandwidthStop, SkipCandidate, Claim, Sending, Uploading
  <2>2. CASE Upload(p)
    BY <2>2 DEF Upload, EntryChanged, LoadAndFetchKey, LoadFails, FetchKeyFails, Authorize,
                AuthorizeFails, ServiceStores, SendFails, ReceiptArrives, ReceiptLost, FinishFailed,
                FinishAccepted, NextTurn, Sending, Uploading
  <2> QED BY <2>1, <2>2
<1>2. CASE q # p
  <2>1. pc'[q] = pc[q] /\ local'[q] = local[q]
    BY <1>0, <1>1, <1>2 DEF EndPass, Reserve
  <2> QED BY <2>1, PassStands
<1>3. CASE q = p /\ EndPass(p)
  BY <1>0, <1>3 DEF EndPass, PassEvolves
<1>4. CASE q = p /\ ~EndPass(p)
  <2>1. local'[p].sets = local[p].sets /\ local'[p].load = local[p].load
    <3>1. CASE UNCHANGED local
      BY <3>1
    <3>2. CASE Reserve(p)
      <4>1. PICK n : local' = [local EXCEPT ![p] = [@ EXCEPT !.reserved = n]]
        BY <1>0, <3>2 DEF Reserve
      <4> QED BY <1>0, <4>1, LocalFields
    <3>3. ASSUME NEW C, local' = [local EXCEPT ![p].cands = C]
          PROVE  local'[p].sets = local[p].sets /\ local'[p].load = local[p].load
      BY <1>0, <3>3, LocalFields
    <3> QED BY <1>1, <1>4, <3>1, <3>2, <3>3
  <2>2. pc[p] \notin {"idle", "discover"}
    BY <1>1 DEF Sending, Uploading
  <2> QED BY <1>1, <1>4, <2>1, <2>2 DEF PassEvolves
<1> QED BY <1>2, <1>3, <1>4

LEMMA StepEvolves == QueueInv /\ [Next]_vars => \A q \in Pass : PassEvolves(q)
<1> SUFFICES ASSUME QueueInv, [Next]_vars, NEW q \in Pass PROVE PassEvolves(q)
  OBVIOUS
<1>0. pc \in [Pass -> PassPC] /\ local \in [Pass -> Local]
  BY DEF QueueInv, TypeInv, TypeOK
<1>1. ASSUME NEW p \in Pass, NEW t \in Targets, StartPass(p, t)
      PROVE  PassEvolves(q)
  <2>1. CASE q = p
    BY <1>0, <1>1, <2>1 DEF StartPass, PassEvolves
  <2>2. CASE q # p
    <3>1. pc'[q] = pc[q] /\ local'[q] = local[q]
      BY <1>0, <1>1, <2>2 DEF StartPass
    <3> QED BY <3>1, PassStands
  <2> QED BY <2>1, <2>2
<1>2. ASSUME NEW p \in Pass, RunPass(p)
      PROVE  PassEvolves(q)
  BY <1>2, EnqueueEvolves, SendingEvolves DEF RunPass
<1>3. ASSUME NEW p \in Pass, CrashPass(p) \/ AbortPass(p)
      PROVE  PassEvolves(q)
  <2>1. CASE q # p
    BY <1>0, <1>3, <2>1, PassStands DEF CrashPass, AbortPass, EndPass
  <2>2. CASE q = p /\ CrashPass(p)
    BY <1>0, <2>2 DEF CrashPass, EndPass, PassEvolves
  <2>3. CASE q = p /\ AbortPass(p)
    <3>1. pc'[p] = pc[p] /\ local'[p].sets = local[p].sets /\ local'[p].load = local[p].load
      BY <1>0, <2>3, LocalFields DEF AbortPass
    <3> QED BY <2>3, <3>1 DEF PassEvolves
  <2> QED BY <1>3, <2>1, <2>2, <2>3
<1>4. CASE UNCHANGED <<pc, local>>
  BY <1>4, PassStands
<1>5. CASE \/ \E kind \in RetireKinds : StartRetirement(kind)
           \/ RunRetirement \/ UNCHANGED vars
  <2>1. (\E kind \in RetireKinds : StartRetirement(kind)) => UNCHANGED passVars
    BY DEF StartRetirement
  <2>2. RunRetirement \/ UNCHANGED vars => UNCHANGED passVars
    BY DEF RunRetirement, RetireNextSet, RetireArtifact, RetireRows, vars
  <2> QED BY <1>4, <1>5, <2>1, <2>2 DEF passVars
<1>6. CASE Environment
  BY <1>3, <1>4, <1>6 DEF Environment, PrepareSet, BecomeDue, LeaseLapses, CrashRetirement, Pause,
                          Resume, InspectQueue, passVars
<1> QED BY <1>1, <1>2, <1>5, <1>6 DEF Next

\* Histories only grow, and what is gone stays gone.
LEMMA StepGrows ==
  QueueInv /\ [Next]_vars =>
    /\ everQueued \subseteq everQueued' /\ delivered \subseteq delivered'
    /\ \A s \in PreparedSet : artifact[s] = "gone" => artifact'[s] = "gone"
<1> SUFFICES ASSUME QueueInv, [Next]_vars
             PROVE  /\ everQueued \subseteq everQueued' /\ delivered \subseteq delivered'
                    /\ \A s \in PreparedSet : artifact[s] = "gone" => artifact'[s] = "gone"
  OBVIOUS
<1>1. everQueued \subseteq everQueued' /\ delivered \subseteq delivered'
  BY StepEffect DEF Effect, Shuffles, Stores, Enters, Fails, Succeeds, Leaves
<1>2. CASE UNCHANGED artifact
  BY <1>1, <1>2
<1>3. CASE RetireArtifact \/ \E s \in PreparedSet : PrepareSet(s)
  BY <1>1, <1>3 DEF RetireArtifact, PrepareSet, QueueInv, TypeInv, TypeOK
<1>4. RetireArtifact \/ (\E s \in PreparedSet : PrepareSet(s)) \/ UNCHANGED artifact
  BY DEF Next, StartPass, RunPass, Discover, Enqueue, Deliver, Upload, VerifySet, VerifyFails,
         OpenQueue, LoadEntry, LoadEntryFails, InsertRow, InsertAtLimit, ReturnEarly, SelectReady,
         FinishPass, BandwidthStop, SkipCandidate, Claim, EntryChanged, LoadAndFetchKey, LoadFails,
         FetchKeyFails, Authorize, AuthorizeFails, ServiceStores, SendFails, ReceiptArrives,
         ReceiptLost, StartRetirement, RunRetirement, RetireNextSet, RetireRows, Environment,
         BecomeDue, LeaseLapses, CrashPass, AbortPass, CrashRetirement, Pause, Resume,
         InspectQueue, vars
<1> QED BY <1>2, <1>3, <1>4

LEMMA PassesStep ==
  QueueInv /\ PassesEnqueueSets /\ [Next]_vars => PassesEnqueueSets'
<1> SUFFICES ASSUME QueueInv, PassesEnqueueSets, [Next]_vars, NEW q \in Pass
             PROVE  /\ pc'[q] \notin {"idle", "discover"} =>
                         \A i \in Job : SetOf[i] \in local'[q].sets
                                         => i \in local'[q].load \cup everQueued'
                    /\ pc'[q] \in Sending => local'[q].load = {}
  BY DEF PassesEnqueueSets
<1> QED BY StepEvolves, StepGrows DEF PassesEnqueueSets, PassEvolves, Sending, Uploading

\* A row is tried only by a pass that has enqueued its set.
Tries(j) ==
  row'[j].state \in TriedState =>
    \/ row[j].state \in TriedState
    \/ \E p \in Pass : pc[p] \in Sending /\ SetOf[j] \in local[p].sets

LEMMA StepTries == QueueInv /\ [Next]_vars => \A j \in Job : Tries(j)
<1> SUFFICES ASSUME QueueInv, [Next]_vars, NEW j \in Job PROVE Tries(j)
  OBVIOUS
<1>0. row \in [Job -> Row] /\ pc \in [Pass -> PassPC]
  BY DEF QueueInv, TypeInv, TypeOK
<1>1. CASE row'[j].state = row[j].state \/ row[j].state = "in_flight" \/ row'[j] = NoRow
  BY <1>1 DEF Tries, TriedState, NoRow
<1>2. ASSUME NEW p \in Pass, Discover(p) \/ Enqueue(p)
      PROVE  Tries(j)
  <2>1. CASE InsertRow(p)
    <3>1. job[p] \in Job /\ NewRow(local[p].stamp).state = "pending"
      BY <2>1, NewRowType DEF InsertRow, QueueInv, TypeInv, TypeOK, JobInHand, Local
    <3> QED BY <1>0, <2>1, <3>1 DEF InsertRow, Tries, TriedState
  <2>2. CASE OpenQueue(p)
    BY <1>0, <1>1, <2>2 DEF OpenQueue, RecoveredRows
  <2>3. CASE UNCHANGED queue
    BY <1>1, <2>3 DEF queue
  <2> QED BY <1>2, <2>1, <2>2, <2>3
          DEF Discover, Enqueue, VerifySet, VerifyFails, LoadEntry, LoadEntryFails, InsertAtLimit,
              ReturnEarly, SelectReady
<1>3. ASSUME NEW p \in Pass, Deliver(p)
      PROVE  Tries(j)
  <2>1. ASSUME NEW c \in local[p].cands, Claim(p, c)
        PROVE  Tries(j)
    <3>1. /\ c[2] \in Job /\ row' = [row EXCEPT ![c[2]] = Leased(@, p)]
          /\ pc[p] \in Sending /\ SetOf[c[2]] \in local[p].sets
      BY <2>1 DEF Claim, Sending, QueueInv, TypeInv, TypeOK, Local
    <3> QED BY <1>0, <3>1 DEF Tries
  <2>2. CASE UNCHANGED queue
    BY <1>1, <2>2 DEF queue
  <2> QED BY <1>3, <2>1, <2>2 DEF Deliver, FinishPass, BandwidthStop, SkipCandidate
<1>4. ASSUME NEW p \in Pass, Upload(p)
      PROVE  Tries(j)
  <2>1. \/ UNCHANGED row
        \/ /\ row[job[p]].state = "in_flight" /\ pc[p] \in Uploading
           /\ \E r : row' = [row EXCEPT ![job[p]] = r]
    BY <1>4 DEF Upload, EntryChanged, LoadAndFetchKey, LoadFails, FetchKeyFails, Authorize,
                AuthorizeFails, ServiceStores, SendFails, ReceiptArrives, ReceiptLost, FinishFailed,
                FinishAccepted, Holds, Uploading, queue
  <2> QED BY <1>0, <1>1, <2>1
<1>5. CASE RunRetirement \/ (\E kind \in RetireKinds : StartRetirement(kind))
  <2>0. (\E kind \in RetireKinds : StartRetirement(kind)) => UNCHANGED row
    BY DEF StartRetirement, queue
  <2>1. UNCHANGED row \/ RetireRows
    BY <1>5, <2>0 DEF RunRetirement, RetireNextSet, RetireArtifact, queue
  <2>2. ASSUME RetireRows
        PROVE  row'[j] = NoRow \/ row'[j] = row[j]
    BY <2>2 DEF RetireRows
  <2> QED BY <1>1, <2>1, <2>2
<1>6. CASE Environment
  <2>1. ASSUME NEW i \in Job, BecomeDue(i) \/ LeaseLapses(i)
        PROVE  Tries(j)
    <3>1. row'[j].state = row[j].state
      BY <1>0, <2>1 DEF BecomeDue, LeaseLapses, Row
    <3> QED BY <1>1, <3>1
  <2>2. CASE InspectQueue
    BY <1>0, <1>1, <2>2 DEF InspectQueue, RecoveredRows
  <2>3. CASE UNCHANGED row
    BY <1>1, <2>3
  <2> QED BY <1>6, <2>1, <2>2, <2>3 DEF Environment, PrepareSet, CrashPass, AbortPass,
                                        CrashRetirement, Pause, Resume, queue
<1>7. CASE UNCHANGED row
  BY <1>1, <1>7
<1> QED BY <1>2, <1>3, <1>4, <1>5, <1>6, <1>7 DEF Next, RunPass, StartPass, vars, queue

LEMMA RowsOfSetsStep ==
  QueueInv /\ SetInv /\ [Next]_vars => TriedSetsAreKnown' /\ AcceptedIsDelivered'
<1> SUFFICES ASSUME QueueInv, SetInv, [Next]_vars
             PROVE  TriedSetsAreKnown' /\ AcceptedIsDelivered'
  OBVIOUS
<1>1. ASSUME NEW j \in Job, row'[j].state \in TriedState
      PROVE  SetIsKnown(SetOf[j])'
  <2>1. SetIsKnown(SetOf[j])
    BY <1>1, StepTries
       DEF Tries, SetInv, TriedSetsAreKnown, PassesEnqueueSets, SetIsKnown, Sending, Uploading
  <2> QED BY <2>1, StepGrows DEF SetIsKnown
<1>2. ASSUME NEW j \in Job, row'[j].state = "accepted"
      PROVE  j \in delivered'
  <2>1. Effect
    BY StepEffect
  <2>2. row[j].state = "accepted" \/ Succeeds(j)
    BY <1>2, <2>1 DEF Effect, Shuffles, Stores, Enters, Fails, Succeeds, Leaves, OnlyRow, OpenState,
                      Waiting, NoRow
  <2> QED BY <2>2, StepGrows DEF Succeeds, SetInv, AcceptedIsDelivered
<1> QED BY <1>1, <1>2 DEF TriedSetsAreKnown, AcceptedIsDelivered

\* A set whose rows are all accepted has nothing to lose.
LEMMA AcceptedHasNothingToLose ==
  ASSUME QueueInv, SetInv, NEW s \in AcceptedSets, NEW j \in Rows(s)
  PROVE  NothingToLose(s)
<1>1. row[j].state = "accepted" /\ SetOf[j] = s /\ j \in Job
  BY DEF AcceptedSets, Rows
<1>2. SetIsKnown(s)
  BY <1>1 DEF SetInv, TriedSetsAreKnown, TriedState
<1>3. ASSUME NEW i \in Job, SetOf[i] = s, artifact[s] # "gone"
      PROVE  i \in delivered
  <2>1. row[i].state # "none"
    BY <1>2, <1>3 DEF SetIsKnown, QueueInv, RowInv, DedupeRowsOutliveFiles
  <2>2. row[i].state = "accepted"
    BY <1>3, <2>1 DEF AcceptedSets, Rows
  <2> QED BY <2>2 DEF SetInv, AcceptedIsDelivered
<1> QED BY <1>3 DEF NothingToLose

LEMMA RetirementStep ==
  QueueInv /\ SetInv /\ [Next]_vars => RetirementIsSafe'
<1> SUFFICES ASSUME QueueInv, SetInv, [Next]_vars
             PROVE  RetirementIsSafe'
  OBVIOUS
<1>0. ret \in Retirement
  BY DEF QueueInv, TypeInv, TypeOK
<1>1. \A s \in PreparedSet : NothingToLose(s) => NothingToLose(s)'
  BY StepGrows DEF NothingToLose
<1>2. ret.kind = "accepted" =>
        /\ \A c \in ret.todo : NothingToLose(c[2])'
        /\ ret.at # NoSet => ret.at \in PreparedSet
        /\ \A s \in PreparedSet : s = ret.at => NothingToLose(s)'
  <2>1. /\ \A c \in ret.todo : c[2] \in PreparedSet
        /\ ret.at # NoSet => ret.at \in PreparedSet
    BY <1>0 DEF Retirement
  <2>2. ASSUME ret.kind = "accepted", NEW c \in ret.todo
        PROVE  NothingToLose(c[2])'
    <3>1. NothingToLose(c[2])
      BY <2>2 DEF SetInv, RetirementIsSafe
    <3> QED BY <1>1, <2>1, <3>1
  <2>3. ASSUME ret.kind = "accepted", NEW s \in PreparedSet, s = ret.at
        PROVE  NothingToLose(s)'
    <3>1. NothingToLose(s)
      BY <2>3, QueueConstants DEF SetInv, RetirementIsSafe
    <3> QED BY <1>1, <3>1
  <2> QED BY <2>1, <2>2, <2>3
<1>3. CASE \E kind \in RetireKinds : StartRetirement(kind)
  <2>0. PICK kind \in RetireKinds : StartRetirement(kind)
    BY <1>3
  <2>1. PICK C : /\ kind = "accepted" => C \in AcceptedCandidates
                 /\ ret' = [NoRetirement EXCEPT !.kind = kind, !.todo = C]
    <3>1. CASE kind = "accepted"
      BY <2>0, <3>1 DEF StartRetirement
    <3>2. CASE kind # "accepted"
      BY <2>0, <3>2 DEF StartRetirement
    <3> QED BY <3>1, <3>2
  <2>2. ret'.kind = kind /\ ret'.todo = C /\ ret'.at = NoSet
    BY <2>1 DEF NoRetirement
  <2>3. ASSUME kind = "accepted", NEW c \in C
        PROVE  NothingToLose(c[2])'
    <3>1. c \in SetTuples(AcceptedSets \ Protected)
      BY <2>1, <2>3 DEF AcceptedCandidates
    <3>2. PICK j \in Job : /\ row[j].state # "none" /\ SetOf[j] \in AcceptedSets
                           /\ c[2] = SetOf[j]
      BY <3>1 DEF SetTuples
    <3>3. j \in Rows(SetOf[j]) /\ SetOf[j] \in PreparedSet
      BY <3>2, QueueConstants DEF Rows
    <3> QED BY <1>1, <3>2, <3>3, AcceptedHasNothingToLose
  <2> QED BY <2>2, <2>3 DEF RetirementIsSafe
<1>4. CASE RetireNextSet
  <2>1. PICK c \in ret.todo : ret' = [ret EXCEPT !.todo = @ \ {c}, !.at = c[2], !.total = c[3]]
    <3>1. First(ret.todo) \subseteq ret.todo
      BY DEF First
    <3>2. CASE ret.kind = "superseded"
      BY <1>4, <3>1, <3>2 DEF RetireNextSet
    <3>3. CASE ret.kind # "superseded"
      BY <1>4, <3>3 DEF RetireNextSet
    <3> QED BY <3>2, <3>3
  <2>2. ret'.kind = ret.kind /\ ret'.todo = ret.todo \ {c} /\ ret'.at = c[2]
    BY <1>0, <2>1 DEF Retirement
  <2> QED BY <1>2, <2>2 DEF RetirementIsSafe
<1>5. CASE RetireRows
  <2>1. ret' = NoRetirement \/ ret' = [ret EXCEPT !.at = NoSet, !.total = 0]
    BY <1>5 DEF RetireRows
  <2>2. CASE ret' = NoRetirement
    BY <2>2 DEF NoRetirement, RetirementIsSafe
  <2>3. CASE ret' = [ret EXCEPT !.at = NoSet, !.total = 0]
    <3>1. ret'.kind = ret.kind /\ ret'.todo = ret.todo /\ ret'.at = NoSet
      BY <1>0, <2>3 DEF Retirement
    <3> QED BY <1>2, <3>1 DEF RetirementIsSafe
  <2> QED BY <2>1, <2>2, <2>3
<1>6. CASE CrashRetirement
  BY <1>6 DEF CrashRetirement, NoRetirement, RetirementIsSafe
<1>7. CASE UNCHANGED ret
  BY <1>2, <1>7 DEF RetirementIsSafe
<1>8. CASE RetireArtifact \/ \E p \in Pass : (\E t \in Targets : StartPass(p, t)) \/ RunPass(p)
  BY <1>7, <1>8
     DEF RetireArtifact, StartPass, RunPass, Discover, Enqueue, Deliver, Upload, VerifySet,
         VerifyFails, OpenQueue, LoadEntry, LoadEntryFails, InsertRow, InsertAtLimit, ReturnEarly,
         SelectReady, FinishPass, BandwidthStop, SkipCandidate, Claim, EntryChanged,
         LoadAndFetchKey, LoadFails, FetchKeyFails, Authorize, AuthorizeFails, ServiceStores,
         SendFails, ReceiptArrives, ReceiptLost
<1>9. CASE Environment
  BY <1>6, <1>7, <1>9 DEF Environment, PrepareSet, BecomeDue, LeaseLapses, CrashPass, AbortPass,
                          Pause, Resume, InspectQueue
<1> QED BY <1>3, <1>4, <1>5, <1>7, <1>8, <1>9 DEF Next, RunRetirement, vars

LEMMA InitSetInv == Init => SetInv
BY DEF Init, SetInv, PassesEnqueueSets, TriedSetsAreKnown, AcceptedIsDelivered, RetirementIsSafe,
       NoRow, NoRetirement, TriedState, Sending, Uploading

\* Accepted retirement removes nothing that the service has not stored, whatever
\* part of a set a job limit, a crash or another retirement left without rows.
THEOREM RetirementLosesNothing == Spec => []AcceptedRetirementLosesNothing
<1>1. QueueInv /\ SetInv /\ [Next]_vars => SetInv'
  BY PassesStep, RowsOfSetsStep, RetirementStep DEF SetInv
<1>2. SetInv => AcceptedRetirementLosesNothing
  BY DEF SetInv, RetirementIsSafe, NothingToLose, AcceptedRetirementLosesNothing
<1> QED BY <1>1, <1>2, InitSetInv, Invariance, PTL DEF Spec

(***************************************************************************)
(* Leases.                                                                 *)
(***************************************************************************)
HeldInFlight == \A j \in Job : row[j].holder # NoPass => row[j].state = "in_flight"

\* What a step may do to the lease of a row: keep it, recover it, grant one, or
\* end it by the pass that has the job in hand.
LeaseEffect(j) ==
  \/ row'[j].holder = row[j].holder /\ row'[j].state = row[j].state
  \/ row[j].lapsed /\ row'[j].holder = NoPass
  \/ row[j].state # "in_flight" /\ (row'[j].holder # NoPass => row'[j].state = "in_flight")
  \/ \E p \in Pass : row[j].holder = p /\ job[p] = j /\ job'[p] = NoJob /\ row'[j].holder = NoPass

LEMMA LeaseFields ==
  ASSUME NEW r \in Row, NEW p \in Pass, NEW st, NEW due, NEW n \in Nat
  PROVE  /\ Released(r, st, due).holder = NoPass
         /\ Leased(r, p).state = "in_flight"
         /\ NoRow.holder = NoPass /\ NewRow(n).holder = NoPass
BY DEF Released, Leased, NoRow, NewRow, Row

LEMMA RecoveryLeases ==
  ASSUME QueueInv, row' = RecoveredRows, NEW j \in Job
  PROVE  LeaseEffect(j)
<1>1. row[j] \in Row
  BY DEF QueueInv, TypeInv, TypeOK
<1>2. row'[j] = row[j] \/ (row[j].lapsed /\ row'[j] = Released(row[j], "retryable", TRUE))
  BY DEF RecoveredRows
<1> QED BY <1>1, <1>2 DEF LeaseEffect, Released, Row

\* Recording an outcome ends the lease of the pass that records it.
LEMMA OutcomeLeases ==
  ASSUME QueueInv, NEW p \in Pass, NEW st, NEW due, pc[p] \in Uploading,
         UNCHANGED row \/ /\ Holds(p, job[p]) /\ job'[p] = NoJob
                          /\ row' = [row EXCEPT ![job[p]] = Released(row[job[p]], st, due)],
         NEW j \in Job
  PROVE  LeaseEffect(j)
<1>1. row \in [Job -> Row] /\ job[p] \in Job
  BY DEF QueueInv, TypeInv, TypeOK, JobInHand
<1>2. CASE UNCHANGED row \/ j # job[p]
  BY <1>1, <1>2 DEF LeaseEffect
<1>3. CASE ~UNCHANGED row /\ j = job[p]
  <2>1. row'[j] = Released(row[j], st, due) /\ row[j].holder = p /\ job'[p] = NoJob
    BY <1>1, <1>3 DEF Holds
  <2>2. row'[j].holder = NoPass
    BY <1>1, <2>1 DEF Released, Row
  <2> QED BY <1>3, <2>1, <2>2 DEF LeaseEffect
<1> QED BY <1>2, <1>3

LEMMA FailedLeases ==
  ASSUME QueueInv, NEW p \in Pass, NEW e, NEW answered, NEW request,
         pc[p] \in Uploading, FinishFailed(p, e, answered, request), NEW j \in Job
  PROVE  LeaseEffect(j)
<1>1. job \in [Pass -> Job \cup {NoJob}]
  BY DEF QueueInv, TypeInv, TypeOK
<1>2. UNCHANGED row \/ /\ Holds(p, job[p]) /\ job'[p] = NoJob
                       /\ row' = [row EXCEPT ![job[p]] = FailedRow(p, e)]
  BY <1>1 DEF FinishFailed, EndPass, NextTurn
<1> QED BY <1>2, OutcomeLeases DEF FailedRow

LEMMA UploadLeases ==
  ASSUME QueueInv, NEW p \in Pass, Upload(p), NEW j \in Job
  PROVE  LeaseEffect(j)
<1>0. job \in [Pass -> Job \cup {NoJob}]
  BY DEF QueueInv, TypeInv, TypeOK
<1>1. CASE EntryChanged(p)
  <2>1. pc[p] \in Uploading
    BY <1>1 DEF EntryChanged, Uploading
  <2>2. UNCHANGED row \/ /\ Holds(p, job[p]) /\ job'[p] = NoJob
                         /\ row' = [row EXCEPT ![job[p]] = Released(row[job[p]], "rejected", FALSE)]
    BY <1>0, <1>1 DEF EntryChanged, NextTurn
  <2> QED BY <2>1, <2>2, OutcomeLeases
<1>2. CASE LoadAndFetchKey(p) \/ Authorize(p) \/ ServiceStores(p)
  BY <1>2 DEF LoadAndFetchKey, Authorize, ServiceStores, queue, LeaseEffect
<1>3. CASE LoadFails(p)
  BY <1>3, FailedLeases DEF LoadFails, Uploading
<1>4. ASSUME NEW e \in ServiceErrors,
             FetchKeyFails(p, e) \/ AuthorizeFails(p, e) \/ SendFails(p, e) \/ ReceiptLost(p, e)
      PROVE  LeaseEffect(j)
  BY <1>4, FailedLeases DEF FetchKeyFails, AuthorizeFails, SendFails, ReceiptLost, Uploading
<1>5. CASE ReceiptArrives(p)
  <2>1. pc[p] \in Uploading
    BY <1>5 DEF ReceiptArrives, Uploading
  <2>2. UNCHANGED row \/ /\ Holds(p, job[p]) /\ job'[p] = NoJob
                         /\ row' = [row EXCEPT ![job[p]] = Released(row[job[p]], "accepted", FALSE)]
    BY <1>0, <1>5 DEF ReceiptArrives, FinishAccepted, NextTurn
  <2> QED BY <2>1, <2>2, OutcomeLeases
<1> QED BY <1>1, <1>2, <1>3, <1>4, <1>5 DEF Upload

LEMMA PassLeases ==
  ASSUME QueueInv, NEW p \in Pass, Discover(p) \/ Enqueue(p) \/ Deliver(p), NEW j \in Job
  PROVE  LeaseEffect(j)
<1>0. row \in [Job -> Row]
  BY DEF QueueInv, TypeInv, TypeOK
<1>1. CASE \/ \E s \in PreparedSet : VerifySet(p, s) \/ VerifyFails(p, s)
           \/ \E i \in Job : LoadEntry(p, i) \/ LoadEntryFails(p, i)
           \/ InsertAtLimit(p) \/ ReturnEarly(p) \/ SelectReady(p)
           \/ FinishPass(p) \/ BandwidthStop(p) \/ SkipCandidate(p)
  <2>1. UNCHANGED queue
    BY <1>1 DEF VerifySet, VerifyFails, LoadEntry, LoadEntryFails, InsertAtLimit, ReturnEarly,
                SelectReady, FinishPass, BandwidthStop, SkipCandidate
  <2> QED BY <2>1 DEF queue, LeaseEffect
<1>2. CASE OpenQueue(p)
  BY <1>2, RecoveryLeases DEF OpenQueue
<1>3. CASE InsertRow(p)
  <2>1. job[p] \in Job /\ local[p].stamp \in Nat
    BY <1>3 DEF InsertRow, QueueInv, TypeInv, TypeOK, JobInHand, Local
  <2>2. row'[j] = row[j] \/ (row[j].state = "none" /\ row'[j] = NewRow(local[p].stamp))
    BY <1>0, <1>3, <2>1 DEF InsertRow
  <2>3. NewRow(local[p].stamp).holder = NoPass
    BY <1>0, <2>1, LeaseFields
  <2> QED BY <2>2, <2>3 DEF LeaseEffect
<1>4. ASSUME NEW c \in local[p].cands, Claim(p, c)
      PROVE  LeaseEffect(j)
  <2>1. row[c[2]].state \in Waiting /\ row' = [row EXCEPT ![c[2]] = Leased(row[c[2]], p)]
    BY <1>4 DEF Claim, Claimable, Ready
  <2>2. row'[j] = row[j] \/ (row[j].state # "in_flight" /\ row'[j].state = "in_flight")
    BY <1>0, <2>1, LeaseFields DEF Waiting
  <2> QED BY <2>2 DEF LeaseEffect
<1> QED BY <1>1, <1>2, <1>3, <1>4 DEF Discover, Enqueue, Deliver

LEMMA StepLeases == QueueInv /\ [Next]_vars => \A j \in Job : LeaseEffect(j)
<1> SUFFICES ASSUME QueueInv, [Next]_vars, NEW j \in Job PROVE LeaseEffect(j)
  OBVIOUS
<1>0. row \in [Job -> Row]
  BY DEF QueueInv, TypeInv, TypeOK
<1>1. ASSUME NEW p \in Pass, NEW t \in Targets, StartPass(p, t)
      PROVE  LeaseEffect(j)
  BY <1>1 DEF StartPass, queue, LeaseEffect
<1>2. ASSUME NEW p \in Pass, RunPass(p)
      PROVE  LeaseEffect(j)
  BY <1>2, PassLeases, UploadLeases DEF RunPass
<1>3. CASE (\E kind \in RetireKinds : StartRetirement(kind)) \/ RetireNextSet \/ RetireArtifact
  BY <1>3 DEF StartRetirement, RetireNextSet, RetireArtifact, queue, LeaseEffect
<1>4. CASE RetireRows
  <2>1. ret.at \in PreparedSet
    BY <1>4 DEF RetireRows, QueueInv, TypeInv, TypeOK, Retirement
  <2>2. row'[j] = row[j] \/ (row[j].state # "in_flight" /\ row'[j] = NoRow)
    BY <1>4, <2>1 DEF RetireRows, Deletable, AcceptedSets, InactiveSets, Waiting
  <2> QED BY <2>2 DEF LeaseEffect, NoRow
<1>5. CASE Environment
  <2>1. ASSUME NEW i \in Job, BecomeDue(i) \/ LeaseLapses(i)
        PROVE  LeaseEffect(j)
    BY <1>0, <2>1 DEF BecomeDue, LeaseLapses, LeaseEffect, Row
  <2>2. CASE InspectQueue
    BY <2>2, RecoveryLeases DEF InspectQueue
  <2>3. CASE \/ \E s \in PreparedSet : PrepareSet(s)
             \/ \E p \in Pass : CrashPass(p) \/ AbortPass(p)
             \/ CrashRetirement \/ Pause \/ Resume
    BY <2>3 DEF PrepareSet, CrashPass, AbortPass, CrashRetirement, Pause, Resume, queue,
                LeaseEffect
  <2> QED BY <1>5, <2>1, <2>2, <2>3 DEF Environment
<1>6. CASE UNCHANGED vars
  BY <1>6 DEF vars, queue, LeaseEffect
<1> QED BY <1>1, <1>2, <1>3, <1>4, <1>5, <1>6 DEF Next, RunRetirement

LEMMA HeldStep == QueueInv /\ HeldInFlight /\ [Next]_vars => HeldInFlight'
BY StepLeases DEF HeldInFlight, LeaseEffect

\* claimJob, recoverExpiredLeases and the WHERE clauses of finishAccepted and
\* finishFailed: nobody but its holder ends a lease that has not lapsed.
THEOREM LeasesAreKept == Spec => LeasesAreExclusive
<1>1. Init => HeldInFlight
  BY DEF Init, HeldInFlight, NoRow
<1>2. QueueInv /\ HeldInFlight /\ [Next]_vars =>
        [\A j \in Job, q \in Pass :
           row[j].holder = q /\ ~row[j].lapsed /\ row'[j].holder # q
             => job[q] = j /\ job'[q] = NoJob]_vars
  BY StepLeases, QueueConstants DEF HeldInFlight, LeaseEffect
<1> QED BY <1>1, <1>2, HeldStep, Invariance, PTL DEF Spec, LeasesAreExclusive

(***************************************************************************)
(* Delays past the horizon.                                                *)
(***************************************************************************)
HorizonInv == \A a \in overHorizon : Heeded(a) => paused

\* A step that leaves the pause and the record of such delays alone, and begins
\* no delivery while the queue is paused.
Indifferent ==
  /\ UNCHANGED <<paused, overHorizon>>
  /\ \A p \in Pass : pc[p] = "enqueue" /\ pc'[p] = "select" => ~paused

\* A failure that reports all the service said, or that was not about a delay
\* reported whole.
Reported(e, answered, request) == request \in {"key", "upload"} => e = answered

\* What one step does about delays past the horizon.
KeepsHorizon ==
  /\ HorizonInv'
  /\ \A p \in Pass :
       /\ pc[p] = "enqueue" /\ pc'[p] = "select" => \A a \in overHorizon : ~Heeded(a)
       /\ \A a \in HorizonAnswer :
            Told(p, a) /\ (Heeded(a) \/ a[2] = "late") => pc'[p] = "idle"

LEMMA IndifferentStep == HorizonInv /\ Indifferent => KeepsHorizon
BY DEF HorizonInv, Indifferent, KeepsHorizon, Told, Heeded

\* Under the lease a whole answer pauses the queue and ends the pass; without the
\* lease the pass ends and the pause stays as it was.
LEMMA FailedHorizon ==
  ASSUME QueueInv, HorizonInv, NEW q \in Pass, NEW e, NEW answered,
         NEW request \in {"key", "registration", "upload"},
         pc[q] \in Uploading, Reported(e, answered, request),
         FinishFailed(q, e, answered, request)
  PROVE  KeepsHorizon
<1>1. pc \in [Pass -> PassPC]
  BY DEF QueueInv, TypeInv, TypeOK
<1>2. \A p \in Pass : p # q => pc'[p] = pc[p]
  BY <1>1 DEF FinishFailed, EndPass, NextTurn
<1>3. \A p \in Pass : ~(pc[p] = "enqueue" /\ pc'[p] = "select")
  BY <1>2 DEF Uploading
<1>4. \A a \in overHorizon' \ overHorizon :
        /\ answered.over
        /\ a[2] = IF Holds(q, job[q]) THEN request ELSE "late"
  BY DEF FinishFailed, RecordAnswer
<1>5. CASE ~Holds(q, job[q])
  <2>1. paused' = paused /\ pc'[q] = "idle"
    BY <1>1, <1>5 DEF FinishFailed, EndPass
  <2>2. HorizonInv'
    BY <1>4, <1>5, <2>1 DEF HorizonInv, Heeded
  <2>3. ASSUME NEW p \in Pass, NEW a, Told(p, a)
        PROVE  pc'[p] = "idle"
    BY <1>2, <2>1, <2>3 DEF Told
  <2> QED BY <1>3, <2>2, <2>3 DEF KeepsHorizon
<1>6. CASE Holds(q, job[q])
  <2>1. /\ paused' = (paused \/ e.gone \/ e.over)
        /\ e.over => pc'[q] = "idle"
    BY <1>1, <1>6 DEF FinishFailed, EndPass
  <2>2. \A a \in overHorizon' \ overHorizon : a[2] # "late" /\ (Heeded(a) => e.over)
    BY <1>4, <1>6 DEF Heeded, Reported
  <2>3. HorizonInv'
    <3>1. ASSUME NEW a \in overHorizon', Heeded(a)
          PROVE  paused'
      BY <2>1, <2>2, <3>1 DEF HorizonInv
    <3>2. \A a : Heeded(a)' <=> Heeded(a)
      BY DEF Heeded
    <3> QED BY <3>1, <3>2 DEF HorizonInv
  <2>4. ASSUME NEW p \in Pass, NEW a, Told(p, a), Heeded(a) \/ a[2] = "late"
        PROVE  pc'[p] = "idle"
    BY <1>2, <2>1, <2>2, <2>4 DEF Told
  <2> QED BY <1>3, <2>3, <2>4 DEF KeepsHorizon
<1> QED BY <1>5, <1>6

LEMMA UploadHorizon ==
  ASSUME QueueInv, HorizonInv, NEW q \in Pass, Upload(q)
  PROVE  KeepsHorizon
<1>0. pc \in [Pass -> PassPC]
  BY DEF QueueInv, TypeInv, TypeOK
<1>1. CASE EntryChanged(q) \/ LoadAndFetchKey(q) \/ Authorize(q) \/ ServiceStores(q)
           \/ ReceiptArrives(q)
  <2>1. UNCHANGED <<paused, overHorizon>> /\ pc[q] \in Uploading
    BY <1>1 DEF EntryChanged, LoadAndFetchKey, Authorize, ServiceStores, ReceiptArrives,
                Uploading, history, queue
  <2>2. \A p \in Pass : p # q => pc'[p] = pc[p]
    BY <1>0, <1>1 DEF EntryChanged, LoadAndFetchKey, Authorize, ServiceStores, ReceiptArrives,
                      FinishAccepted, EndPass, NextTurn
  <2> QED BY <2>1, <2>2, IndifferentStep DEF Indifferent, Uploading
<1>2. CASE LoadFails(q)
  BY <1>2, FailedHorizon DEF LoadFails, Uploading, Reported
<1>3. ASSUME NEW e \in ServiceErrors, FetchKeyFails(q, e) \/ SendFails(q, e) \/ ReceiptLost(q, e)
      PROVE  KeepsHorizon
  BY <1>3, FailedHorizon DEF FetchKeyFails, SendFails, ReceiptLost, Uploading, Reported
<1>4. ASSUME NEW e \in ServiceErrors, AuthorizeFails(q, e)
      PROVE  KeepsHorizon
  BY <1>4, FailedHorizon DEF AuthorizeFails, Uploading, Reported
<1> QED BY <1>1, <1>2, <1>3, <1>4 DEF Upload

LEMMA PassHorizon ==
  ASSUME QueueInv, HorizonInv, NEW q \in Pass, Discover(q) \/ Enqueue(q) \/ Deliver(q)
  PROVE  KeepsHorizon
<1>0. pc \in [Pass -> PassPC]
  BY DEF QueueInv, TypeInv, TypeOK
<1>1. UNCHANGED <<paused, overHorizon>>
  BY DEF Discover, Enqueue, Deliver, VerifySet, VerifyFails, OpenQueue, LoadEntry,
         LoadEntryFails, InsertRow, InsertAtLimit, ReturnEarly, SelectReady, FinishPass,
         BandwidthStop, SkipCandidate, Claim, queue, history
<1>2. \A p \in Pass : p # q => pc'[p] = pc[p]
  BY <1>0 DEF Discover, Enqueue, Deliver, VerifySet, VerifyFails, OpenQueue, LoadEntry,
         LoadEntryFails, InsertRow, InsertAtLimit, ReturnEarly, SelectReady, FinishPass,
         BandwidthStop, SkipCandidate, Claim, EndPass
<1>3. pc[q] = "enqueue" /\ pc'[q] = "select" => ~paused
  BY <1>0 DEF Discover, Enqueue, Deliver, VerifySet, VerifyFails, OpenQueue, LoadEntry,
         LoadEntryFails, InsertRow, InsertAtLimit, ReturnEarly, SelectReady, FinishPass,
         BandwidthStop, SkipCandidate, Claim, EndPass
<1> QED BY <1>1, <1>2, <1>3, IndifferentStep DEF Indifferent

LEMMA StepHorizon == QueueInv /\ HorizonInv /\ [Next]_vars => KeepsHorizon
<1> SUFFICES ASSUME QueueInv, HorizonInv, [Next]_vars PROVE KeepsHorizon
  OBVIOUS
<1>0. pc \in [Pass -> PassPC]
  BY DEF QueueInv, TypeInv, TypeOK
<1>1. ASSUME NEW p \in Pass, NEW t \in Targets, StartPass(p, t)
      PROVE  KeepsHorizon
  BY <1>0, <1>1, IndifferentStep DEF StartPass, Indifferent, queue, history
<1>2. ASSUME NEW p \in Pass, RunPass(p)
      PROVE  KeepsHorizon
  BY <1>2, PassHorizon, UploadHorizon DEF RunPass
<1>3. ASSUME UNCHANGED <<paused, overHorizon>>, UNCHANGED pc
      PROVE  KeepsHorizon
  BY <1>3, IndifferentStep DEF Indifferent
<1>4. CASE (\E kind \in RetireKinds : StartRetirement(kind)) \/ RunRetirement
  BY <1>3, <1>4 DEF StartRetirement, RunRetirement, RetireNextSet, RetireArtifact, RetireRows,
                    queue, history, passVars
<1>5. CASE Environment
  <2>1. ASSUME NEW p \in Pass, CrashPass(p) \/ AbortPass(p)
        PROVE  KeepsHorizon
    <3>1. UNCHANGED <<paused, overHorizon>> /\ \A r \in Pass : pc'[r] \in {pc[r], "idle"}
      BY <1>0, <2>1 DEF CrashPass, AbortPass, EndPass, queue, history
    <3> QED BY <3>1, IndifferentStep DEF Indifferent
  <2>2. CASE \/ \E s \in PreparedSet : PrepareSet(s)
             \/ \E j \in Job : BecomeDue(j) \/ LeaseLapses(j)
             \/ CrashRetirement \/ InspectQueue
    BY <1>3, <2>2 DEF PrepareSet, BecomeDue, LeaseLapses, CrashRetirement, InspectQueue,
                      queue, history, passVars
  <2>3. CASE Pause \/ Resume
    <3>1. UNCHANGED pc
      BY <2>3 DEF Pause, Resume, passVars
    <3>2. CASE Pause
      BY <3>1, <3>2 DEF Pause, KeepsHorizon, HorizonInv, Told, history
    <3>3. CASE Resume
      BY <3>1, <3>3 DEF Resume, KeepsHorizon, HorizonInv, Told
    <3> QED BY <2>3, <3>2, <3>3
  <2> QED BY <1>5, <2>1, <2>2, <2>3 DEF Environment
<1>6. CASE UNCHANGED vars
  BY <1>3, <1>6 DEF vars, queue, history, passVars
<1> QED BY <1>1, <1>2, <1>4, <1>5, <1>6 DEF Next

\* finishFailed pauses the queue in the transaction that records the failure, and
\* every pass reads the pause before it selects.  An answer heard after the lease
\* was lost is on record too: it pauses nothing, and the pass that heard it ends.
THEOREM HorizonIsKept == Spec => HorizonKept
<1>1. Init => HorizonInv
  BY DEF Init, HorizonInv
<1>2. QueueInv /\ HorizonInv /\ [Next]_vars => HorizonInv'
  BY StepHorizon DEF KeepsHorizon
<1>3. QueueInv /\ HorizonInv /\ [Next]_vars =>
        [\A p \in Pass :
           /\ pc[p] = "enqueue" /\ pc'[p] = "select" => \A a \in overHorizon : ~Heeded(a)
           /\ \A a \in HorizonAnswer :
                Told(p, a) /\ (Heeded(a) \/ a[2] = "late") => pc'[p] = "idle"]_vars
  BY StepHorizon DEF KeepsHorizon
<1> QED BY <1>1, <1>2, <1>3, Invariance, PTL DEF Spec, HorizonKept

(***************************************************************************)
(* The queue implements the abstract outbox.                               *)
(***************************************************************************)
Phase == [j \in Job |-> PhaseOf(row[j].state)]

LEMMA Phases ==
  /\ PhaseOf("none") = "absent"
  /\ \A st \in OpenState : PhaseOf(st) = "open"
  /\ PhaseOf("accepted") = "accepted" /\ PhaseOf("rejected") = "dropped"
BY DEF PhaseOf, OpenState, Waiting

LEMMA InitOutbox == Init => Box!OutboxInit
<1> SUFFICES ASSUME Init PROVE Box!OutboxInit
  OBVIOUS
<1>1. \A j \in Job : PhaseOf(row[j].state) = "absent"
  BY Phases DEF Init, NoRow
<1> QED BY <1>1 DEF Init, Box!OutboxInit

LEMMA StepOutbox ==
  ASSUME QueueInv, Effect
  PROVE  Box!OutboxNext \/ UNCHANGED <<Phase, everQueued, delivered, receipted>>
<1>1. CASE Shuffles
  <2>1. \A j \in Job : PhaseOf(row'[j].state) = PhaseOf(row[j].state)
    BY <1>1, Phases DEF Shuffles
  <2> QED BY <1>1, <2>1 DEF Shuffles, Phase
<1>2. ASSUME NEW i \in Job, Stores(i)
      PROVE  Box!Store(i)
  BY <1>2 DEF Stores, Box!Store
<1>3. ASSUME NEW i \in Job, Enters(i)
      PROVE  Box!Put(i)
  <2>1. PhaseOf(row[i].state) = "absent" /\ PhaseOf(row'[i].state) = "open"
    BY <1>3, Phases DEF Enters, OpenState, Waiting
  <2> QED BY <1>3, <2>1 DEF Enters, OnlyRow, Box!Put
<1>4. ASSUME NEW i \in Job, Fails(i)
      PROVE  Box!Drop(i)
  <2>1. PhaseOf(row[i].state) = "open" /\ PhaseOf(row'[i].state) = "dropped"
    BY <1>4, Phases DEF Fails
  <2> QED BY <1>4, <2>1 DEF Fails, OnlyRow, Box!Drop
<1>5. ASSUME NEW i \in Job, Succeeds(i)
      PROVE  Box!Accept(i)
  <2>1. PhaseOf(row[i].state) = "open" /\ PhaseOf(row'[i].state) = "accepted"
    BY <1>5, Phases DEF Succeeds
  <2> QED BY <1>5, <2>1 DEF Succeeds, OnlyRow, Box!Accept
<1>6. ASSUME NEW s \in PreparedSet, Leaves(s)
      PROVE  Box!Forget(s)
  <2>1. \A j \in Job : row[j].state \in JobState
    BY DEF QueueInv, TypeInv, TypeOK, Row
  <2>2. \A j \in Job : PhaseOf(row[j].state) = "absent" <=> row[j].state = "none"
    BY <2>1, Phases DEF JobState, OpenState, Waiting
  <2>3. Box!Members(s) = Rows(s)
    BY <2>2 DEF Box!Members, Rows
  <2>4. \E end \in {"open", "accepted"} : \A j \in Rows(s) : PhaseOf(row[j].state) = end
    BY <1>6, Phases DEF Leaves, AcceptedSets, InactiveSets, OpenState
  <2>5. \A j \in Rows(s) : j \in Job
    BY DEF Rows
  <2>6. \A j \in Job : PhaseOf(row'[j].state)
                         = IF j \in Rows(s) THEN "absent" ELSE PhaseOf(row[j].state)
    BY <1>6, Phases DEF Leaves, NoRow
  <2> QED BY <1>6, <2>3, <2>4, <2>5, <2>6 DEF Leaves, Box!Forget
<1> QED BY <1>1, <1>2, <1>3, <1>4, <1>5, <1>6 DEF Effect, Box!OutboxNext

\* With leases, files, passes and crashes hidden, the queue is the outbox: each
\* contribution is accepted at most once, after it was stored, and for good.
THEOREM QueueImplementsOutbox == Spec => ImplementsOutbox
<1>1. QueueInv /\ [Next]_vars => [Box!OutboxNext]_(Box!outboxVars)
  BY StepEffect, StepOutbox DEF Box!outboxVars, Phase
<1> QED BY <1>1, InitOutbox, Invariance, PTL DEF Spec, ImplementsOutbox, Box!Outbox
=============================================================================
