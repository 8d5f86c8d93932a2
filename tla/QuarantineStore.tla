--------------------------- MODULE QuarantineStore ---------------------------
(***************************************************************************)
(* The two stores an accepted upload lives in, the rows of D1 and the      *)
(* objects of R2, which no transaction spans, and the three that write to  *)
(* both: the upload handlers, the scheduled reconciliation of the pending  *)
(* registrations, and the erasure of a participant.                        *)
(*                                                                         *)
(*   src/apps/worker/src/index.ts                   (the upload handlers)  *)
(*   src/apps/worker/src/device-auth.ts             (one-use authorization)*)
(*   src/apps/worker/src/quarantine-reconciliation.ts                      *)
(*   src/apps/worker/src/participant-erasure.ts, repository.ts             *)
(*   src/apps/worker/migrations/0013, 0058, ingestion-isolation 0014       *)
(*                                                                         *)
(* One step is one call of D1 or R2; a batch and its triggers are one step.*)
(* All uploads are of one participant.  They are numbered in the order of  *)
(* their registered_at, so that those older than the grace are 1 .. horizon*)
(* and a cursor is the number of an upload, 0 when there is none.          *)
(***************************************************************************)
EXTENDS Integers, FiniteSets

CONSTANTS
  Uploads,           \* how many uploads there are
  Setting,           \* what is uploaded, by whom, and what goes on meanwhile
  Pass,              \* reconciliations that may overlap
  Attempt,           \* erasures the owner asks for
  Nothing,           \* no row, no registration, no lease, no fence
  BatchLimit,        \* maximumRegistrations
  MaxTrouble         \* bound on crashes, failing calls and overlong passes

Upload == 1 .. Uploads

\* "v0" clears its registration as it is accepted, and is refused while that is
\* being deleted; "v12" must find it standing; "v1", for v1.0 and v1.1, ignores it.
Format == {"v0", "v1", "v12"}

\* The schema of the uploads, which of them carry the same records, whether the
\* participant is an accountless owner, and who takes part.
Settings == [format : Format, content : [Upload -> Upload], accountless : BOOLEAN,
             uploads : SUBSET Upload, passes : SUBSET Pass, attempts : SUBSET Attempt]

ASSUME StoreConstants ==
  /\ Uploads \in Nat \ {0} /\ BatchLimit \in Nat \ {0} /\ MaxTrouble \in Nat
  /\ Setting \subseteq Settings
  /\ IsFiniteSet(Pass) /\ IsFiniteSet(Attempt)
  /\ Nothing \notin Pass \cup Attempt /\ Nothing \notin 1 .. Uploads
  /\ Nothing # "registered" /\ "registered" \notin Pass

VARIABLES
  setting,           \* the one of Setting that a behaviour is about
  participant,       \* participants, device_credentials, the deletion tombstone
  auth,              \* device_upload_authorizations.state; "lapsed" is consuming
                     \*   with consume_lease_expires_at in the past
  receipt,           \* consumed_contribution_id
  handler,           \* the local variables of each request
  registration,      \* pending_quarantine_objects: the pass that deletes it
  objects,           \* the objects of QUARANTINE
  rows,              \* telemetry_contributions, telemetry_v1_chunks, ...
  horizon,           \* the registrations older than the grace
  recon,             \* quarantine_reconciliation_state
  pass,              \* the local variables of each reconciliation
  erasure,           \* the local variables of each erasure
  audit,             \* its admin_action_audit
  trouble            \* bookkeeping of the bound

request == <<auth, receipt, handler>>
reconciling == <<horizon, recon, pass>>
erasing == <<participant, erasure, audit>>
vars == <<setting, request, reconciling, erasing, registration, objects, rows, trouble>>

HandlerPC == {"start", "admit", "register", "put", "insert", "lookup", "drop",
              "clear", "receipt", "abandon", "ended"}
PassPC == {"idle", "acquire", "select", "look", "clear", "claim", "doubt", "assert",
           "head", "reassert", "recheck", "delete", "settle", "complete", "fail"}
ErasurePC == {"idle", "revoke", "mark", "take", "assert", "tombstone", "count", "page",
              "check", "remove", "recount", "finish", "report", "ended"}

Handlers == [pc : HandlerPC, row : Upload \cup {Nothing}, trying : BOOLEAN]
Passes   == [pc : PassPC, cutoff : 0 .. Uploads, cursor : 0 .. Uploads,
             todo : SUBSET Upload, at : 0 .. Uploads, last : 0 .. Uploads, more : BOOLEAN]
Erasures == [pc : ErasurePC, state : {"active", "deleting"}, fence : Attempt \cup {Nothing},
             counted : Nat, at : 0 .. Uploads]

StoreTypeOK ==
  /\ setting \in Setting
  /\ participant \in [state : {"active", "deleting", "gone"},
                      device : BOOLEAN, fence : Attempt \cup {Nothing}, tombstone : BOOLEAN]
  /\ auth \in [Upload -> {"unused", "consuming", "lapsed", "consumed", "revoked"}]
  /\ receipt \in [Upload -> Upload \cup {Nothing}]
  /\ handler \in [Upload -> Handlers]
  /\ registration \in [Upload -> Pass \cup {"registered", Nothing}]
  /\ objects \subseteq Upload /\ rows \subseteq Upload
  /\ horizon \in 0 .. Uploads
  /\ recon \in [running : BOOLEAN, lease : Pass \cup {Nothing}, lapsed : BOOLEAN,
                cursor : 0 .. Uploads]
  /\ pass \in [Pass -> Passes]
  /\ erasure \in [Attempt -> Erasures]
  /\ audit \in [Attempt -> {"none", "started", "stale", "finished"}]
  /\ trouble \in 0 .. MaxTrouble

Resting(pc) == [pc |-> pc, row |-> Nothing, trying |-> FALSE]
RestingErasure(pc) == [pc |-> pc, state |-> "active", fence |-> Nothing,
                       counted |-> 0, at |-> 0]
RestingPass == [pc |-> "idle", cutoff |-> 0, cursor |-> 0, todo |-> {}, at |-> 0,
                last |-> 0, more |-> FALSE]

StoreInit ==
  /\ setting \in Setting
  /\ participant = [state |-> "active", device |-> TRUE, fence |-> Nothing,
                    tombstone |-> FALSE]
  /\ auth = [u \in Upload |-> "unused"] /\ receipt = [u \in Upload |-> Nothing]
  /\ handler = [u \in Upload |-> Resting("start")]
  /\ registration = [u \in Upload |-> Nothing] /\ objects = {} /\ rows = {}
  /\ horizon = 0
  /\ recon = [running |-> FALSE, lease |-> Nothing, lapsed |-> FALSE, cursor |-> 0]
  /\ pass = [r \in Pass |-> RestingPass]
  /\ erasure = [e \in Attempt |-> RestingErasure("idle")]
  /\ audit = [e \in Attempt |-> "none"]
  /\ trouble = 0

\* A call that fails, a process that dies.
Trouble == trouble < MaxTrouble /\ trouble' = trouble + 1
Calm == UNCHANGED trouble

HandlerGoes(u, pc) == handler' = [handler EXCEPT ![u].pc = pc]
PassGoes(r, pc) == pass' = [pass EXCEPT ![r].pc = pc]
ErasureGoes(e, pc) == erasure' = [erasure EXCEPT ![e].pc = pc]

HandlerEnds(u) == handler' = [handler EXCEPT ![u] = Resting("ended")]
PassEnds(r)    == pass' = [pass EXCEPT ![r] = RestingPass]
ErasureEnds(e) == erasure' = [erasure EXCEPT ![e] = RestingErasure("ended")]

---------------------------------------------------------------------------
\* An upload: handleContribution, and the handler of the format.

\* claimDeviceUploadAuthorization
Claim(u) ==
  /\ handler[u].pc = "start" /\ auth[u] = "unused" /\ u \in setting.uploads
  /\ participant.state = "active" /\ participant.device
  /\ auth' = [auth EXCEPT ![u] = "consuming"]
  /\ HandlerGoes(u, "admit") /\ Calm
  /\ UNCHANGED <<setting, reconciling, erasing, receipt, registration, objects, rows>>

\* UPLOAD_CONSUME_LEASE_MILLISECONDS pass.
Lapse(u) ==
  /\ auth[u] = "consuming"
  /\ auth' = [auth EXCEPT ![u] = "lapsed"] /\ Calm
  /\ UNCHANGED <<setting, reconciling, erasing, receipt, handler, registration, objects, rows>>

\* The retained row that holds the records of u.
Retained(u) == {v \in rows : setting.content[v] = setting.content[u]}

\* Answers with a row, or with an error.
Answers(u, v) ==
  handler' = [handler EXCEPT ![u].pc = IF v = Nothing THEN "abandon" ELSE "receipt",
                             ![u].row = v]

\* The reads of the participant and of the tombstone, then all that precedes the
\* registration; v1.2 looks for retained records later.
Admit(u) ==
  /\ handler[u].pc = "admit"
  /\ \/ /\ participant.state # "active" \/ participant.tombstone
        /\ Answers(u, Nothing)
     \/ /\ participant.state = "active" /\ ~participant.tombstone /\ setting.format # "v12"
        /\ \E v \in Retained(u) : Answers(u, v)
     \/ /\ participant.state = "active" /\ ~participant.tombstone
        /\ setting.format # "v12" => Retained(u) = {}
        /\ \A v \in 1 .. u - 1 : handler[v].pc \notin {"start", "admit"}
        /\ HandlerGoes(u, "register")
  /\ Calm /\ UNCHANGED <<setting, reconciling, erasing, auth, receipt, registration, objects, rows>>

\* registerPendingQuarantineObject, and the put: putTrackedQuarantineObject.
Register(u) ==
  /\ handler[u].pc = "register"
  /\ registration' = [registration EXCEPT ![u] = "registered"]
  /\ HandlerGoes(u, "put") /\ Calm
  /\ UNCHANGED <<setting, reconciling, erasing, auth, receipt, objects, rows>>

Put(u) ==
  /\ handler[u].pc = "put"
  /\ objects' = objects \cup {u}
  /\ HandlerGoes(u, "insert") /\ Calm
  /\ UNCHANGED <<setting, reconciling, erasing, auth, receipt, registration, rows>>

\* Either of them fails; the object may be there all the same.
PutFails(u) ==
  /\ Trouble
  /\ \/ handler[u].pc = "register" /\ UNCHANGED objects
     \/ handler[u].pc = "put" /\ objects' \in {objects, objects \cup {u}}
  /\ Answers(u, Nothing)
  /\ UNCHANGED <<setting, reconciling, erasing, auth, receipt, registration, rows>>

\* The triggers of the row's table, and its unique keys.
FenceAdmits(u) ==
  CASE setting.format = "v0"  -> registration[u] \notin Pass
    [] setting.format = "v12" -> registration[u] = "registered"
    [] setting.format = "v1"  -> TRUE

Admissible(u) ==
  /\ auth[u] = "consuming" /\ participant.state = "active"
  /\ FenceAdmits(u) /\ Retained(u) = {}

\* The batch, whose triggers consume the authorization.
Accept(u) ==
  /\ rows' = rows \cup {u}
  /\ auth' = [auth EXCEPT ![u] = "consumed"]
  /\ receipt' = [receipt EXCEPT ![u] = u]
  /\ registration' = IF setting.format = "v0" /\ registration[u] = "registered"
                     THEN [registration EXCEPT ![u] = Nothing] ELSE registration

Insert(u) ==
  /\ handler[u].pc = "insert" /\ Admissible(u)
  /\ Accept(u) /\ Answers(u, u) /\ Calm
  /\ UNCHANGED <<setting, reconciling, erasing, objects>>

\* The batch fails, with or without having been committed.
InsertFails(u) ==
  /\ Trouble
  /\ handler[u].pc = "insert" /\ HandlerGoes(u, "lookup")
  /\ \/ Admissible(u) /\ Accept(u)
     \/ UNCHANGED <<auth, receipt, registration, rows>>
  /\ UNCHANGED <<setting, reconciling, erasing, objects>>

\* The row is refused; the repository may recognise the records itself.
InsertRefused(u) ==
  /\ handler[u].pc = "insert" /\ ~Admissible(u)
  /\ \/ HandlerGoes(u, "lookup")
     \/ /\ setting.format # "v0"
        /\ \E v \in Retained(u) :
             handler' = [handler EXCEPT ![u] = [pc |-> "drop", row |-> v, trying |-> TRUE]]
  /\ Calm
  /\ UNCHANGED <<setting, reconciling, erasing, auth, receipt, registration, objects, rows>>

Drops(u, v) == handler' = [handler EXCEPT ![u] = [pc |-> "drop", row |-> v, trying |-> FALSE]]

\* Mutant: whoever fails to insert has no row.
LookupNone(u) ==
  /\ handler[u].pc = "lookup"
  /\ Drops(u, Nothing)
  /\ Calm /\ UNCHANGED <<setting, reconciling, erasing, auth, receipt, registration, objects, rows>>

\* Mutant: a retained row is acknowledged under the id of this request.
LookupOwnId(u) ==
  /\ handler[u].pc = "lookup"
  /\ \/ Retained(u) = {} /\ Drops(u, Nothing)
     \/ Retained(u) # {} /\ Answers(u, u)
  /\ Calm /\ UNCHANGED <<setting, reconciling, erasing, auth, receipt, registration, objects, rows>>

\* The catch clause: whose row holds the records decides what is cleaned up.
Lookup(u) ==
  /\ handler[u].pc = "lookup"
  /\ \/ Retained(u) = {} /\ Drops(u, Nothing)
     \/ \E v \in Retained(u) :
          \/ (v = u \/ setting.format # "v12") /\ Answers(u, v)
          \/ v # u /\ setting.format # "v0" /\ Drops(u, v)
  /\ Calm /\ UNCHANGED <<setting, reconciling, erasing, auth, receipt, registration, objects, rows>>

LookupFails(u) ==
  /\ Trouble
  /\ handler[u].pc = "lookup" /\ Answers(u, Nothing)
  /\ UNCHANGED <<setting, reconciling, erasing, auth, receipt, registration, objects, rows>>

\* The object first, clearPendingQuarantineObject after it.
Drop(u) ==
  /\ handler[u].pc = "drop"
  /\ objects' = objects \ {u}
  /\ HandlerGoes(u, "clear") /\ Calm
  /\ UNCHANGED <<setting, reconciling, erasing, auth, receipt, registration, rows>>

Clear(u) ==
  /\ handler[u].pc = "clear"
  /\ registration' = [registration EXCEPT ![u] = Nothing]
  /\ Answers(u, handler[u].row) /\ Calm
  /\ UNCHANGED <<setting, reconciling, erasing, auth, receipt, objects, rows>>

\* Inside the try a failing cleanup looks the row up again; outside it leaves
\* the rest to reconciliation.
CleanupFails(u) ==
  /\ Trouble
  /\ \/ handler[u].pc = "drop" /\ objects' \in {objects, objects \ {u}} /\ UNCHANGED registration
     \/ /\ handler[u].pc = "clear" /\ UNCHANGED objects
        /\ registration' \in {registration, [registration EXCEPT ![u] = Nothing]}
  /\ IF handler[u].trying THEN HandlerGoes(u, "lookup") ELSE Answers(u, handler[u].row)
  /\ UNCHANGED <<setting, reconciling, erasing, auth, receipt, rows>>

\* recordDeviceUploadReceipt: the authorization is consumed by the row it
\* answers with, or already is.
RecordReceipt(u) ==
  LET consumes == auth[u] = "consuming"
                    /\ (setting.accountless => participant.device)
  IN  /\ handler[u].pc = "receipt"
      /\ IF consumes
         THEN /\ auth' = [auth EXCEPT ![u] = "consumed"]
              /\ receipt' = [receipt EXCEPT ![u] = handler[u].row]
              /\ HandlerEnds(u)
         ELSE /\ IF auth[u] = "consumed" /\ receipt[u] = handler[u].row
                 THEN HandlerEnds(u) ELSE HandlerGoes(u, "abandon")
              /\ UNCHANGED <<auth, receipt>>
      /\ Calm /\ UNCHANGED <<setting, reconciling, erasing, registration, objects, rows>>

\* The heartbeat of the ingress lease finds it lost, or the envelope is refused,
\* or the receipt cannot be recorded.
HandlerFails(u) ==
  /\ Trouble
  /\ handler[u].pc \in {"admit", "receipt"} /\ HandlerGoes(u, "abandon")
  /\ UNCHANGED <<setting, reconciling, erasing, auth, receipt, registration, objects, rows>>

\* abandonDeviceUploadAuthorization
Abandon(u) ==
  /\ handler[u].pc = "abandon"
  /\ auth' = IF auth[u] \in {"consuming", "lapsed"} THEN [auth EXCEPT ![u] = "revoked"] ELSE auth
  /\ HandlerEnds(u) /\ Calm
  /\ UNCHANGED <<setting, reconciling, erasing, receipt, registration, objects, rows>>

HandlerDies(u) ==
  /\ Trouble
  /\ handler[u].pc \notin {"start", "ended"} /\ HandlerEnds(u)
  /\ UNCHANGED <<setting, reconciling, erasing, auth, receipt, registration, objects, rows>>

HandlerStep(u) ==
  \/ Admit(u) \/ Register(u) \/ Put(u) \/ Insert(u) \/ InsertRefused(u) \/ Lookup(u)
  \/ Drop(u) \/ Clear(u) \/ RecordReceipt(u) \/ Abandon(u)

HandlerTrouble(u) ==
  \/ PutFails(u) \/ InsertFails(u) \/ LookupFails(u) \/ CleanupFails(u)
  \/ HandlerFails(u) \/ HandlerDies(u)

---------------------------------------------------------------------------
\* A reconciliation: reconcilePendingQuarantineObjects.

uploading == <<setting, request, erasing>>

\* The registration of the next upload becomes older than the grace.  No put
\* lasts that long.  Neither does an authorization, on which all formats but
\* v1.2 depend: its uploads are fenced by the registration itself.
Ages ==
  LET u == horizon + 1
  IN  /\ u \in Upload
      /\ handler[u].pc \notin {"start", "admit", "register", "put"}
      /\ setting.format = "v12" \/ auth[u] # "consuming"
      /\ horizon' = u /\ Calm
      /\ UNCHANGED <<uploading, recon, pass, registration, objects, rows>>

\* readReconciliationState.  The cursor is null once a round is complete.
StartPass(r) ==
  /\ pass[r].pc = "idle" /\ r \in setting.passes
  /\ pass' = [pass EXCEPT ![r] = [RestingPass EXCEPT
                 !.pc = "acquire", !.cutoff = horizon, !.cursor = recon.cursor]]
  /\ Calm /\ UNCHANGED <<uploading, horizon, recon, registration, objects, rows>>

\* acquireReconciliationLease, the conditional UPDATE.
Acquire(r) ==
  /\ pass[r].pc = "acquire"
  /\ IF recon.running /\ ~recon.lapsed
     THEN PassEnds(r) /\ UNCHANGED recon
     ELSE /\ recon' = [running |-> TRUE, lease |-> r, lapsed |-> FALSE,
                       cursor |-> pass[r].cursor]
          /\ PassGoes(r, "select")
  /\ Calm /\ UNCHANGED <<uploading, horizon, registration, objects, rows>>

Leads(r) == recon.running /\ recon.lease = r

\* Mutant: what another pass was deleting is left to that pass.
DueRegistered(r) == {u \in Upload : /\ registration[u] = "registered"
                                    /\ pass[r].cursor < u /\ u <= pass[r].cutoff}

\* dueRegistrations, and the batch cut from it.
Due(r) == {u \in Upload : /\ registration[u] # Nothing
                          /\ pass[r].cursor < u /\ u <= pass[r].cutoff}

Least(s)    == {u \in s : \A v \in s : u <= v}
Greatest(s) == {u \in s : \A v \in s : v <= u}

Select(r) ==
  LET batch == {u \in Due(r) : Cardinality({v \in Due(r) : v < u}) < BatchLimit}
  IN  /\ pass[r].pc = "select"
      /\ \/ batch = {} /\ PassGoes(r, "complete")
         \/ \E first \in Least(batch), last \in Greatest(batch) :
              pass' = [pass EXCEPT ![r].pc = "look", ![r].todo = batch, ![r].at = first,
                                   ![r].last = last, ![r].more = batch # Due(r)]
      /\ Calm /\ UNCHANGED <<uploading, horizon, recon, registration, objects, rows>>

\* reconcileRegistration returns, and the loop goes on.
NextRegistration(r) ==
  LET rest == pass[r].todo \ {pass[r].at}
  IN  \/ rest = {} /\ PassGoes(r, "complete")
      \/ \E u \in Least(rest) :
           pass' = [pass EXCEPT ![r].pc = "look", ![r].todo = rest, ![r].at = u]

\* quarantineObjectReferenced, before the claim and again before the delete.
Look(r) ==
  /\ pass[r].pc \in {"look", "recheck"}
  /\ PassGoes(r, IF pass[r].at \in rows THEN "clear"
                 ELSE IF pass[r].pc = "look" THEN "claim" ELSE "delete")
  /\ Calm /\ UNCHANGED <<uploading, horizon, recon, registration, objects, rows>>

\* clearReconciledRegistration
ClearReconciled(r) ==
  /\ pass[r].pc = "clear"
  /\ registration' = [registration EXCEPT ![pass[r].at] = Nothing]
  /\ NextRegistration(r)
  /\ Calm /\ UNCHANGED <<uploading, horizon, recon, objects, rows>>

\* claimOrphanRegistration, its UPDATE.
ClaimOrphan(r) ==
  LET u == pass[r].at
  IN  /\ pass[r].pc = "claim"
      /\ IF registration[u] # Nothing /\ u \notin rows /\ Leads(r)
         THEN registration' = [registration EXCEPT ![u] = r] /\ PassGoes(r, "assert")
         ELSE PassGoes(r, "doubt") /\ UNCHANGED registration
      /\ Calm /\ UNCHANGED <<uploading, horizon, recon, objects, rows>>

\* Why nothing was claimed.
Doubt(r) ==
  /\ pass[r].pc = "doubt"
  /\ IF pass[r].at \in rows THEN PassGoes(r, "clear")
     ELSE IF registration[pass[r].at] = Nothing THEN NextRegistration(r)
     ELSE PassGoes(r, "fail")
  /\ Calm /\ UNCHANGED <<uploading, horizon, recon, registration, objects, rows>>

\* assertActiveReconciliationLease
AssertLease(r) ==
  /\ pass[r].pc \in {"assert", "reassert"}
  /\ PassGoes(r, IF ~Leads(r) THEN "fail"
                 ELSE IF pass[r].pc = "assert" THEN "head" ELSE "recheck")
  /\ Calm /\ UNCHANGED <<uploading, horizon, recon, registration, objects, rows>>

Head(r) ==
  /\ pass[r].pc = "head"
  /\ PassGoes(r, IF pass[r].at \in objects THEN "reassert" ELSE "settle")
  /\ Calm /\ UNCHANGED <<uploading, horizon, recon, registration, objects, rows>>

DeleteOrphan(r) ==
  /\ pass[r].pc = "delete"
  /\ objects' = objects \ {pass[r].at}
  /\ PassGoes(r, "settle")
  /\ Calm /\ UNCHANGED <<uploading, horizon, recon, registration, rows>>

Settle(r) ==
  /\ pass[r].pc = "settle"
  /\ IF registration[pass[r].at] = r
     THEN registration' = [registration EXCEPT ![pass[r].at] = Nothing] /\ NextRegistration(r)
     ELSE PassGoes(r, "fail") /\ UNCHANGED registration
  /\ Calm /\ UNCHANGED <<uploading, horizon, recon, objects, rows>>

Complete(r) ==
  /\ pass[r].pc = "complete"
  /\ IF Leads(r)
     THEN /\ recon' = [running |-> FALSE, lease |-> Nothing, lapsed |-> FALSE,
                       cursor |-> IF pass[r].more THEN pass[r].last ELSE 0]
          /\ PassEnds(r)
     ELSE PassGoes(r, "fail") /\ UNCHANGED recon
  /\ Calm /\ UNCHANGED <<uploading, horizon, registration, objects, rows>>

\* recordReconciliationFailure
FailPass(r) ==
  /\ pass[r].pc = "fail"
  /\ recon' = IF Leads(r) THEN [recon EXCEPT !.running = FALSE, !.lease = Nothing] ELSE recon
  /\ PassEnds(r)
  /\ Calm /\ UNCHANGED <<uploading, horizon, registration, objects, rows>>

\* A call of the pass fails, or the pass dies and keeps its lease.
PassFails(r) ==
  /\ Trouble
  /\ \/ pass[r].pc \notin {"idle", "acquire", "fail"} /\ PassGoes(r, "fail")
     \/ pass[r].pc # "idle" /\ PassEnds(r)
  /\ UNCHANGED <<uploading, horizon, recon, registration, objects, rows>>

PassStep(r) ==
  \/ StartPass(r) \/ Acquire(r) \/ Select(r) \/ Look(r) \/ ClearReconciled(r)
  \/ ClaimOrphan(r) \/ Doubt(r) \/ AssertLease(r) \/ Head(r) \/ DeleteOrphan(r)
  \/ Settle(r) \/ Complete(r) \/ FailPass(r)

\* QUARANTINE_RECONCILIATION_LEASE_MILLISECONDS pass, which is trouble for a
\* pass that is still running.
LeaseLapses ==
  /\ recon.running /\ ~recon.lapsed
  /\ IF pass[recon.lease].pc \in {"idle", "acquire"} THEN Calm ELSE Trouble
  /\ recon' = [recon EXCEPT !.lapsed = TRUE]
  /\ UNCHANGED <<uploading, horizon, pass, registration, objects, rows>>

---------------------------------------------------------------------------
\* An erasure: eraseParticipantAsOwner.

storing == <<setting, reconciling>>

\* beginAdminOperation, and the read that decides how to begin.
BeginErasure(e) ==
  /\ erasure[e].pc = "idle" /\ e \in setting.attempts
  /\ participant.state # "gone"
  /\ audit' = [audit EXCEPT ![e] = "started"]
  /\ erasure' = [erasure EXCEPT
       ![e].pc = IF setting.accountless /\ participant.device THEN "revoke"
                 ELSE IF participant.state = "active" THEN "mark" ELSE "take",
       ![e].state = participant.state, ![e].fence = participant.fence]
  /\ Calm /\ UNCHANGED <<storing, request, participant, registration, objects, rows>>

Revoked(states) == [u \in Upload |-> IF auth[u] \in states THEN "revoked" ELSE auth[u]]

\* revokeAccountlessEnrollment
RevokeEnrollment(e) ==
  /\ erasure[e].pc = "revoke"
  /\ participant' = [participant EXCEPT !.device = FALSE]
  /\ auth' = Revoked({"unused", "consuming", "lapsed"})
  /\ ErasureGoes(e, IF erasure[e].state = "active" THEN "mark" ELSE "take")
  /\ Calm /\ UNCHANGED <<storing, receipt, handler, audit, registration, objects, rows>>

\* markParticipantDeleting: authorizations that have lapsed are revoked whether
\* or not the participant can be marked.
Mark(e) ==
  /\ erasure[e].pc = "mark"
  /\ IF participant.state = "active" /\ \A u \in Upload : auth[u] # "consuming"
     THEN /\ participant' = [participant EXCEPT !.state = "deleting", !.fence = e, !.device = FALSE]
          /\ auth' = Revoked({"lapsed", "unused"})
          /\ ErasureGoes(e, "assert")
     ELSE /\ auth' = Revoked({"lapsed"})
          /\ ErasureGoes(e, "report") /\ UNCHANGED participant
  /\ Calm /\ UNCHANGED <<storing, receipt, handler, audit, registration, objects, rows>>

\* The fence of an attempt that failed or was abandoned.
TakeOver(e) ==
  /\ erasure[e].pc = "take"
  /\ IF /\ participant.state = "deleting" /\ participant.fence = erasure[e].fence
        /\ audit[erasure[e].fence] # "started"
     THEN participant' = [participant EXCEPT !.fence = e] /\ ErasureGoes(e, "assert")
     ELSE ErasureGoes(e, "report") /\ UNCHANGED participant
  /\ Calm /\ UNCHANGED <<storing, request, audit, registration, objects, rows>>

Owns(e) == participant.state = "deleting" /\ participant.fence = e

\* assertDeletionOwner, at the start and before each delete.
AssertOwner(e) ==
  /\ erasure[e].pc \in {"assert", "check"}
  /\ ErasureGoes(e, IF ~Owns(e) THEN "report"
                    ELSE IF erasure[e].pc = "assert" THEN "tombstone" ELSE "remove")
  /\ Calm /\ UNCHANGED <<storing, request, participant, audit, registration, objects, rows>>

\* recordDeletionTombstone
Entomb(e) ==
  /\ erasure[e].pc = "tombstone"
  /\ participant' = [participant EXCEPT !.tombstone = TRUE]
  /\ ErasureGoes(e, "count")
  /\ Calm /\ UNCHANGED <<storing, request, audit, registration, objects, rows>>

Count(e) ==
  /\ erasure[e].pc = "count"
  /\ erasure' = [erasure EXCEPT ![e].pc = "page", ![e].counted = Cardinality(rows), ![e].at = 0]
  /\ Calm /\ UNCHANGED <<storing, request, participant, audit, registration, objects, rows>>

\* The next page of keys, of one row.
Page(e) ==
  LET rest == {u \in rows : u > erasure[e].at}
  IN  /\ erasure[e].pc = "page"
      /\ \/ rest = {} /\ ErasureGoes(e, "recount")
         \/ \E u \in Least(rest) :
              erasure' = [erasure EXCEPT ![e].pc = "check", ![e].at = u]
      /\ Calm /\ UNCHANGED <<storing, request, participant, audit, registration, objects, rows>>

\* Mutant: a retry that finds objects missing believes the rest gone too.
RemoveOnlyFirst(e) ==
  /\ erasure[e].pc = "remove"
  /\ objects' = objects \ {erasure[e].at}
  /\ ErasureGoes(e, "recount")
  /\ Calm /\ UNCHANGED <<storing, request, participant, audit, registration, rows>>

Remove(e) ==
  /\ erasure[e].pc = "remove"
  /\ objects' = objects \ {erasure[e].at}
  /\ ErasureGoes(e, "page")
  /\ Calm /\ UNCHANGED <<storing, request, participant, audit, registration, rows>>

Recount(e) ==
  /\ erasure[e].pc = "recount"
  /\ ErasureGoes(e, IF Cardinality(rows) = erasure[e].counted THEN "finish" ELSE "report")
  /\ Calm /\ UNCHANGED <<storing, request, participant, audit, registration, objects, rows>>

\* finishParticipantDeletion: the rows of the participant go with it.
FinishErasure(e) ==
  /\ erasure[e].pc = "finish"
  /\ IF Owns(e)
     THEN /\ participant' = [participant EXCEPT !.state = "gone"]
          /\ rows' = {} /\ auth' = [u \in Upload |-> "revoked"]
          /\ receipt' = [u \in Upload |-> Nothing]
     ELSE UNCHANGED <<participant, rows, auth, receipt>>
  /\ ErasureGoes(e, "report")
  /\ Calm /\ UNCHANGED <<storing, handler, audit, registration, objects>>

\* finishAdminOperation
Report(e) ==
  /\ erasure[e].pc = "report"
  /\ audit' = [audit EXCEPT ![e] = "finished"]
  /\ ErasureEnds(e)
  /\ Calm /\ UNCHANGED <<storing, request, participant, registration, objects, rows>>

\* A call fails, or the attempt dies and its audit stays open.
ErasureFails(e) ==
  /\ Trouble
  /\ erasure[e].pc \notin {"idle", "ended"}
  /\ \/ erasure[e].pc # "report" /\ ErasureGoes(e, "report")
     \/ ErasureEnds(e)
  /\ UNCHANGED <<storing, request, participant, audit, registration, objects, rows>>

\* ERASURE_ATTEMPT_LEASE_MILLISECONDS pass.
AuditGoesStale(e) ==
  /\ audit[e] = "started"
  /\ audit' = [audit EXCEPT ![e] = "stale"]
  /\ Calm /\ UNCHANGED <<storing, request, participant, erasure, registration, objects, rows>>

ErasureStep(e) ==
  \/ BeginErasure(e) \/ RevokeEnrollment(e) \/ Mark(e) \/ TakeOver(e) \/ AssertOwner(e)
  \/ Entomb(e) \/ Count(e) \/ Page(e) \/ Remove(e) \/ Recount(e) \/ FinishErasure(e)
  \/ Report(e)

---------------------------------------------------------------------------
StoreNext ==
  \/ \E u \in Upload : Claim(u) \/ Lapse(u) \/ HandlerStep(u) \/ HandlerTrouble(u)
  \/ Ages \/ LeaseLapses
  \/ \E r \in Pass : PassStep(r) \/ PassFails(r)
  \/ \E e \in Attempt : ErasureStep(e) \/ ErasureFails(e) \/ AuditGoesStale(e)

StoreSpec == StoreInit /\ [][StoreNext]_vars

\* Requests do not hang, authorizations and registrations grow older, and the
\* scheduled maintenance comes back.
FairStoreSpec ==
  /\ StoreSpec
  /\ \A u \in Upload : WF_vars(HandlerStep(u)) /\ WF_vars(Lapse(u))
  /\ WF_vars(Ages) /\ WF_vars(LeaseLapses)
  /\ \A r \in Pass : WF_vars(PassStep(r))

---------------------------------------------------------------------------
\* Whatever cleans up, and whoever it overlaps with, a row of a participant that
\* is not being erased keeps its object: a cleanup never wins over an accepted
\* upload (reconcileRegistration, and the catch clauses of the handlers).
RetainedHasObject == participant.state = "active" => rows \subseteq objects

\* An upload that was acknowledged is still there under the id of its receipt,
\* whichever of two equal uploads the receipt was for.
AcceptedIsKept ==
  participant.state = "active" =>
    \A u \in Upload : receipt[u] # Nothing => receipt[u] \in rows

\* No object is ever beyond the reach of both journals: it has a row, by which
\* an erasure finds it, or a registration, by which the reconciliation does.
NothingUntracked == \A u \in objects : u \in rows \/ registration[u] # Nothing

\* As long as maintenance is scheduled, an object without a row does not stay: it
\* is accepted or removed.  That holds as well for what an upload leaves behind
\* whose participant was erased meanwhile.
OrphansGo ==
  setting.passes # {} =>
    \A u \in Upload : u \in objects \ rows ~> u \notin objects \ rows
=============================================================================
