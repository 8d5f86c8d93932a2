------------------------- MODULE QuarantineStoreProofs -------------------------
(***************************************************************************)
(* For any number of uploads, any passes and erasures, and any number of   *)
(* things that go wrong: no cleanup wins over an accepted upload, what was *)
(* acknowledged stays, and every object is within reach of a journal.      *)
(***************************************************************************)
EXTENDS QuarantineStore, FiniteSetTheorems, TLAPS

USE StoreConstants

(***************************************************************************)
(* The inductive invariant.                                                *)
(***************************************************************************)
\* The unique keys: records are accepted once.
RowsAreUnique ==
  \A u, v \in rows : setting.content[u] = setting.content[v] => u = v

Young == {"start", "admit", "register", "put"}

\* What a handler knows of its upload: it does not clean up after a row, and an
\* upload that is old enough for a pass to delete it cannot be accepted any more.
HandlerKnows(u) ==
  /\ handler[u].pc \in Young \cup {"insert", "drop", "clear"} => u \notin rows
  /\ u <= horizon => /\ handler[u].pc \notin Young
                     /\ setting.format = "v12" \/ auth[u] # "consuming"
  /\ handler[u].pc = "put" => registration[u] = "registered"
  /\ handler[u].pc = "clear" => u \notin objects
  /\ handler[u].pc = "insert" /\ u \notin objects
       => \/ participant.state # "active"
          \/ u <= horizon /\ registration[u] # "registered"
  /\ participant.state = "active" /\ handler[u].row # Nothing => handler[u].row \in rows

HandlersKnow == \A u \in Upload : HandlerKnows(u)

Busy == PassPC \ {"idle", "acquire", "select", "complete", "fail"}

\* What a pass knows of the registration it has come to.
PassKnows(r) ==
  /\ pass[r].cutoff <= horizon
  /\ \A u \in pass[r].todo : u <= pass[r].cutoff
  /\ pass[r].pc \in Busy => pass[r].at \in pass[r].todo
  /\ pass[r].pc \in {"assert", "head", "reassert", "recheck", "delete", "settle"}
       => pass[r].at \notin rows /\ registration[pass[r].at] # "registered"
  /\ pass[r].pc = "settle" => pass[r].at \notin objects
  /\ pass[r].pc = "clear" => pass[r].at \in rows \/ pass[r].at \notin objects

PassesKnow == \A r \in Pass : PassKnows(r)

\* How far an erasure has got: the objects of the rows before its cursor are gone.
ErasureKnows(e) ==
  /\ erasure[e].pc \in {"tombstone", "count", "page", "check", "remove", "recount", "finish"}
       => participant.state # "active"
  /\ erasure[e].pc = "page" => \A u \in rows : u <= erasure[e].at => u \notin objects
  /\ erasure[e].pc \in {"check", "remove"}
       => \A u \in rows : u < erasure[e].at => u \notin objects
  /\ erasure[e].pc \in {"recount", "finish"} => \A u \in rows : u \notin objects

ErasuresKnow == \A e \in Attempt : ErasureKnows(e)

StoreInv ==
  /\ StoreTypeOK /\ RowsAreUnique /\ HandlersKnow /\ PassesKnow /\ ErasuresKnow
  /\ RetainedHasObject /\ AcceptedIsKept /\ NothingUntracked

LEMMA InitStoreInv == StoreInit => StoreInv
<1> SUFFICES ASSUME StoreInit PROVE StoreInv
  OBVIOUS
<1>1. /\ \A pc \in HandlerPC : Resting(pc) \in Handlers
      /\ \A pc \in ErasurePC : RestingErasure(pc) \in Erasures
      /\ RestingPass \in Passes
  BY DEF Resting, RestingErasure, RestingPass, Handlers, Erasures, Passes, PassPC
<1>2. StoreTypeOK
  BY <1>1 DEF StoreInit, StoreTypeOK, HandlerPC, ErasurePC
<1>3. HandlersKnow
  BY DEF StoreInit, HandlersKnow, HandlerKnows, Young, Upload, Resting
<1>4. PassesKnow
  BY DEF StoreInit, PassesKnow, PassKnows, Busy, RestingPass
<1>5. ErasuresKnow
  BY DEF StoreInit, ErasuresKnow, ErasureKnows, RestingErasure
<1>6. RowsAreUnique /\ RetainedHasObject /\ AcceptedIsKept /\ NothingUntracked
  BY DEF StoreInit, RowsAreUnique, RetainedHasObject, AcceptedIsKept, NothingUntracked
<1> QED BY <1>2, <1>3, <1>4, <1>5, <1>6 DEF StoreInv

(***************************************************************************)
(* How a step moves a handler, a pass or an erasure.                       *)
(***************************************************************************)
LEMMA TroubleType ==
  ASSUME StoreTypeOK, Calm \/ Trouble PROVE trouble' \in 0 .. MaxTrouble
BY DEF StoreTypeOK, Calm, Trouble

LEMMA HandlerMoves ==
  ASSUME StoreTypeOK, NEW x \in Upload
  PROVE  /\ handler[x].row \in Upload \cup {Nothing}
         /\ \A pc \in HandlerPC : HandlerGoes(x, pc) =>
              \E h \in Handlers : /\ handler' = [handler EXCEPT ![x] = h]
                                  /\ h.pc = pc /\ h.row = handler[x].row
         /\ \A v \in Upload \cup {Nothing} : Answers(x, v) =>
              \E h \in Handlers : /\ handler' = [handler EXCEPT ![x] = h]
                                  /\ h.pc \in {"abandon", "receipt"} /\ h.row = v
         /\ HandlerEnds(x) =>
              \E h \in Handlers : /\ handler' = [handler EXCEPT ![x] = h]
                                  /\ h.pc = "ended" /\ h.row = Nothing
<1>1. handler \in [Upload -> Handlers] /\ handler[x] \in Handlers
  BY DEF StoreTypeOK
<1>2. handler[x].row \in Upload \cup {Nothing}
  BY <1>1 DEF Handlers
<1>3. ASSUME NEW pc \in HandlerPC, NEW v \in Upload \cup {Nothing}
      PROVE  /\ [handler[x] EXCEPT !.pc = pc] \in Handlers
             /\ [handler[x] EXCEPT !.pc = pc].pc = pc
             /\ [handler[x] EXCEPT !.pc = pc].row = handler[x].row
             /\ [handler[x] EXCEPT !.pc = pc, !.row = v] \in Handlers
             /\ [handler[x] EXCEPT !.pc = pc, !.row = v].pc = pc
             /\ [handler[x] EXCEPT !.pc = pc, !.row = v].row = v
  BY <1>1 DEF Handlers
<1>4. ASSUME NEW pc \in HandlerPC, HandlerGoes(x, pc)
      PROVE  handler' = [handler EXCEPT ![x] = [handler[x] EXCEPT !.pc = pc]]
  BY <1>1, <1>4 DEF HandlerGoes
<1>5. ASSUME NEW v \in Upload \cup {Nothing}, Answers(x, v)
      PROVE  \E pc \in {"abandon", "receipt"} :
               handler' = [handler EXCEPT ![x] = [handler[x] EXCEPT !.pc = pc, !.row = v]]
  BY <1>1, <1>5 DEF Answers
<1>6. Resting("ended") \in Handlers
  BY DEF Resting, Handlers, HandlerPC
<1>7. {"abandon", "receipt"} \subseteq HandlerPC
  BY DEF HandlerPC
<1>8. ASSUME NEW pc \in HandlerPC, HandlerGoes(x, pc)
      PROVE  \E h \in Handlers : /\ handler' = [handler EXCEPT ![x] = h]
                                 /\ h.pc = pc /\ h.row = handler[x].row
  <2>1. [handler[x] EXCEPT !.pc = pc] \in Handlers
    BY <1>2, <1>3
  <2> QED BY <1>2, <1>3, <1>4, <1>8, <2>1
<1>9. ASSUME NEW v \in Upload \cup {Nothing}, Answers(x, v)
      PROVE  \E h \in Handlers : /\ handler' = [handler EXCEPT ![x] = h]
                                 /\ h.pc \in {"abandon", "receipt"} /\ h.row = v
  <2> DEFINE h(pc) == [handler[x] EXCEPT !.pc = pc, !.row = v]
  <2>1. PICK pc \in {"abandon", "receipt"} : handler' = [handler EXCEPT ![x] = h(pc)]
    BY <1>5, <1>9
  <2>2. h(pc) \in Handlers /\ h(pc).pc = pc /\ h(pc).row = v
    BY <1>3, <1>7
  <2> HIDE DEF h
  <2> QED BY <2>1, <2>2
<1>10. HandlerEnds(x) => /\ handler' = [handler EXCEPT ![x] = Resting("ended")]
                        /\ Resting("ended").pc = "ended" /\ Resting("ended").row = Nothing
  BY DEF HandlerEnds, Resting
<1> QED BY <1>2, <1>6, <1>8, <1>9, <1>10

LEMMA PassMoves ==
  ASSUME StoreTypeOK, NEW r \in Pass
  PROVE  /\ pass[r] \in Passes
         /\ \A pc \in PassPC : PassGoes(r, pc) =>
              \E p \in Passes : /\ pass' = [pass EXCEPT ![r] = p]
                                /\ p = [pass[r] EXCEPT !.pc = pc] /\ p.pc = pc
                                /\ p.cutoff = pass[r].cutoff /\ p.todo = pass[r].todo
                                /\ p.at = pass[r].at
         /\ PassEnds(r) =>
              \E p \in Passes : /\ pass' = [pass EXCEPT ![r] = p]
                                /\ p.pc = "idle" /\ p.cutoff = 0 /\ p.todo = {}
<1>1. pass \in [Pass -> Passes] /\ pass[r] \in Passes
  BY DEF StoreTypeOK
<1>2. ASSUME NEW pc \in PassPC
      PROVE  LET p == [pass[r] EXCEPT !.pc = pc]
             IN  /\ p \in Passes /\ p.pc = pc /\ p.cutoff = pass[r].cutoff
                 /\ p.todo = pass[r].todo /\ p.at = pass[r].at
  BY <1>1 DEF Passes
<1>3. ASSUME NEW pc \in PassPC, PassGoes(r, pc)
      PROVE  pass' = [pass EXCEPT ![r] = [pass[r] EXCEPT !.pc = pc]]
  BY <1>1, <1>3 DEF PassGoes
<1>4. RestingPass \in Passes
  BY DEF RestingPass, Passes, PassPC
<1> QED BY <1>1, <1>2, <1>3, <1>4 DEF PassEnds, RestingPass

LEMMA ErasureMoves ==
  ASSUME StoreTypeOK, NEW e \in Attempt
  PROVE  /\ erasure[e] \in Erasures
         /\ \A pc \in ErasurePC : ErasureGoes(e, pc) =>
              \E f \in Erasures : /\ erasure' = [erasure EXCEPT ![e] = f]
                                  /\ f.pc = pc /\ f.at = erasure[e].at
         /\ ErasureEnds(e) =>
              \E f \in Erasures : erasure' = [erasure EXCEPT ![e] = f] /\ f.pc = "ended"
<1>1. erasure \in [Attempt -> Erasures] /\ erasure[e] \in Erasures
  BY DEF StoreTypeOK
<1>2. ASSUME NEW pc \in ErasurePC
      PROVE  /\ [erasure[e] EXCEPT !.pc = pc] \in Erasures
             /\ [erasure[e] EXCEPT !.pc = pc].pc = pc
             /\ [erasure[e] EXCEPT !.pc = pc].at = erasure[e].at
  BY <1>1 DEF Erasures
<1>3. ASSUME NEW pc \in ErasurePC, ErasureGoes(e, pc)
      PROVE  erasure' = [erasure EXCEPT ![e] = [erasure[e] EXCEPT !.pc = pc]]
  BY <1>1, <1>3 DEF ErasureGoes
<1>4. RestingErasure("ended") \in Erasures
  BY DEF RestingErasure, Erasures, ErasurePC
<1> QED BY <1>1, <1>2, <1>3, <1>4 DEF ErasureEnds, RestingErasure

(***************************************************************************)
(* Steps that touch neither store.                                         *)
(***************************************************************************)
LEMMA HandlerStepKeeps ==
  ASSUME StoreInv, Calm \/ Trouble, NEW x \in Upload, NEW h \in Handlers,
         handler' = [handler EXCEPT ![x] = h],
         UNCHANGED <<setting, reconciling, erasing, registration, objects, rows>>,
         auth' \in [Upload -> {"unused", "consuming", "lapsed", "consumed", "revoked"}],
         \A u \in Upload \ {x} : auth'[u] = auth[u],
         receipt' \in [Upload -> Upload \cup {Nothing}],
         \A u \in Upload : receipt'[u] # Nothing /\ participant.state = "active"
                             => receipt'[u] \in rows,
         HandlerKnows(x)'
  PROVE  StoreInv'
<1>1. StoreTypeOK'
  BY TroubleType DEF StoreInv, StoreTypeOK, reconciling, erasing
<1>2. HandlersKnow'
  <2> SUFFICES ASSUME NEW u \in Upload, u # x PROVE HandlerKnows(u)'
    BY DEF HandlersKnow
  <2>1. handler'[u] = handler[u] /\ HandlerKnows(u)
    BY DEF StoreInv, StoreTypeOK, HandlersKnow
  <2> QED BY <2>1 DEF HandlerKnows, reconciling, erasing
<1>3. PassesKnow' /\ ErasuresKnow'
  BY DEF StoreInv, PassesKnow, PassKnows, ErasuresKnow, ErasureKnows, reconciling, erasing
<1>4. RowsAreUnique' /\ RetainedHasObject' /\ AcceptedIsKept' /\ NothingUntracked'
  BY DEF StoreInv, RowsAreUnique, RetainedHasObject, AcceptedIsKept, NothingUntracked, erasing
<1> QED BY <1>1, <1>2, <1>3, <1>4 DEF StoreInv

LEMMA PassStepKeeps ==
  ASSUME StoreInv, Calm \/ Trouble, NEW r \in Pass, NEW p \in Passes,
         pass' = [pass EXCEPT ![r] = p],
         UNCHANGED <<uploading, horizon, registration, objects, rows>>,
         recon' \in [running : BOOLEAN, lease : Pass \cup {Nothing}, lapsed : BOOLEAN,
                     cursor : 0 .. Uploads],
         PassKnows(r)'
  PROVE  StoreInv'
<1>1. StoreTypeOK'
  BY TroubleType DEF StoreInv, StoreTypeOK, uploading, request, erasing
<1>2. PassesKnow'
  <2> SUFFICES ASSUME NEW q \in Pass, q # r PROVE PassKnows(q)'
    BY DEF PassesKnow
  <2>1. pass'[q] = pass[q] /\ PassKnows(q)
    BY DEF StoreInv, StoreTypeOK, PassesKnow
  <2> QED BY <2>1 DEF PassKnows, uploading
<1>3. HandlersKnow' /\ ErasuresKnow'
  BY DEF StoreInv, HandlersKnow, HandlerKnows, ErasuresKnow, ErasureKnows,
         uploading, request, erasing
<1>4. RowsAreUnique' /\ RetainedHasObject' /\ AcceptedIsKept' /\ NothingUntracked'
  BY DEF StoreInv, RowsAreUnique, RetainedHasObject, AcceptedIsKept, NothingUntracked,
         uploading, request, erasing
<1> QED BY <1>1, <1>2, <1>3, <1>4 DEF StoreInv

LEMMA ErasureStepKeeps ==
  ASSUME StoreInv, Calm \/ Trouble, NEW e \in Attempt, NEW f \in Erasures,
         erasure' = [erasure EXCEPT ![e] = f],
         UNCHANGED <<storing, receipt, handler, registration, objects, rows>>,
         participant' \in [state : {"active", "deleting", "gone"}, device : BOOLEAN,
                           fence : Attempt \cup {Nothing}, tombstone : BOOLEAN],
         participant'.state = "active" => participant.state = "active",
         auth' \in [Upload -> {"unused", "consuming", "lapsed", "consumed", "revoked"}],
         \A u \in Upload : auth'[u] = "consuming" => auth[u] = "consuming",
         audit' \in [Attempt -> {"none", "started", "stale", "finished"}],
         ErasureKnows(e)'
  PROVE  StoreInv'
<1>1. StoreTypeOK'
  BY TroubleType DEF StoreInv, StoreTypeOK, storing, reconciling
<1>2. ErasuresKnow'
  <2> SUFFICES ASSUME NEW d \in Attempt, d # e PROVE ErasureKnows(d)'
    BY DEF ErasuresKnow
  <2>1. erasure'[d] = erasure[d] /\ ErasureKnows(d)
    BY DEF StoreInv, StoreTypeOK, ErasuresKnow
  <2> QED BY <2>1 DEF ErasureKnows, storing
<1>3. HandlersKnow'
  BY DEF StoreInv, HandlersKnow, HandlerKnows, storing, reconciling
<1>4. PassesKnow'
  BY DEF StoreInv, PassesKnow, PassKnows, storing, reconciling
<1>5. RowsAreUnique' /\ RetainedHasObject' /\ AcceptedIsKept' /\ NothingUntracked'
  BY DEF StoreInv, RowsAreUnique, RetainedHasObject, AcceptedIsKept, NothingUntracked, storing
<1> QED BY <1>1, <1>2, <1>3, <1>4, <1>5 DEF StoreInv

(***************************************************************************)
(* The steps of an upload.                                                 *)
(***************************************************************************)
LEMMA KnownHandler ==
  ASSUME StoreInv, NEW x \in Upload
  PROVE  /\ HandlerKnows(x) /\ StoreTypeOK /\ handler[x] \in Handlers
         /\ handler[x].row \in Upload \cup {Nothing}
         /\ participant.state = "active" /\ receipt[x] # Nothing => receipt[x] \in rows
BY HandlerMoves DEF StoreInv, HandlersKnow, StoreTypeOK, AcceptedIsKept

\* Steps that change nothing but the handler.
LEMMA HandlerOnlyKeeps ==
  ASSUME StoreInv, Calm \/ Trouble, NEW x \in Upload, NEW h \in Handlers,
         handler' = [handler EXCEPT ![x] = h],
         UNCHANGED <<setting, reconciling, erasing, auth, receipt, registration, objects, rows>>,
         h.pc \notin {"put", "insert", "clear"},
         h.pc \in Young => handler[x].pc \in Young,
         h.pc = "drop" => x \notin rows,
         participant.state = "active" /\ h.row # Nothing => h.row \in rows
  PROVE  StoreInv'
<1>1. HandlerKnows(x) /\ handler'[x] = h
  BY KnownHandler DEF StoreTypeOK
<1>2. HandlerKnows(x)'
  BY <1>1 DEF HandlerKnows, Young, reconciling, erasing
<1>3. \A u \in Upload : receipt'[u] # Nothing /\ participant.state = "active"
                          => receipt'[u] \in rows
  BY DEF StoreInv, AcceptedIsKept
<1> QED BY <1>2, <1>3, HandlerStepKeeps DEF StoreInv, StoreTypeOK

LEMMA HandlerQuietly ==
  ASSUME StoreInv, NEW x \in Upload,
         \/ Admit(x) \/ InsertRefused(x) \/ Lookup(x) \/ LookupFails(x)
         \/ HandlerFails(x) \/ HandlerDies(x)
  PROVE  StoreInv'
<1> USE KnownHandler DEF HandlerPC
<1>1. CASE HandlerDies(x)
  <2>1. PICK h \in Handlers : /\ handler' = [handler EXCEPT ![x] = h]
                              /\ h.pc = "ended" /\ h.row = Nothing
    BY <1>1, HandlerMoves DEF HandlerDies
  <2> QED BY <1>1, <2>1, HandlerOnlyKeeps DEF HandlerDies, Young
<1>2. CASE HandlerFails(x)
  <2>1. PICK h \in Handlers : /\ handler' = [handler EXCEPT ![x] = h]
                              /\ h.pc = "abandon" /\ h.row = handler[x].row
    BY <1>2, HandlerMoves DEF HandlerFails
  <2> QED BY <1>2, <2>1, HandlerOnlyKeeps DEF HandlerFails, HandlerKnows, Young
<1>3. CASE LookupFails(x)
  <2>1. PICK h \in Handlers : /\ handler' = [handler EXCEPT ![x] = h]
                              /\ h.pc \in {"abandon", "receipt"} /\ h.row = Nothing
    BY <1>3, HandlerMoves DEF LookupFails
  <2> QED BY <1>3, <2>1, HandlerOnlyKeeps DEF LookupFails, Young
<1>4. \A v \in Retained(x) : v \in rows /\ v \in Upload
  BY DEF Retained, StoreTypeOK
<1>5. CASE Admit(x)
  <2>1. PICK h \in Handlers : /\ handler' = [handler EXCEPT ![x] = h]
                              /\ \/ h.pc = "register" /\ h.row = handler[x].row
                                 \/ /\ h.pc \in {"abandon", "receipt"}
                                    /\ h.row = Nothing \/ h.row \in rows
    <3>1. CASE HandlerGoes(x, "register")
      BY <3>1, HandlerMoves
    <3>2. CASE \E v \in Retained(x) : Answers(x, v)
      BY <3>2, <1>4, HandlerMoves
    <3>3. CASE Answers(x, Nothing)
      BY <3>3, HandlerMoves
    <3> QED BY <1>5, <3>1, <3>2, <3>3 DEF Admit
  <2> QED BY <1>5, <2>1, HandlerOnlyKeeps DEF Admit, HandlerKnows, Young
<1>6. ASSUME NEW v \in Upload \cup {Nothing}, NEW b \in BOOLEAN
      PROVE  LET h == [pc |-> "drop", row |-> v, trying |-> b]
             IN  h \in Handlers /\ h.pc = "drop" /\ h.row = v
  BY DEF Handlers
<1>7. CASE InsertRefused(x)
  <2>1. PICK h \in Handlers : /\ handler' = [handler EXCEPT ![x] = h]
                              /\ \/ h.pc = "lookup" /\ h.row = handler[x].row
                                 \/ h.pc = "drop" /\ h.row \in rows
    <3>1. CASE HandlerGoes(x, "lookup")
      BY <3>1, HandlerMoves
    <3>2. CASE \E v \in Retained(x) :
                 handler' = [handler EXCEPT ![x] = [pc |-> "drop", row |-> v, trying |-> TRUE]]
      <4>1. PICK v \in Retained(x) :
              handler' = [handler EXCEPT ![x] = [pc |-> "drop", row |-> v, trying |-> TRUE]]
        BY <3>2
      <4>2. [pc |-> "drop", row |-> v, trying |-> TRUE] \in Handlers
        BY <1>4, <1>6
      <4> QED BY <1>4, <4>1, <4>2
    <3> QED BY <1>7, <3>1, <3>2 DEF InsertRefused
  <2> QED BY <1>7, <2>1, HandlerOnlyKeeps DEF InsertRefused, HandlerKnows, Young
<1>8. CASE Lookup(x)
  <2>1. PICK h \in Handlers : /\ handler' = [handler EXCEPT ![x] = h]
                              /\ \/ h.pc \in {"abandon", "receipt"} /\ h.row \in rows
                                 \/ /\ h.pc = "drop" /\ x \notin rows
                                    /\ h.row = Nothing \/ h.row \in rows
    <3>1. CASE Retained(x) = {} /\ Drops(x, Nothing)
      <4>1. x \notin rows
        BY <3>1 DEF Retained
      <4> QED BY <3>1, <4>1, <1>6 DEF Drops
    <3>2. CASE \E v \in Retained(x) : Answers(x, v)
      BY <3>2, <1>4, HandlerMoves
    <3>3. ASSUME NEW v \in Retained(x), v # x, Drops(x, v)
          PROVE  /\ [pc |-> "drop", row |-> v, trying |-> FALSE] \in Handlers
                 /\ handler' = [handler EXCEPT ![x] =
                                  [pc |-> "drop", row |-> v, trying |-> FALSE]]
                 /\ x \notin rows /\ v \in rows
      <4>1. x \notin rows
        BY <3>3, <1>4 DEF Retained, StoreInv, RowsAreUnique
      <4> QED BY <3>3, <4>1, <1>4, <1>6 DEF Drops
    <3>4. CASE \E v \in Retained(x) : v # x /\ Drops(x, v)
      BY <3>3, <3>4
    <3> QED BY <1>8, <3>1, <3>2, <3>4 DEF Lookup
  <2> QED BY <1>8, <2>1, HandlerOnlyKeeps DEF Lookup, Young
<1> QED BY <1>1, <1>2, <1>3, <1>5, <1>7, <1>8

LEMMA RequestKeeps ==
  ASSUME StoreInv, NEW x \in Upload,
         Claim(x) \/ Lapse(x) \/ RecordReceipt(x) \/ Abandon(x)
  PROVE  StoreInv'
<1> USE KnownHandler DEF HandlerPC
<1>1. ASSUME NEW h \in Handlers, handler' = [handler EXCEPT ![x] = h]
      PROVE  handler'[x] = h
  BY <1>1 DEF StoreTypeOK
<1>2. \A u \in Upload : receipt[u] # Nothing /\ participant.state = "active"
                          => receipt[u] \in rows
  BY DEF StoreInv, AcceptedIsKept
<1>3. CASE Claim(x)
  <2>1. PICK h \in Handlers : /\ handler' = [handler EXCEPT ![x] = h]
                              /\ h.pc = "admit" /\ h.row = handler[x].row
    BY <1>3, HandlerMoves DEF Claim
  <2>2. HandlerKnows(x)'
    BY <1>1, <1>3, <2>1 DEF Claim, HandlerKnows, Young, reconciling, erasing
  <2>3. /\ auth' \in [Upload -> {"unused", "consuming", "lapsed", "consumed", "revoked"}]
        /\ \A u \in Upload \ {x} : auth'[u] = auth[u]
    BY <1>3 DEF Claim, StoreTypeOK
  <2> QED BY <1>2, <1>3, <2>1, <2>2, <2>3, HandlerStepKeeps DEF Claim, StoreTypeOK
<1>4. CASE Lapse(x)
  <2>1. handler' = [handler EXCEPT ![x] = handler[x]]
    BY <1>4 DEF Lapse, StoreTypeOK
  <2>2. HandlerKnows(x)'
    BY <1>4 DEF Lapse, HandlerKnows, StoreTypeOK, reconciling, erasing
  <2>3. /\ auth' \in [Upload -> {"unused", "consuming", "lapsed", "consumed", "revoked"}]
        /\ \A u \in Upload \ {x} : auth'[u] = auth[u]
    BY <1>4 DEF Lapse, StoreTypeOK
  <2> QED BY <1>2, <1>4, <2>1, <2>2, <2>3, HandlerStepKeeps DEF Lapse, StoreTypeOK
<1>5. CASE Abandon(x)
  <2>1. PICK h \in Handlers : /\ handler' = [handler EXCEPT ![x] = h]
                              /\ h.pc = "ended" /\ h.row = Nothing
    BY <1>5, HandlerMoves DEF Abandon
  <2>2. /\ auth' \in [Upload -> {"unused", "consuming", "lapsed", "consumed", "revoked"}]
        /\ \A u \in Upload \ {x} : auth'[u] = auth[u]
        /\ auth'[x] # "consuming"
    BY <1>5 DEF Abandon, StoreTypeOK
  <2>3. HandlerKnows(x)'
    BY <1>1, <1>5, <2>1, <2>2 DEF Abandon, HandlerKnows, Young, reconciling, erasing
  <2> QED BY <1>2, <1>5, <2>1, <2>2, <2>3, HandlerStepKeeps DEF Abandon, StoreTypeOK
<1>6. CASE RecordReceipt(x)
  <2>1. PICK h \in Handlers : /\ handler' = [handler EXCEPT ![x] = h]
                              /\ \/ h.pc = "ended" /\ h.row = Nothing
                                 \/ h.pc = "abandon" /\ h.row = handler[x].row
    BY <1>6, HandlerMoves DEF RecordReceipt
  <2>2. /\ auth' \in [Upload -> {"unused", "consuming", "lapsed", "consumed", "revoked"}]
        /\ \A u \in Upload \ {x} : auth'[u] = auth[u]
        /\ auth'[x] = "consuming" => auth[x] = "consuming"
    BY <1>6 DEF RecordReceipt, StoreTypeOK
  <2>3. HandlerKnows(x)'
    BY <1>1, <1>6, <2>1, <2>2 DEF RecordReceipt, HandlerKnows, Young, reconciling, erasing
  <2>4. /\ receipt' \in [Upload -> Upload \cup {Nothing}]
        /\ \A u \in Upload : receipt'[u] # Nothing /\ participant.state = "active"
                               => receipt'[u] \in rows
    BY <1>2, <1>6 DEF RecordReceipt, StoreTypeOK, HandlerKnows
  <2> QED BY <1>6, <2>1, <2>2, <2>3, <2>4, HandlerStepKeeps DEF RecordReceipt
<1> QED BY <1>3, <1>4, <1>5, <1>6

\* Steps of an upload that write to one of the stores, or to the registration.
LEMMA RegisterKeeps ==
  ASSUME StoreInv, NEW x \in Upload, Register(x)
  PROVE  StoreInv'
<1>1. PICK h \in Handlers : /\ handler' = [handler EXCEPT ![x] = h]
                            /\ h.pc = "put" /\ h.row = handler[x].row
  BY KnownHandler, HandlerMoves DEF Register, HandlerPC
<1>2. x > horizon /\ x \notin rows
  BY KnownHandler DEF Register, HandlerKnows, Young, Upload, StoreTypeOK
<1>3. StoreTypeOK'
  BY <1>1, TroubleType DEF Register, StoreInv, StoreTypeOK, reconciling, erasing
<1>4. HandlersKnow'
  BY <1>1, <1>2 DEF Register, StoreInv, StoreTypeOK, HandlersKnow, HandlerKnows, Young,
                    Upload, reconciling, erasing
<1>5. PassesKnow'
  BY <1>2 DEF Register, StoreInv, StoreTypeOK, PassesKnow, PassKnows, Busy, PassPC, Passes,
              Upload, reconciling
<1>6. ErasuresKnow' /\ RowsAreUnique' /\ RetainedHasObject' /\ AcceptedIsKept' /\ NothingUntracked'
  BY DEF Register, StoreInv, StoreTypeOK, ErasuresKnow, ErasureKnows, RowsAreUnique,
         RetainedHasObject, AcceptedIsKept, NothingUntracked, erasing
<1> QED BY <1>3, <1>4, <1>5, <1>6 DEF StoreInv

LEMMA PutKeeps ==
  ASSUME StoreInv, NEW x \in Upload, Put(x) \/ PutFails(x)
  PROVE  StoreInv'
<1>1. PICK h \in Handlers : /\ handler' = [handler EXCEPT ![x] = h]
                            /\ \/ h.pc = "insert" /\ h.row = handler[x].row /\ x \in objects'
                               \/ h.pc \in {"abandon", "receipt"} /\ h.row = Nothing
  <2>1. CASE Put(x)
    BY <2>1, KnownHandler, HandlerMoves DEF Put, HandlerPC
  <2>2. CASE PutFails(x)
    BY <2>2, KnownHandler, HandlerMoves DEF PutFails
  <2> QED BY <2>1, <2>2
<1>2. /\ x > horizon /\ x \notin rows
      /\ \/ objects' = objects
         \/ objects' = objects \cup {x} /\ registration[x] = "registered"
  BY KnownHandler DEF Put, PutFails, HandlerKnows, Young, Upload, StoreTypeOK
<1>3. UNCHANGED <<setting, reconciling, erasing, auth, receipt, registration, rows>>
  BY DEF Put, PutFails
<1>4. StoreTypeOK'
  BY <1>1, <1>2, <1>3, TroubleType
     DEF Put, PutFails, StoreInv, StoreTypeOK, reconciling, erasing
<1>5. HandlersKnow'
  BY <1>1, <1>2, <1>3 DEF StoreInv, StoreTypeOK, HandlersKnow, HandlerKnows, Young,
                          Upload, reconciling, erasing
<1>6. PassesKnow'
  BY <1>2, <1>3 DEF StoreInv, StoreTypeOK, PassesKnow, PassKnows, Busy, PassPC, Passes,
                    Upload, reconciling
<1>7. ErasuresKnow' /\ RowsAreUnique' /\ RetainedHasObject' /\ AcceptedIsKept' /\ NothingUntracked'
  BY <1>2, <1>3 DEF StoreInv, StoreTypeOK, ErasuresKnow, ErasureKnows, RowsAreUnique,
                    RetainedHasObject, AcceptedIsKept, NothingUntracked, erasing
<1> QED BY <1>4, <1>5, <1>6, <1>7 DEF StoreInv

\* The fence: an upload that a pass may have claimed is not accepted.
LEMMA FenceHolds ==
  ASSUME StoreInv, NEW x \in Upload, handler[x].pc = "insert", Admissible(x)
  PROVE  /\ participant.state = "active" /\ x \in objects /\ x \notin rows
         /\ x > horizon \/ registration[x] = "registered"
         /\ \A u \in rows : setting.content[u] # setting.content[x]
<1>1. HandlerKnows(x) /\ horizon \in Int /\ x \in Int
  BY KnownHandler DEF Upload, StoreTypeOK
<1>2. participant.state = "active" /\ auth[x] = "consuming" /\ x \notin rows
  BY <1>1 DEF Admissible, HandlerKnows
<1>3. \A u \in rows : setting.content[u] # setting.content[x]
  BY DEF Admissible, Retained
<1>4. x > horizon \/ registration[x] = "registered"
  <2>1. CASE x > horizon
    BY <2>1
  <2>2. CASE x <= horizon
    <3>1. setting.format = "v12"
      BY <1>1, <1>2, <2>2 DEF HandlerKnows
    <3>2. FenceAdmits(x)
      BY DEF Admissible
    <3> QED BY <3>1, <3>2 DEF FenceAdmits
  <2> QED BY <1>1, <2>1, <2>2
<1>5. x \in objects
  BY <1>1, <1>2, <1>4 DEF HandlerKnows
<1> QED BY <1>2, <1>3, <1>4, <1>5

LEMMA AcceptKeeps ==
  ASSUME StoreInv, NEW x \in Upload, handler[x].pc = "insert", Admissible(x), Accept(x),
         NEW h \in Handlers, handler' = [handler EXCEPT ![x] = h],
         h.pc \in {"abandon", "receipt", "lookup"}, h.row = x \/ h.row = handler[x].row,
         UNCHANGED <<setting, reconciling, erasing, objects>>, Calm \/ Trouble
  PROVE  StoreInv'
<1>1. /\ registration' \in [Upload -> Pass \cup {"registered", Nothing}]
      /\ \A u \in Upload \ {x} : registration'[u] = registration[u]
      /\ registration'[x] = registration[x] \/ registration'[x] = Nothing
  BY DEF Accept, StoreInv, StoreTypeOK
<1>2. /\ auth' \in [Upload -> {"unused", "consuming", "lapsed", "consumed", "revoked"}]
      /\ \A u \in Upload : auth'[u] = "consuming" => auth[u] = "consuming"
      /\ receipt' \in [Upload -> Upload \cup {Nothing}]
      /\ \A u \in Upload : receipt'[u] = receipt[u] \/ receipt'[u] = x
  BY DEF Accept, StoreInv, StoreTypeOK
<1>3. rows' = rows \cup {x}
  BY DEF Accept
<1>4. StoreTypeOK'
  BY <1>1, <1>2, <1>3, TroubleType DEF StoreInv, StoreTypeOK, reconciling, erasing
<1>5. HandlersKnow'
  BY <1>1, <1>2, <1>3, KnownHandler DEF StoreInv, StoreTypeOK, HandlersKnow, HandlerKnows, Young,
                          reconciling, erasing
<1>6. PassesKnow'
  <2> SUFFICES ASSUME NEW r \in Pass PROVE PassKnows(r)'
    BY DEF PassesKnow
  <2>1. PassKnows(r) /\ pass[r] \in Passes /\ horizon \in Int
    BY DEF StoreInv, StoreTypeOK, PassesKnow
  <2>2. pass[r].pc \in {"assert", "head", "reassert", "recheck", "delete", "settle"}
          => pass[r].at # x
    BY <2>1, FenceHolds DEF PassKnows, Busy, PassPC, Passes, Upload
  <2>3. pass[r].at \in pass[r].todo => pass[r].at \in Upload
    BY <2>1 DEF Passes
  <2> QED BY <1>1, <1>3, <2>1, <2>2, <2>3 DEF PassKnows, Busy, PassPC, reconciling
<1>7. ErasuresKnow' /\ RowsAreUnique' /\ RetainedHasObject' /\ AcceptedIsKept'
  BY <1>2, <1>3, FenceHolds DEF StoreInv, StoreTypeOK, ErasuresKnow, ErasureKnows,
                    RowsAreUnique, RetainedHasObject, AcceptedIsKept, erasing
<1>8. NothingUntracked'
  BY <1>1, <1>3 DEF StoreInv, StoreTypeOK, NothingUntracked
<1> QED BY <1>4, <1>5, <1>6, <1>7, <1>8 DEF StoreInv

LEMMA InsertKeeps ==
  ASSUME StoreInv, NEW x \in Upload, Insert(x) \/ InsertFails(x)
  PROVE  StoreInv'
<1>1. CASE Insert(x)
  <2>1. PICK h \in Handlers : /\ handler' = [handler EXCEPT ![x] = h]
                              /\ h.pc \in {"abandon", "receipt"} /\ h.row = x
    BY <1>1, KnownHandler, HandlerMoves DEF Insert
  <2> QED BY <1>1, <2>1, AcceptKeeps DEF Insert
<1>2. CASE InsertFails(x)
  <2>1. PICK h \in Handlers : /\ handler' = [handler EXCEPT ![x] = h]
                              /\ h.pc = "lookup" /\ h.row = handler[x].row
    BY <1>2, KnownHandler, HandlerMoves DEF InsertFails, HandlerPC
  <2>2. CASE Admissible(x) /\ Accept(x)
    BY <1>2, <2>1, <2>2, AcceptKeeps DEF InsertFails
  <2>3. CASE UNCHANGED <<auth, receipt, registration, rows>>
    BY <1>2, <2>1, <2>3, KnownHandler, HandlerOnlyKeeps DEF InsertFails, HandlerKnows, Young
  <2> QED BY <1>2, <2>2, <2>3 DEF InsertFails
<1> QED BY <1>1, <1>2

LEMMA CleanupKeeps ==
  ASSUME StoreInv, NEW x \in Upload, Drop(x) \/ Clear(x) \/ CleanupFails(x)
  PROVE  StoreInv'
<1>1. PICK h \in Handlers :
        /\ handler' = [handler EXCEPT ![x] = h]
        /\ h.pc \in {"clear", "lookup", "abandon", "receipt"} /\ h.row = handler[x].row
        /\ h.pc = "clear" => x \notin objects'
  <2>1. CASE Drop(x)
    BY <2>1, KnownHandler, HandlerMoves DEF Drop, HandlerPC
  <2>2. CASE Clear(x)
    BY <2>2, KnownHandler, HandlerMoves DEF Clear
  <2>3. CASE CleanupFails(x)
    <3>1. CASE HandlerGoes(x, "lookup")
      BY <3>1, KnownHandler, HandlerMoves DEF HandlerPC
    <3>2. CASE Answers(x, handler[x].row)
      BY <3>2, KnownHandler, HandlerMoves
    <3> QED BY <2>3, <3>1, <3>2 DEF CleanupFails
  <2> QED BY <2>1, <2>2, <2>3
<1>2. /\ x \notin rows /\ objects' \subseteq objects
      /\ \A u \in Upload \ {x} : u \in objects => u \in objects'
      /\ x \in objects' => registration'[x] = registration[x]
  BY KnownHandler DEF Drop, Clear, CleanupFails, HandlerKnows, StoreTypeOK
<1>3. /\ registration' \in [Upload -> Pass \cup {"registered", Nothing}]
      /\ \A u \in Upload \ {x} : registration'[u] = registration[u]
      /\ registration'[x] \in {registration[x], Nothing}
  BY KnownHandler DEF Drop, Clear, CleanupFails, StoreTypeOK
<1>4. UNCHANGED <<setting, reconciling, erasing, auth, receipt, rows>>
  BY DEF Drop, Clear, CleanupFails
<1>5. StoreTypeOK'
  BY <1>1, <1>2, <1>3, <1>4, TroubleType
     DEF Drop, Clear, CleanupFails, StoreInv, StoreTypeOK, reconciling, erasing
<1>6. HandlersKnow'
  BY <1>1, <1>2, <1>3, <1>4
     DEF StoreInv, StoreTypeOK, HandlersKnow, HandlerKnows, Young, reconciling, erasing
<1>7. PassesKnow'
  <2> SUFFICES ASSUME NEW r \in Pass PROVE PassKnows(r)'
    BY DEF PassesKnow
  <2>1. PassKnows(r) /\ pass[r] \in Passes
    BY DEF StoreInv, StoreTypeOK, PassesKnow
  <2>2. pass[r].at \in pass[r].todo => pass[r].at \in Upload
    BY <2>1 DEF Passes
  <2> QED BY <1>2, <1>3, <1>4, <2>1, <2>2 DEF PassKnows, Busy, PassPC, reconciling
<1>8. ErasuresKnow' /\ RowsAreUnique' /\ RetainedHasObject' /\ AcceptedIsKept'
  BY <1>2, <1>4 DEF StoreInv, StoreTypeOK, ErasuresKnow, ErasureKnows, RowsAreUnique,
                    RetainedHasObject, AcceptedIsKept, erasing
<1>9. NothingUntracked'
  BY <1>2, <1>3, <1>4 DEF StoreInv, StoreTypeOK, NothingUntracked
<1> QED BY <1>5, <1>6, <1>7, <1>8, <1>9 DEF StoreInv

(***************************************************************************)
(* The steps of a pass.                                                    *)
(***************************************************************************)
LEMMA KnownPass ==
  ASSUME StoreInv, NEW r \in Pass
  PROVE  /\ PassKnows(r) /\ StoreTypeOK /\ pass[r] \in Passes
         /\ horizon \in 0 .. Uploads /\ pass[r].pc \in PassPC
         /\ pass[r].pc \in Busy => pass[r].at \in Upload /\ pass[r].at <= horizon
<1>1. PassKnows(r) /\ pass[r] \in Passes /\ horizon \in 0 .. Uploads
  BY DEF StoreInv, PassesKnow, StoreTypeOK
<1>2. pass[r].pc \in Busy => pass[r].at \in Upload /\ pass[r].at <= horizon
  BY <1>1 DEF PassKnows, Passes, Upload
<1> QED BY <1>1, <1>2 DEF StoreInv, Passes

LEMMA NextMoves ==
  ASSUME StoreInv, NEW r \in Pass, NextRegistration(r), pass[r].pc \in Busy
  PROVE  \E p \in Passes : /\ pass' = [pass EXCEPT ![r] = p] /\ p.cutoff = pass[r].cutoff
                           /\ p.todo \subseteq pass[r].todo
                           /\ \/ p.pc = "complete"
                              \/ p.pc = "look" /\ p.at \in p.todo
<1> DEFINE rest == pass[r].todo \ {pass[r].at}
<1>1. CASE PassGoes(r, "complete")
  BY <1>1, KnownPass, PassMoves DEF PassPC
<1>2. ASSUME NEW u \in Least(rest),
             pass' = [pass EXCEPT ![r].pc = "look", ![r].todo = rest, ![r].at = u]
      PROVE  \E p \in Passes : /\ pass' = [pass EXCEPT ![r] = p]
                               /\ p.cutoff = pass[r].cutoff /\ p.todo = rest
                               /\ p.pc = "look" /\ p.at \in p.todo
  <2> DEFINE p == [pass[r] EXCEPT !.pc = "look", !.todo = rest, !.at = u]
  <2>1. pass' = [pass EXCEPT ![r] = p]
    BY <1>2, KnownPass DEF StoreTypeOK
  <2>2. /\ u \in rest /\ rest \in SUBSET Upload /\ u \in 0 .. Uploads
        /\ "look" \in PassPC /\ pass[r] \in Passes
    BY KnownPass DEF Least, Passes, PassPC, Upload
  <2> HIDE DEF rest
  <2>3. /\ p \in Passes /\ p.cutoff = pass[r].cutoff /\ p.todo = rest
        /\ p.pc = "look" /\ p.at = u
    BY <2>2 DEF Passes
  <2> HIDE DEF p
  <2> QED BY <2>1, <2>2, <2>3
<1> QED BY <1>1, <1>2 DEF NextRegistration

\* Steps of a pass that write nothing but its lease.
LEMMA PassOnlyKeeps ==
  ASSUME StoreInv, Calm \/ Trouble, NEW r \in Pass, NEW p \in Passes,
         pass' = [pass EXCEPT ![r] = p],
         UNCHANGED <<uploading, horizon, registration, objects, rows>>,
         recon' \in [running : BOOLEAN, lease : Pass \cup {Nothing}, lapsed : BOOLEAN,
                     cursor : 0 .. Uploads],
         p.cutoff <= horizon, \A u \in p.todo : u <= p.cutoff,
         p.pc \in Busy => p.at \in p.todo,
         p.pc \in {"assert", "head", "reassert", "recheck", "delete", "settle"}
           => p.at \notin rows /\ registration[p.at] # "registered",
         p.pc = "settle" => p.at \notin objects,
         p.pc = "clear" => p.at \in rows
  PROVE  StoreInv'
<1>1. pass'[r] = p
  BY KnownPass DEF StoreTypeOK
<1>2. PassKnows(r)'
  BY <1>1 DEF PassKnows
<1> QED BY <1>2, PassStepKeeps

LEMMA LeaseKeeps ==
  ASSUME StoreInv, NEW r \in Pass,
         \/ StartPass(r) \/ Acquire(r) \/ Complete(r) \/ FailPass(r) \/ PassFails(r)
  PROVE  StoreInv'
<1>1. /\ recon \in [running : BOOLEAN, lease : Pass \cup {Nothing}, lapsed : BOOLEAN,
                    cursor : 0 .. Uploads]
      /\ recon.cursor \in 0 .. Uploads /\ pass[r].cursor \in 0 .. Uploads
      /\ pass[r].last \in 0 .. Uploads
  BY KnownPass DEF StoreTypeOK, Passes
<1>2. /\ 0 <= horizon /\ pass[r].cutoff <= horizon /\ 0 \in 0 .. Uploads
      /\ \A u \in pass[r].todo : u <= pass[r].cutoff
  BY KnownPass DEF PassKnows
<1>3. CASE StartPass(r)
  <2> DEFINE p == [RestingPass EXCEPT !.pc = "acquire", !.cutoff = horizon, !.cursor = recon.cursor]
  <2>1. /\ RestingPass \in Passes /\ RestingPass.todo = {}
        /\ recon.cursor \in 0 .. Uploads /\ horizon \in 0 .. Uploads /\ "acquire" \in PassPC
    BY <1>1, KnownPass DEF RestingPass, Passes, PassPC
  <2>2. pass' = [pass EXCEPT ![r] = p]
    BY <1>3 DEF StartPass
  <2>3. p \in Passes /\ p.pc = "acquire" /\ p.cutoff = horizon /\ p.todo = {}
    BY <2>1 DEF Passes
  <2> HIDE DEF p
  <2>4. horizon <= horizon
    BY KnownPass
  <2> QED BY <1>1, <1>3, <2>2, <2>3, <2>4, PassOnlyKeeps DEF StartPass, Busy
<1>4. recon' \in [running : BOOLEAN, lease : Pass \cup {Nothing}, lapsed : BOOLEAN,
                  cursor : 0 .. Uploads]
  <2>1. CASE StartPass(r) \/ PassFails(r)
    BY <1>1, <2>1 DEF StartPass, PassFails
  <2>2. CASE Acquire(r) \/ Complete(r)
    <3>1. CASE Acquire(r)
      <4>1. CASE recon' = [running |-> TRUE, lease |-> r, lapsed |-> FALSE,
                           cursor |-> pass[r].cursor]
        BY <1>1, <4>1
      <4> QED BY <1>1, <3>1, <4>1 DEF Acquire
    <3>2. CASE Complete(r)
      <4> DEFINE c == IF pass[r].more THEN pass[r].last ELSE 0
      <4>1. CASE recon' = [running |-> FALSE, lease |-> Nothing, lapsed |-> FALSE, cursor |-> c]
        BY <1>1, <1>2, <4>1
      <4> QED BY <1>1, <3>2, <4>1 DEF Complete
    <3> QED BY <2>2, <3>1, <3>2
  <2>3. CASE FailPass(r)
    BY <1>1, <2>3 DEF FailPass
  <2> QED BY <2>1, <2>2, <2>3
<1>5. CASE Acquire(r) \/ Complete(r) \/ FailPass(r) \/ PassFails(r)
  <2>1. PICK p \in Passes : /\ pass' = [pass EXCEPT ![r] = p]
                            /\ p.pc \in {"idle", "select", "fail"}
                            /\ \/ p.cutoff = pass[r].cutoff /\ p.todo = pass[r].todo
                               \/ p.cutoff = 0 /\ p.todo = {}
    <3>1. CASE PassEnds(r)
      BY <3>1, PassMoves, KnownPass
    <3>2. CASE PassGoes(r, "select")
      BY <3>2, PassMoves, KnownPass DEF PassPC
    <3>3. CASE PassGoes(r, "fail")
      BY <3>3, PassMoves, KnownPass DEF PassPC
    <3> QED BY <1>5, <3>1, <3>2, <3>3 DEF Acquire, Complete, FailPass, PassFails
  <2>2. /\ p.cutoff <= horizon /\ \A u \in p.todo : u <= p.cutoff
    BY <1>2, <2>1
  <2>3. /\ Calm \/ Trouble
        /\ UNCHANGED <<uploading, horizon, registration, objects, rows>>
    BY <1>5 DEF Acquire, Complete, FailPass, PassFails
  <2> QED BY <1>4, <2>1, <2>2, <2>3, PassOnlyKeeps DEF Busy
<1> QED BY <1>3, <1>5

LEMMA SelectKeeps ==
  ASSUME StoreInv, NEW r \in Pass, Select(r)
  PROVE  StoreInv'
<1> DEFINE batch == {u \in Due(r) : Cardinality({v \in Due(r) : v < u}) < BatchLimit}
<1>1. /\ batch \subseteq Upload /\ \A u \in batch : u <= pass[r].cutoff
      /\ pass[r].cutoff <= horizon /\ pass[r] \in Passes
  BY KnownPass DEF Due, PassKnows
<1> HIDE DEF batch
<1>2. PICK p \in Passes : /\ pass' = [pass EXCEPT ![r] = p]
                          /\ p.cutoff = pass[r].cutoff
                          /\ \/ p.pc = "complete" /\ p.todo = pass[r].todo
                             \/ p.pc = "look" /\ p.todo = batch /\ p.at \in batch
  <2>1. CASE PassGoes(r, "complete")
    BY <2>1, KnownPass, PassMoves DEF PassPC
  <2>2. ASSUME NEW first \in Least(batch), NEW last \in Greatest(batch),
               pass' = [pass EXCEPT ![r].pc = "look", ![r].todo = batch, ![r].at = first,
                                    ![r].last = last, ![r].more = batch # Due(r)]
        PROVE  \E p \in Passes : /\ pass' = [pass EXCEPT ![r] = p]
                                 /\ p.cutoff = pass[r].cutoff
                                 /\ p.pc = "look" /\ p.todo = batch /\ p.at \in batch
    <3> DEFINE p == [pass[r] EXCEPT !.pc = "look", !.todo = batch, !.at = first,
                                    !.last = last, !.more = batch # Due(r)]
    <3>1. pass' = [pass EXCEPT ![r] = p]
      BY <2>2, KnownPass DEF StoreTypeOK
    <3>2. /\ first \in batch /\ first \in 0 .. Uploads /\ last \in 0 .. Uploads
          /\ batch \in SUBSET Upload /\ "look" \in PassPC /\ (batch # Due(r)) \in BOOLEAN
      BY <1>1 DEF Least, Greatest, Upload, PassPC
    <3>3. /\ p \in Passes /\ p.cutoff = pass[r].cutoff /\ p.todo = batch
          /\ p.pc = "look" /\ p.at = first
      BY <1>1, <3>2 DEF Passes
    <3> HIDE DEF p
    <3> QED BY <3>1, <3>2, <3>3
  <2>3. \/ PassGoes(r, "complete")
        \/ \E first \in Least(batch), last \in Greatest(batch) :
             pass' = [pass EXCEPT ![r].pc = "look", ![r].todo = batch, ![r].at = first,
                                  ![r].last = last, ![r].more = batch # Due(r)]
    BY DEF Select, batch
  <2> QED BY <2>1, <2>2, <2>3
<1>3. p.cutoff <= horizon /\ \A u \in p.todo : u <= p.cutoff
  BY <1>1, <1>2, KnownPass DEF PassKnows
<1>4. /\ Calm /\ UNCHANGED <<uploading, horizon, recon, registration, objects, rows>>
      /\ recon \in [running : BOOLEAN, lease : Pass \cup {Nothing}, lapsed : BOOLEAN,
                    cursor : 0 .. Uploads]
  BY KnownPass DEF Select, StoreTypeOK
<1> QED BY <1>2, <1>3, <1>4, PassOnlyKeeps DEF Busy

\* A pass that only reads, and comes to the next step or the next registration.
LEMMA ReadKeeps ==
  ASSUME StoreInv, NEW r \in Pass, Look(r) \/ Doubt(r) \/ AssertLease(r) \/ Head(r)
  PROVE  StoreInv'
<1> DEFINE p(pc) == [pass[r] EXCEPT !.pc = pc]
<1>1. ASSUME NEW pc \in PassPC, PassGoes(r, pc)
      PROVE  /\ p(pc) \in Passes /\ pass' = [pass EXCEPT ![r] = p(pc)] /\ p(pc).pc = pc
             /\ p(pc).cutoff = pass[r].cutoff /\ p(pc).todo = pass[r].todo
             /\ p(pc).at = pass[r].at
  BY <1>1, PassMoves, KnownPass
<1> HIDE DEF p
<1>2. UNCHANGED <<uploading, horizon, registration, objects, rows, recon>> /\ Calm
  BY DEF Look, Doubt, AssertLease, Head
<1>3. /\ pass[r].pc \in Busy /\ PassKnows(r)
      /\ recon \in [running : BOOLEAN, lease : Pass \cup {Nothing}, lapsed : BOOLEAN,
                    cursor : 0 .. Uploads]
  BY KnownPass DEF Look, Doubt, AssertLease, Head, Busy, PassPC, StoreTypeOK
<1>4. CASE NextRegistration(r)
  BY <1>2, <1>3, <1>4, NextMoves, PassOnlyKeeps, KnownPass DEF PassKnows, Busy
<1>5. ASSUME NEW pc \in PassPC, PassGoes(r, pc),
             pc \in {"assert", "head", "reassert", "recheck", "delete", "settle"}
               => pass[r].at \notin rows /\ registration[pass[r].at] # "registered",
             pc = "settle" => pass[r].at \notin objects,
             pc = "clear" => pass[r].at \in rows
      PROVE  StoreInv'
  BY <1>1, <1>2, <1>3, <1>5, PassOnlyKeeps DEF PassKnows
<1>6. CASE Look(r)
  BY <1>5, <1>6, <1>3 DEF Look, PassKnows, PassPC
<1>7. CASE Doubt(r)
  BY <1>4, <1>5, <1>7, <1>3 DEF Doubt, PassKnows, PassPC
<1>8. CASE AssertLease(r)
  BY <1>5, <1>8, <1>3 DEF AssertLease, PassKnows, PassPC
<1>9. CASE Head(r)
  BY <1>5, <1>9, <1>3 DEF Head, PassKnows, PassPC
<1> QED BY <1>6, <1>7, <1>8, <1>9

\* The steps of a pass that write: the registration it is at, or its object.
LEMMA RegistrationKeeps ==
  ASSUME StoreInv, NEW r \in Pass, NEW u \in Upload, u = pass[r].at, pass[r].pc \in Busy,
         NEW b \in {r, Nothing}, registration' = [registration EXCEPT ![u] = b],
         b = Nothing => u \in rows \/ u \notin objects,
         NEW p \in Passes, pass' = [pass EXCEPT ![r] = p], p.cutoff = pass[r].cutoff,
         p.todo \subseteq pass[r].todo, p.pc \in Busy => p.at \in p.todo,
         p.pc \in {"look", "complete", "assert"},
         p.pc = "assert" => p.at = u /\ u \notin rows,
         UNCHANGED <<uploading, horizon, recon, objects, rows>>, Calm
  PROVE  StoreInv'
<1>1. /\ u <= horizon /\ PassKnows(r)
      /\ registration' \in [Upload -> Pass \cup {"registered", Nothing}]
      /\ \A v \in Upload \ {u} : registration'[v] = registration[v]
      /\ registration'[u] = b /\ b # "registered"
  BY KnownPass DEF StoreTypeOK
<1>2. StoreTypeOK'
  BY <1>1, TroubleType DEF StoreInv, StoreTypeOK, uploading, request, erasing
<1>3. HandlersKnow'
  BY <1>1 DEF StoreInv, HandlersKnow, HandlerKnows, Young, uploading, request, erasing
<1>4. PassesKnow'
  <2> SUFFICES ASSUME NEW q \in Pass PROVE PassKnows(q)'
    BY DEF PassesKnow
  <2>1. PassKnows(q) /\ pass[q] \in Passes
    BY DEF StoreInv, StoreTypeOK, PassesKnow
  <2>2. pass[q].at \in pass[q].todo => pass[q].at \in Upload
    BY <2>1 DEF Passes
  <2>3. CASE q # r
    BY <1>1, <2>1, <2>2, <2>3 DEF StoreInv, StoreTypeOK, PassKnows, Busy, PassPC, uploading
  <2>4. CASE q = r
    <3>1. pass'[r] = p
      BY DEF StoreInv, StoreTypeOK
    <3> QED BY <1>1, <2>1, <2>4, <3>1 DEF PassKnows, Busy, uploading
  <2> QED BY <2>3, <2>4
<1>5. ErasuresKnow' /\ RowsAreUnique' /\ RetainedHasObject' /\ AcceptedIsKept'
  BY DEF StoreInv, ErasuresKnow, ErasureKnows, RowsAreUnique, RetainedHasObject,
         AcceptedIsKept, uploading, request, erasing
<1>6. NothingUntracked'
  BY <1>1 DEF StoreInv, StoreTypeOK, NothingUntracked
<1> QED BY <1>2, <1>3, <1>4, <1>5, <1>6 DEF StoreInv

LEMMA DeleteOrphanKeeps ==
  ASSUME StoreInv, NEW r \in Pass, DeleteOrphan(r)
  PROVE  StoreInv'
<1> DEFINE u == pass[r].at
<1>1. PICK p \in Passes : /\ pass' = [pass EXCEPT ![r] = p] /\ p.pc = "settle"
                          /\ p.cutoff = pass[r].cutoff /\ p.todo = pass[r].todo /\ p.at = u
  BY KnownPass, PassMoves DEF DeleteOrphan, PassPC
<1>2. /\ u \in Upload /\ u <= horizon /\ u \notin rows /\ registration[u] # "registered"
      /\ PassKnows(r) /\ u \in pass[r].todo
  BY KnownPass DEF DeleteOrphan, PassKnows, Busy, PassPC
<1>3. objects' = objects \ {u} /\ Calm
      /\ UNCHANGED <<uploading, horizon, recon, registration, rows>>
  BY DEF DeleteOrphan
<1> HIDE DEF u
<1>4. StoreTypeOK'
  BY <1>1, <1>3, TroubleType DEF StoreInv, StoreTypeOK, uploading, request, erasing
<1>5. HandlersKnow'
  BY <1>2, <1>3 DEF StoreInv, HandlersKnow, HandlerKnows, uploading, request, erasing
<1>6. PassesKnow'
  <2> SUFFICES ASSUME NEW q \in Pass PROVE PassKnows(q)'
    BY DEF PassesKnow
  <2>1. PassKnows(q)
    BY DEF StoreInv, PassesKnow
  <2>2. CASE q # r
    BY <1>1, <1>3, <2>1, <2>2 DEF StoreInv, StoreTypeOK, PassKnows, uploading
  <2>3. CASE q = r
    <3>1. pass'[r] = p
      BY <1>1 DEF StoreInv, StoreTypeOK
    <3> QED BY <1>1, <1>2, <1>3, <2>3, <3>1 DEF PassKnows, uploading
  <2> QED BY <2>2, <2>3
<1>7. ErasuresKnow' /\ RowsAreUnique' /\ RetainedHasObject' /\ AcceptedIsKept' /\ NothingUntracked'
  BY <1>2, <1>3 DEF StoreInv, StoreTypeOK, ErasuresKnow, ErasureKnows, RowsAreUnique,
                    RetainedHasObject, AcceptedIsKept, NothingUntracked,
                    uploading, request, erasing
<1> QED BY <1>4, <1>5, <1>6, <1>7 DEF StoreInv

LEMMA ReconciliationKeeps ==
  ASSUME StoreInv, NEW r \in Pass, ClearReconciled(r) \/ ClaimOrphan(r) \/ Settle(r)
  PROVE  StoreInv'
<1> DEFINE u == pass[r].at
<1>1. /\ pass[r].pc \in Busy /\ PassKnows(r) /\ u \in pass[r].todo /\ u \in Upload
      /\ recon \in [running : BOOLEAN, lease : Pass \cup {Nothing}, lapsed : BOOLEAN,
                    cursor : 0 .. Uploads]
  BY KnownPass DEF ClearReconciled, ClaimOrphan, Settle, PassKnows, Busy, PassPC, StoreTypeOK
<1>2. Calm /\ UNCHANGED <<uploading, horizon, recon, objects, rows>>
  BY DEF ClearReconciled, ClaimOrphan, Settle
<1>3. ASSUME NextRegistration(r), registration' = [registration EXCEPT ![u] = Nothing],
             u \in rows \/ u \notin objects
      PROVE  StoreInv'
  <2>1. PICK p \in Passes : /\ pass' = [pass EXCEPT ![r] = p] /\ p.cutoff = pass[r].cutoff
                            /\ p.todo \subseteq pass[r].todo
                            /\ \/ p.pc = "complete"
                               \/ p.pc = "look" /\ p.at \in p.todo
    BY <1>1, <1>3, NextMoves
  <2> QED BY <1>1, <1>2, <1>3, <2>1, RegistrationKeeps DEF Busy
<1>4. ASSUME NEW pc \in {"doubt", "fail"}, PassGoes(r, pc), UNCHANGED registration
      PROVE  StoreInv'
  <2>1. PICK p \in Passes : /\ pass' = [pass EXCEPT ![r] = p] /\ p.pc = pc
                            /\ p.cutoff = pass[r].cutoff /\ p.todo = pass[r].todo
                            /\ p.at = u
    BY <1>4, KnownPass, PassMoves DEF PassPC
  <2> QED BY <1>1, <1>2, <1>4, <2>1, PassOnlyKeeps DEF PassKnows
<1>5. CASE ClearReconciled(r)
  BY <1>1, <1>3, <1>5 DEF ClearReconciled, PassKnows
<1>6. CASE Settle(r)
  BY <1>1, <1>3, <1>4, <1>6 DEF Settle, PassKnows
<1>7. CASE ClaimOrphan(r)
  <2>1. CASE u \notin rows /\ registration' = [registration EXCEPT ![u] = r]
             /\ PassGoes(r, "assert")
    <3>1. PICK p \in Passes : /\ pass' = [pass EXCEPT ![r] = p] /\ p.pc = "assert"
                              /\ p.cutoff = pass[r].cutoff /\ p.todo = pass[r].todo
                              /\ p.at = u
      BY <2>1, KnownPass, PassMoves DEF PassPC
    <3> QED BY <1>1, <1>2, <2>1, <3>1, RegistrationKeeps DEF Busy
  <2> QED BY <1>4, <1>7, <2>1 DEF ClaimOrphan
<1> QED BY <1>5, <1>6, <1>7

\* What no one does: time that passes.
LEMMA TimeKeeps ==
  ASSUME StoreInv, Ages \/ LeaseLapses
  PROVE  StoreInv'
<1>1. /\ horizon \in Int /\ horizon' \in 0 .. Uploads /\ horizon <= horizon'
      /\ \A u \in Upload : u <= horizon' /\ ~(u <= horizon)
           => /\ handler[u].pc \notin Young
              /\ setting.format = "v12" \/ auth[u] # "consuming"
  BY DEF Ages, LeaseLapses, StoreInv, StoreTypeOK, Upload, Young, uploading
<1>2. UNCHANGED <<uploading, pass, registration, objects, rows>> /\ (Calm \/ Trouble)
  BY DEF Ages, LeaseLapses
<1>3. recon' \in [running : BOOLEAN, lease : Pass \cup {Nothing}, lapsed : BOOLEAN,
                  cursor : 0 .. Uploads]
  BY DEF Ages, LeaseLapses, StoreInv, StoreTypeOK
<1>4. StoreTypeOK'
  BY <1>1, <1>2, <1>3, TroubleType DEF StoreInv, StoreTypeOK, uploading, request, erasing
<1>5. HandlersKnow'
  <2> SUFFICES ASSUME NEW u \in Upload PROVE HandlerKnows(u)'
    BY DEF HandlersKnow
  <2>1. HandlerKnows(u) /\ u \in Int
    BY DEF StoreInv, HandlersKnow, Upload
  <2>2. u <= horizon => u <= horizon'
    BY <1>1, <2>1
  <2> QED BY <1>1, <1>2, <2>1, <2>2 DEF HandlerKnows, Young, uploading, request, erasing
<1>6. PassesKnow'
  BY <1>1, <1>2 DEF StoreInv, StoreTypeOK, PassesKnow, PassKnows, Passes, uploading
<1>7. ErasuresKnow' /\ RowsAreUnique' /\ RetainedHasObject' /\ AcceptedIsKept' /\ NothingUntracked'
  BY <1>2 DEF StoreInv, ErasuresKnow, ErasureKnows, RowsAreUnique, RetainedHasObject,
              AcceptedIsKept, NothingUntracked, uploading, request, erasing
<1> QED BY <1>4, <1>5, <1>6, <1>7 DEF StoreInv

(***************************************************************************)
(* The steps of an erasure.                                                *)
(***************************************************************************)
LEMMA KnownErasure ==
  ASSUME StoreInv, NEW e \in Attempt
  PROVE  /\ ErasureKnows(e) /\ StoreTypeOK /\ erasure[e] \in Erasures
         /\ erasure[e].at \in Int /\ rows \subseteq Upload
         /\ participant \in [state : {"active", "deleting", "gone"}, device : BOOLEAN,
                             fence : Attempt \cup {Nothing}, tombstone : BOOLEAN]
<1>1. erasure[e] \in Erasures /\ ErasureKnows(e)
  BY DEF StoreInv, ErasuresKnow, StoreTypeOK
<1>2. erasure[e].at \in Int
  BY <1>1 DEF Erasures
<1> QED BY <1>1, <1>2 DEF StoreInv, StoreTypeOK

\* Steps of an erasure that change nothing but itself and its audit.
LEMMA ErasureOnlyKeeps ==
  ASSUME StoreInv, Calm \/ Trouble, NEW e \in Attempt, NEW f \in Erasures,
         erasure' = [erasure EXCEPT ![e] = f],
         UNCHANGED <<storing, request, participant, registration, objects, rows>>,
         audit' \in [Attempt -> {"none", "started", "stale", "finished"}],
         f.pc \in {"tombstone", "count", "page", "check", "remove", "recount", "finish"}
           => participant.state # "active",
         f.pc = "page" => \A u \in rows : u <= f.at => u \notin objects,
         f.pc \in {"check", "remove"} => \A u \in rows : u < f.at => u \notin objects,
         f.pc \in {"recount", "finish"} => \A u \in rows : u \notin objects
  PROVE  StoreInv'
<1>1. erasure'[e] = f
  BY KnownErasure DEF StoreTypeOK
<1>2. ErasureKnows(e)'
  BY <1>1 DEF ErasureKnows
<1>3. auth' \in [Upload -> {"unused", "consuming", "lapsed", "consumed", "revoked"}]
  BY KnownErasure DEF StoreTypeOK, request
<1> QED BY <1>2, <1>3, KnownErasure, ErasureStepKeeps DEF request

LEMMA ErasureReads ==
  ASSUME StoreInv, NEW e \in Attempt,
         \/ BeginErasure(e) \/ AssertOwner(e) \/ Count(e) \/ Page(e) \/ Recount(e)
         \/ Report(e) \/ ErasureFails(e) \/ AuditGoesStale(e)
  PROVE  StoreInv'
<1>1. /\ Calm \/ Trouble
      /\ UNCHANGED <<storing, request, participant, registration, objects, rows>>
  BY DEF BeginErasure, AssertOwner, Count, Page, Recount, Report, ErasureFails, AuditGoesStale
<1>2. audit' \in [Attempt -> {"none", "started", "stale", "finished"}]
  BY KnownErasure DEF StoreTypeOK, BeginErasure, AssertOwner, Count, Page, Recount, Report,
                      ErasureFails, AuditGoesStale
<1> USE KnownErasure
<1>3. CASE AuditGoesStale(e)
  <2>1. erasure' = [erasure EXCEPT ![e] = erasure[e]]
    BY <1>3 DEF AuditGoesStale, StoreTypeOK
  <2> QED BY <1>1, <1>2, <2>1, ErasureOnlyKeeps DEF ErasureKnows
<1>4. CASE Report(e) \/ ErasureFails(e)
  <2>1. PICK f \in Erasures : erasure' = [erasure EXCEPT ![e] = f] /\ f.pc \in {"report", "ended"}
    BY <1>4, ErasureMoves DEF Report, ErasureFails, ErasurePC
  <2> QED BY <1>1, <1>2, <2>1, ErasureOnlyKeeps
<1>5. CASE AssertOwner(e)
  <2>1. PICK f \in Erasures :
          /\ erasure' = [erasure EXCEPT ![e] = f] /\ f.at = erasure[e].at
          /\ \/ f.pc = "report"
             \/ f.pc = "tombstone" /\ Owns(e)
             \/ f.pc = "remove" /\ erasure[e].pc = "check"
    BY <1>5, ErasureMoves DEF AssertOwner, ErasurePC
  <2> QED BY <1>1, <1>2, <2>1, ErasureOnlyKeeps DEF ErasureKnows, Owns
<1>6. CASE Recount(e)
  <2>1. PICK f \in Erasures : /\ erasure' = [erasure EXCEPT ![e] = f]
                              /\ f.pc \in {"finish", "report"} /\ erasure[e].pc = "recount"
    BY <1>6, ErasureMoves DEF Recount, ErasurePC
  <2> QED BY <1>1, <1>2, <2>1, ErasureOnlyKeeps DEF ErasureKnows
<1>7. CASE BeginErasure(e)
  <2> DEFINE f == [erasure[e] EXCEPT
                     !.pc = IF setting.accountless /\ participant.device THEN "revoke"
                            ELSE IF participant.state = "active" THEN "mark" ELSE "take",
                     !.state = participant.state, !.fence = participant.fence]
  <2>1. erasure' = [erasure EXCEPT ![e] = f]
    BY <1>7 DEF BeginErasure, StoreTypeOK
  <2>2. /\ participant.state \in {"active", "deleting"}
        /\ participant.fence \in Attempt \cup {Nothing}
        /\ {"revoke", "mark", "take"} \subseteq ErasurePC
    BY <1>7 DEF BeginErasure, ErasurePC
  <2>3. f \in Erasures /\ f.pc \in {"revoke", "mark", "take"}
    BY <2>2 DEF Erasures
  <2> HIDE DEF f
  <2> QED BY <1>1, <1>2, <2>1, <2>3, ErasureOnlyKeeps
<1>8. CASE Count(e)
  <2> DEFINE f == [erasure[e] EXCEPT !.pc = "page", !.counted = Cardinality(rows), !.at = 0]
  <2>1. erasure' = [erasure EXCEPT ![e] = f]
    BY <1>8 DEF Count, StoreTypeOK
  <2>2. Cardinality(rows) \in Nat
    <3>1. IsFiniteSet(1 .. Uploads)
      BY FS_Interval
    <3>2. IsFiniteSet(rows)
      BY <3>1, FS_Subset DEF Upload
    <3> QED BY <3>2, FS_CardinalityType
  <2> HIDE DEF f
  <2>3. "page" \in ErasurePC /\ 0 \in 0 .. Uploads
    BY DEF ErasurePC
  <2>4. f \in Erasures /\ f.pc = "page" /\ f.at = 0
    BY <2>2, <2>3 DEF Erasures, f
  <2>5. \A u \in rows : ~(u <= 0)
    BY DEF Upload
  <2> QED BY <1>1, <1>2, <1>8, <2>1, <2>4, <2>5, ErasureOnlyKeeps DEF Count, ErasureKnows
<1>9. CASE Page(e)
  <2> DEFINE rest == {u \in rows : u > erasure[e].at}
  <2>1. CASE rest = {} /\ ErasureGoes(e, "recount")
    <3>1. PICK f \in Erasures : erasure' = [erasure EXCEPT ![e] = f] /\ f.pc = "recount"
      BY <2>1, ErasureMoves DEF ErasurePC
    <3>2. \A u \in rows : u <= erasure[e].at
      BY <2>1 DEF Upload
    <3> QED BY <1>1, <1>2, <1>9, <3>1, <3>2, ErasureOnlyKeeps DEF Page, ErasureKnows
  <2>2. ASSUME NEW u \in Least(rest), erasure' = [erasure EXCEPT ![e].pc = "check", ![e].at = u]
        PROVE  StoreInv'
    <3> DEFINE f == [erasure[e] EXCEPT !.pc = "check", !.at = u]
    <3>1. erasure' = [erasure EXCEPT ![e] = f]
      BY <2>2 DEF StoreTypeOK
    <3>2. u \in rows /\ u \in 0 .. Uploads /\ \A v \in rows : v > erasure[e].at => u <= v
      BY DEF Least, Upload
    <3>3. f \in Erasures /\ f.pc = "check" /\ f.at = u
      BY <3>2 DEF Erasures, ErasurePC
    <3> HIDE DEF f
    <3>4. \A v \in rows : v < u => v <= erasure[e].at
      BY <3>2 DEF Upload
    <3> QED BY <1>1, <1>2, <1>9, <3>1, <3>3, <3>4, ErasureOnlyKeeps DEF Page, ErasureKnows
  <2> QED BY <1>9, <2>1, <2>2 DEF Page
<1> QED BY <1>3, <1>4, <1>5, <1>6, <1>7, <1>8, <1>9

LEMMA ErasureWrites ==
  ASSUME StoreInv, NEW e \in Attempt,
         RevokeEnrollment(e) \/ Mark(e) \/ TakeOver(e) \/ Entomb(e)
  PROVE  StoreInv'
<1> USE KnownErasure
<1>1. PICK f \in Erasures :
        /\ erasure' = [erasure EXCEPT ![e] = f]
        /\ f.pc \in {"mark", "take", "assert", "report", "count"}
        /\ f.pc = "count" => erasure[e].pc = "tombstone"
  <2>1. CASE RevokeEnrollment(e)
    BY <2>1, ErasureMoves DEF RevokeEnrollment, ErasurePC
  <2>2. CASE Mark(e)
    BY <2>2, ErasureMoves DEF Mark, ErasurePC
  <2>3. CASE TakeOver(e)
    BY <2>3, ErasureMoves DEF TakeOver, ErasurePC
  <2>4. CASE Entomb(e)
    BY <2>4, ErasureMoves DEF Entomb, ErasurePC
  <2> QED BY <2>1, <2>2, <2>3, <2>4
<1>2. /\ Calm /\ UNCHANGED <<storing, receipt, handler, audit, registration, objects, rows>>
  BY DEF RevokeEnrollment, Mark, TakeOver, Entomb, request
<1>3. /\ participant' \in [state : {"active", "deleting", "gone"}, device : BOOLEAN,
                           fence : Attempt \cup {Nothing}, tombstone : BOOLEAN]
      /\ participant'.state = "active" => participant.state = "active"
  <2>1. CASE RevokeEnrollment(e)
    BY <2>1 DEF RevokeEnrollment
  <2>2. CASE Mark(e)
    BY <2>2 DEF Mark
  <2>3. CASE TakeOver(e)
    BY <2>3 DEF TakeOver
  <2>4. CASE Entomb(e)
    BY <2>4 DEF Entomb
  <2> QED BY <2>1, <2>2, <2>3, <2>4
<1>4. /\ auth' \in [Upload -> {"unused", "consuming", "lapsed", "consumed", "revoked"}]
      /\ \A u \in Upload : auth'[u] = "consuming" => auth[u] = "consuming"
  BY DEF RevokeEnrollment, Mark, TakeOver, Entomb, Revoked, request, StoreTypeOK
<1>5. erasure'[e] = f
  BY <1>1 DEF StoreTypeOK
<1>6. ErasureKnows(e)'
  BY <1>1, <1>3, <1>5 DEF ErasureKnows
<1>7. audit' \in [Attempt -> {"none", "started", "stale", "finished"}]
  BY <1>2 DEF StoreTypeOK
<1> QED BY <1>1, <1>2, <1>3, <1>4, <1>6, <1>7, ErasureStepKeeps

LEMMA RemoveKeeps ==
  ASSUME StoreInv, NEW e \in Attempt, Remove(e)
  PROVE  StoreInv'
<1>1. PICK f \in Erasures : /\ erasure' = [erasure EXCEPT ![e] = f]
                            /\ f.pc = "page" /\ f.at = erasure[e].at
  BY KnownErasure, ErasureMoves DEF Remove, ErasurePC
<1>2. /\ participant.state # "active" /\ erasure[e].at \in Int
      /\ \A u \in rows : u < erasure[e].at => u \notin objects
  BY KnownErasure DEF Remove, ErasureKnows
<1>3. /\ objects' = objects \ {erasure[e].at} /\ Calm
      /\ UNCHANGED <<storing, request, participant, audit, registration, rows>>
  BY DEF Remove
<1>4. StoreTypeOK'
  BY <1>1, <1>3, TroubleType DEF StoreInv, StoreTypeOK, storing, reconciling, request
<1>5. HandlersKnow' /\ PassesKnow'
  BY <1>2, <1>3 DEF StoreInv, HandlersKnow, HandlerKnows, PassesKnow, PassKnows, storing,
                    reconciling, request
<1>6. ErasuresKnow'
  <2> SUFFICES ASSUME NEW d \in Attempt PROVE ErasureKnows(d)'
    BY DEF ErasuresKnow
  <2>1. ErasureKnows(d)
    BY DEF StoreInv, ErasuresKnow
  <2>2. CASE d # e
    BY <1>1, <1>3, <2>1, <2>2 DEF StoreInv, StoreTypeOK, ErasureKnows
  <2>3. CASE d = e
    <3>1. erasure'[e] = f
      BY <1>1 DEF StoreInv, StoreTypeOK
    <3>2. \A u \in rows : u <= erasure[e].at => u \notin objects'
      BY <1>2, <1>3 DEF StoreInv, StoreTypeOK, Upload
    <3> QED BY <1>1, <1>2, <1>3, <2>3, <3>1, <3>2 DEF ErasureKnows
  <2> QED BY <2>2, <2>3
<1>7. RowsAreUnique' /\ RetainedHasObject' /\ AcceptedIsKept' /\ NothingUntracked'
  BY <1>2, <1>3 DEF StoreInv, RowsAreUnique, RetainedHasObject, AcceptedIsKept,
                    NothingUntracked, storing, request
<1> QED BY <1>4, <1>5, <1>6, <1>7 DEF StoreInv

LEMMA FinishKeeps ==
  ASSUME StoreInv, NEW e \in Attempt, FinishErasure(e)
  PROVE  StoreInv'
<1>1. PICK f \in Erasures : /\ erasure' = [erasure EXCEPT ![e] = f] /\ f.pc = "report"
  BY KnownErasure, ErasureMoves DEF FinishErasure, ErasurePC
<1>2. CASE Owns(e)
  <2>1. /\ \A u \in rows : u \notin objects
        /\ participant' = [participant EXCEPT !.state = "gone"]
        /\ rows' = {} /\ auth' = [u \in Upload |-> "revoked"]
        /\ receipt' = [u \in Upload |-> Nothing]
        /\ Calm /\ UNCHANGED <<storing, handler, audit, registration, objects>>
    BY <1>2, KnownErasure DEF FinishErasure, ErasureKnows
  <2>2. participant'.state = "gone"
    BY <2>1, KnownErasure
  <2>3. participant' \in [state : {"active", "deleting", "gone"}, device : BOOLEAN,
                          fence : Attempt \cup {Nothing}, tombstone : BOOLEAN]
    BY <2>1, KnownErasure
  <2>4. StoreTypeOK'
    BY <1>1, <2>1, <2>3, TroubleType DEF StoreInv, StoreTypeOK, storing, reconciling
  <2>5. HandlersKnow'
    BY <2>1, <2>2 DEF StoreInv, HandlersKnow, HandlerKnows, storing, reconciling
  <2>6. PassesKnow'
    BY <2>1 DEF StoreInv, PassesKnow, PassKnows, storing, reconciling
  <2>7. ErasuresKnow'
    BY <2>1, <2>2 DEF StoreInv, ErasuresKnow, ErasureKnows
  <2>8. RowsAreUnique' /\ RetainedHasObject' /\ AcceptedIsKept' /\ NothingUntracked'
    BY <2>1, <2>2 DEF StoreInv, RowsAreUnique, RetainedHasObject, AcceptedIsKept,
                      NothingUntracked
  <2> QED BY <2>4, <2>5, <2>6, <2>7, <2>8 DEF StoreInv
<1>3. CASE ~Owns(e)
  <2>1. /\ Calm
        /\ UNCHANGED <<storing, request, participant, audit, registration, objects, rows>>
    BY <1>3 DEF FinishErasure, request
  <2> QED BY <1>1, <2>1, KnownErasure, ErasureOnlyKeeps DEF StoreTypeOK
<1> QED BY <1>2, <1>3

(***************************************************************************)
(* The invariant, and what follows from it.                                *)
(***************************************************************************)
LEMMA StoreStep == StoreInv /\ [StoreNext]_vars => StoreInv'
<1> SUFFICES ASSUME StoreInv, [StoreNext]_vars PROVE StoreInv'
  OBVIOUS
<1>1. ASSUME NEW x \in Upload, HandlerStep(x) \/ HandlerTrouble(x)
      PROVE  StoreInv'
  BY <1>1, HandlerQuietly, RequestKeeps, RegisterKeeps, PutKeeps, InsertKeeps, CleanupKeeps
     DEF HandlerStep, HandlerTrouble
<1>2. ASSUME NEW x \in Upload, Claim(x) \/ Lapse(x)
      PROVE  StoreInv'
  BY <1>2, RequestKeeps
<1>3. ASSUME NEW r \in Pass, PassStep(r) \/ PassFails(r)
      PROVE  StoreInv'
  BY <1>3, LeaseKeeps, SelectKeeps, ReadKeeps, DeleteOrphanKeeps, ReconciliationKeeps
     DEF PassStep
<1>4. ASSUME NEW e \in Attempt, ErasureStep(e) \/ ErasureFails(e) \/ AuditGoesStale(e)
      PROVE  StoreInv'
  BY <1>4, ErasureReads, ErasureWrites, RemoveKeeps, FinishKeeps DEF ErasureStep
<1>5. CASE UNCHANGED vars
  BY <1>5 DEF vars, request, reconciling, erasing, StoreInv, StoreTypeOK, RowsAreUnique,
              HandlersKnow, HandlerKnows, PassesKnow, PassKnows, ErasuresKnow, ErasureKnows,
              RetainedHasObject, AcceptedIsKept, NothingUntracked
<1> QED BY <1>1, <1>2, <1>3, <1>4, <1>5, TimeKeeps DEF StoreNext

\* Everything above holds of every behaviour, whatever fails.
THEOREM StoreSpecInv == StoreSpec => []StoreInv
BY InitStoreInv, StoreStep, PTL DEF StoreSpec

\* The variables keep their types: no step leaves a request, a pass or an
\* erasure in a place the code does not have.
THEOREM StoreTypeCorrect == StoreSpec => []StoreTypeOK
BY StoreSpecInv, PTL DEF StoreInv

\* No cleanup wins over an accepted upload: not the catch clause of a handler
\* whose insert was committed unheard, not a pass that read before the insert.
THEOREM RetainedRowsHaveObjects == StoreSpec => []RetainedHasObject
BY StoreSpecInv, PTL DEF StoreInv

\* What a receipt names is there for as long as its participant is.
THEOREM AcknowledgedIsKept == StoreSpec => []AcceptedIsKept
BY StoreSpecInv, PTL DEF StoreInv

\* An object that has lost its row has a registration, also after an erasure.
THEOREM ObjectsAreTracked == StoreSpec => []NothingUntracked
BY StoreSpecInv, PTL DEF StoreInv
=============================================================================
