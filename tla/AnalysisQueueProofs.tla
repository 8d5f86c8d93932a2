-------------------------- MODULE AnalysisQueueProofs --------------------------
(***************************************************************************)
(* For any set of accounts, invocations and windows, and any number of     *)
(* things that go wrong: a settled row has the caches of the current       *)
(* input, no public account is forgotten, the receipt tells the truth, an  *)
(* invocation publishes only what is current, and accounts take turns.     *)
(***************************************************************************)
EXTENDS AnalysisQueue, FiniteSetTheorems, TLAPS

USE AnalysisConstants

(***************************************************************************)
(* The inductive invariant.                                                *)
(***************************************************************************)
\* A row belongs to a public account, and its id to no other row.
RowsAreOwn ==
  /\ \A a \in Account : HasRow(a) => a \in public
  /\ \A a, b \in Account : HasRow(a) /\ HasRow(b) /\ queue[a].id = queue[b].id => a = b

\* A row that still has the id of a claim has not lost any of its marks.
ClaimsAreBehind ==
  \A i \in Worker : worker[i].claim # Nothing =>
    LET c == worker[i].claim
    IN  /\ c.id < nextId
        /\ HasRow(c.account) /\ queue[c.account].id = c.id => c.dirty <= queue[c.account].dirty

\* A row without a mark since it was claimed still has the caches that were seen.
AcknowledgesWhatIs ==
  \A i \in Worker : worker[i].pc = "acknowledging" =>
    LET c == worker[i].claim
    IN  /\ c # Nothing
        /\ HasRow(c.account) /\ queue[c.account].id = c.id /\ queue[c.account].dirty = c.dirty
             => cache[c.account] = [revision |-> c.revision, window |-> worker[i].window]

Working == {"probing", "retiring", "acknowledging", "asserting", "publishing"}

ClaimsAreHeld == \A i \in Worker : worker[i].pc \in Working => worker[i].claim # Nothing

\* A row that was served while an account waited stands behind it.
OvertakersAreBehind ==
  \A b \in Account :
    /\ \A n \in overtaken[b] : n < nextId
    /\ \A a \in Account : HasRow(a) /\ queue[a].id \in overtaken[b] =>
         /\ 0 < queue[a].served
         /\ a # b /\ HasRow(b) => queue[b].served < queue[a].served

AnalysisInv ==
  /\ AnalysisTypeOK /\ RowsAreOwn /\ ClaimsAreBehind /\ AcknowledgesWhatIs /\ ClaimsAreHeld
  /\ OvertakersAreBehind /\ SettledIsCurrent /\ SourcesAreQueued

LEMMA ARow ==
  ASSUME NEW x \in Nat, NEW d \in Nat, NEW w \in Nat, NEW p \in BOOLEAN, NEW s \in Nat
  PROVE  /\ [id |-> x, dirty |-> d, window |-> w, pending |-> p, served |-> s] \in Rows
         /\ [id |-> x, dirty |-> d, window |-> w, pending |-> p, served |-> s] # Nothing
<1>1. [id |-> x, dirty |-> d, window |-> w, pending |-> p, served |-> s] \in Rows
  BY Zenon DEF Rows
<1> QED BY <1>1, NothingIsNoRecord, Zenon

LEMMA RestsType ==
     \A w \in Window : Rests(w) \in Workers /\ Rests(w).claim = Nothing /\ Rests(w).pc = "idle"
BY DEF Rests, Workers, WorkerPC

LEMMA InitAnalysisInv == AnalysisInit => AnalysisInv
<1> SUFFICES ASSUME AnalysisInit PROVE AnalysisInv
  OBVIOUS
<1>0. PICK n \in Nat : n = Cardinality(Account)
  BY FS_CardinalityType
<1>1. /\ queue \in [Account -> [id : 1 .. n, dirty : {1}, window : {0}, pending : {TRUE},
                               served : {0}]]
      /\ nextId = n + 1
  BY <1>0 DEF AnalysisInit
<1>2. ASSUME NEW a \in Account
      PROVE  /\ queue[a] \in Rows /\ queue[a].id < nextId /\ queue[a].window = 0
             /\ queue[a].served = 0 /\ queue[a].pending /\ queue[a] # Nothing
  <2>1. queue[a] \in [id : 1 .. n, dirty : {1}, window : {0}, pending : {TRUE}, served : {0}]
    BY <1>1
  <2>2. /\ queue[a].id \in 1 .. n /\ queue[a].dirty = 1 /\ queue[a].window = 0
        /\ queue[a].served = 0 /\ queue[a].pending = TRUE
        /\ queue[a] = [id |-> queue[a].id, dirty |-> 1, window |-> 0, pending |-> TRUE,
                      served |-> 0]
    BY <2>1
  <2>3. queue[a] \in Rows
    <3>1. queue[a].id \in Nat
      BY <2>2
    <3>2. [id |-> queue[a].id, dirty |-> 1, window |-> 0, pending |-> TRUE, served |-> 0] \in Rows
      BY <3>1, ARow
    <3> QED BY <2>2, <3>2, Zenon
  <2>4. queue[a] # Nothing
    BY <2>3, NothingIsNoRecord, Zenon
  <2>5. queue[a].id < nextId
    BY <2>2, <1>0, <1>1
  <2> QED BY <2>2, <2>3, <2>4, <2>5
<1>3. \A i \in Worker : /\ worker[i] \in Workers /\ worker[i].claim = Nothing
                        /\ worker[i].pc = "idle"
  BY RestsType DEF AnalysisInit
<1>4. AnalysisTypeOK
  <2>1. nextId \in Nat /\ queue \in [Account -> Rows \cup {Nothing}]
    BY <1>1, <1>2
  <2> QED BY <1>2, <1>3, <2>1 DEF AnalysisInit, AnalysisTypeOK
<1>5. RowsAreOwn
  BY DEF AnalysisInit, RowsAreOwn
<1>6. ClaimsAreBehind /\ AcknowledgesWhatIs /\ ClaimsAreHeld
  BY <1>3 DEF ClaimsAreBehind, AcknowledgesWhatIs, ClaimsAreHeld, Working
<1>7. OvertakersAreBehind
  BY DEF AnalysisInit, OvertakersAreBehind
<1>8. SettledIsCurrent
  BY <1>2 DEF SettledIsCurrent
<1>9. SourcesAreQueued
  BY <1>2 DEF AnalysisInit, SourcesAreQueued, HasRow
<1> QED BY <1>4, <1>5, <1>6, <1>7, <1>8, <1>9 DEF AnalysisInv

(***************************************************************************)
(* How a step that claims nothing moves the rows and the invocations.      *)
(***************************************************************************)
\* A row keeps its id and its place and loses no mark; a new one has a new id.
RowEvolves(a) ==
  queue'[a] # Nothing =>
    \/ /\ queue[a] # Nothing
       /\ queue'[a].id = queue[a].id /\ queue'[a].served = queue[a].served
       /\ queue[a].dirty <= queue'[a].dirty
    \/ /\ queue[a] = Nothing
       /\ queue'[a].id = nextId /\ nextId' = nextId + 1 /\ queue'[a].served = 0

Evolves ==
  /\ nextId <= nextId'
  /\ \A a \in Account : RowEvolves(a)
  /\ \A a, b \in Account :
       queue[a] = Nothing /\ queue[b] = Nothing /\ queue'[a] # Nothing /\ queue'[b] # Nothing
         => a = b

\* A cache entry that changes leaves a mark on its row.
CachesLeaveMarks ==
  \A a \in Account :
    queue[a] # Nothing /\ queue'[a] # Nothing /\ queue'[a].dirty = queue[a].dirty
      => cache'[a] = cache[a]

WorkerKeeps(i) ==
  /\ worker'[i].claim \in {worker[i].claim, Nothing}
  /\ worker'[i].pc \in Working => worker'[i].claim # Nothing
  /\ worker'[i].pc = "acknowledging" =>
       /\ worker'[i].window = worker[i].window
       /\ \/ worker[i].pc = "acknowledging"
          \/ cache[worker[i].claim.account] =
               [revision |-> worker[i].claim.revision, window |-> worker[i].window]

LEMMA ClaimType ==
  ASSUME AnalysisTypeOK, NEW i \in Worker, worker[i].claim # Nothing
  PROVE  /\ worker[i].claim \in Claims /\ worker[i].claim.account \in Account
         /\ worker[i].claim.id \in Nat /\ worker[i].claim.dirty \in Nat
         /\ worker[i].claim.revision \in Nat
<1>1. worker[i].claim \in Claims \cup {Nothing}
  BY DEF AnalysisTypeOK, Workers
<1>2. worker[i].claim \in Claims
  BY <1>1
<1> QED BY <1>2 DEF Claims

LEMMA RowType ==
  ASSUME AnalysisTypeOK, NEW a \in Account, queue[a] # Nothing
  PROVE  /\ queue[a] \in Rows /\ queue[a].id \in Nat /\ queue[a].dirty \in Nat
         /\ queue[a].window \in Nat /\ queue[a].served \in Nat /\ queue[a].pending \in BOOLEAN
<1>1. queue[a] \in Rows
  BY DEF AnalysisTypeOK
<1> QED BY <1>1 DEF Rows

LEMMA EvolutionKeeps ==
  ASSUME AnalysisInv, AnalysisTypeOK', Evolves, CachesLeaveMarks, UNCHANGED overtaken,
         \A i \in Worker : WorkerKeeps(i),
         \A a \in Account : queue'[a] # Nothing => a \in public',
         SettledIsCurrent', SourcesAreQueued'
  PROVE  AnalysisInv'
<1> USE DEF AnalysisInv
<1>a. \A a \in Account : queue[a] # Nothing =>
        /\ queue[a].id \in Nat /\ queue[a].dirty \in Nat /\ queue[a].served \in Nat
        /\ queue[a].id < nextId
  BY RowType DEF AnalysisTypeOK
<1>b. \A a \in Account : queue'[a] # Nothing =>
        /\ queue'[a].id \in Nat /\ queue'[a].dirty \in Nat /\ queue'[a].served \in Nat
  BY DEF AnalysisTypeOK, Rows
<1>c. nextId \in Nat /\ nextId' \in Nat /\ nextId <= nextId'
  BY DEF AnalysisTypeOK, Evolves
<1>1. RowsAreOwn'
  <2> SUFFICES ASSUME NEW a \in Account, NEW b \in Account, queue'[a] # Nothing,
                      queue'[b] # Nothing, queue'[a].id = queue'[b].id
               PROVE  a = b
    BY DEF RowsAreOwn, HasRow
  <2>1. RowEvolves(a) /\ RowEvolves(b)
    BY DEF Evolves
  <2>2. CASE queue[a] # Nothing /\ queue[b] # Nothing
    BY <2>1, <2>2 DEF RowEvolves, RowsAreOwn, HasRow
  <2>3. CASE queue[a] = Nothing /\ queue[b] = Nothing
    BY <2>3 DEF Evolves
  <2>4. CASE queue[a] = Nothing /\ queue[b] # Nothing
    BY <2>1, <2>4, <1>a, <1>c DEF RowEvolves
  <2>5. CASE queue[a] # Nothing /\ queue[b] = Nothing
    BY <2>1, <2>5, <1>a, <1>c DEF RowEvolves
  <2> QED BY <2>2, <2>3, <2>4, <2>5
<1>2. ClaimsAreBehind'
  <2> SUFFICES ASSUME NEW i \in Worker, worker'[i].claim # Nothing
               PROVE  LET c == worker'[i].claim
                      IN  /\ c.id < nextId'
                          /\ queue'[c.account] # Nothing /\ queue'[c.account].id = c.id
                               => c.dirty <= queue'[c.account].dirty
    BY DEF ClaimsAreBehind, HasRow
  <2>1. worker'[i].claim = worker[i].claim /\ worker[i].claim # Nothing
    BY DEF WorkerKeeps
  <2> DEFINE c == worker[i].claim
  <2>2. c.account \in Account /\ c.id \in Nat /\ c.dirty \in Nat
    BY <2>1, ClaimType
  <2>3. /\ c.id < nextId
        /\ queue[c.account] # Nothing /\ queue[c.account].id = c.id
             => c.dirty <= queue[c.account].dirty
    BY <2>1 DEF ClaimsAreBehind, HasRow
  <2>4. RowEvolves(c.account)
    BY <2>2 DEF Evolves
  <2> HIDE DEF c
  <2>5. c.id < nextId'
    BY <2>2, <2>3, <1>c
  <2>6. queue'[c.account] # Nothing /\ queue'[c.account].id = c.id
          => c.dirty <= queue'[c.account].dirty
    BY <2>2, <2>3, <2>4, <1>a, <1>b, <1>c DEF RowEvolves
  <2> QED BY <2>1, <2>5, <2>6 DEF c
<1>3. AcknowledgesWhatIs'
  <2> SUFFICES ASSUME NEW i \in Worker, worker'[i].pc = "acknowledging"
               PROVE  LET c == worker'[i].claim
                      IN  /\ c # Nothing
                          /\ queue'[c.account] # Nothing /\ queue'[c.account].id = c.id
                             /\ queue'[c.account].dirty = c.dirty
                               => cache'[c.account] = [revision |-> c.revision,
                                                       window |-> worker'[i].window]
    BY DEF AcknowledgesWhatIs, HasRow
  <2>1. /\ worker'[i].claim = worker[i].claim /\ worker[i].claim # Nothing
        /\ worker'[i].window = worker[i].window
    BY DEF WorkerKeeps, Working
  <2> DEFINE c == worker[i].claim
  <2>2. c.account \in Account /\ c.id \in Nat /\ c.dirty \in Nat
    BY <2>1, ClaimType
  <2>3. /\ c.id < nextId
        /\ queue[c.account] # Nothing /\ queue[c.account].id = c.id
             => c.dirty <= queue[c.account].dirty
    BY <2>1 DEF ClaimsAreBehind, HasRow
  <2>4. RowEvolves(c.account)
    BY <2>2 DEF Evolves
  <2>5. queue[c.account] # Nothing /\ queue[c.account].id = c.id /\ queue[c.account].dirty = c.dirty
          => cache[c.account] = [revision |-> c.revision, window |-> worker[i].window]
    BY DEF WorkerKeeps, AcknowledgesWhatIs, HasRow
  <2>6. queue[c.account] # Nothing /\ queue'[c.account] # Nothing
        /\ queue'[c.account].dirty = queue[c.account].dirty => cache'[c.account] = cache[c.account]
    BY <2>2 DEF CachesLeaveMarks
  <2> HIDE DEF c
  <2>7. ASSUME queue'[c.account] # Nothing, queue'[c.account].id = c.id,
               queue'[c.account].dirty = c.dirty
        PROVE  /\ queue[c.account] # Nothing /\ queue[c.account].id = c.id
               /\ queue[c.account].dirty = c.dirty
    BY <2>2, <2>3, <2>4, <2>7, <1>a, <1>b, <1>c DEF RowEvolves
  <2>8. queue'[c.account] # Nothing /\ queue'[c.account].id = c.id
        /\ queue'[c.account].dirty = c.dirty
          => cache'[c.account] = [revision |-> c.revision, window |-> worker[i].window]
    <3> SUFFICES ASSUME queue'[c.account] # Nothing, queue'[c.account].id = c.id,
                        queue'[c.account].dirty = c.dirty
                 PROVE  cache'[c.account] = [revision |-> c.revision, window |-> worker[i].window]
      OBVIOUS
    <3>1. /\ queue[c.account] # Nothing /\ queue[c.account].id = c.id
          /\ queue[c.account].dirty = c.dirty
      BY <2>7
    <3> QED BY <3>1, <2>5, <2>6
  <2> QED BY <2>1, <2>8 DEF c
<1>4. ClaimsAreHeld'
  BY DEF WorkerKeeps, ClaimsAreHeld
<1>5. OvertakersAreBehind'
  <2>1. ASSUME NEW b \in Account, NEW n \in overtaken[b] PROVE n < nextId'
    <3>1. n \in Nat /\ n < nextId
      BY DEF OvertakersAreBehind, AnalysisTypeOK
    <3> QED BY <3>1, <1>c
  <2>2. ASSUME NEW b \in Account, NEW a \in Account, queue'[a] # Nothing,
               queue'[a].id \in overtaken[b]
        PROVE  /\ 0 < queue'[a].served
               /\ a # b /\ queue'[b] # Nothing => queue'[b].served < queue'[a].served
    <3>1. RowEvolves(a) /\ RowEvolves(b)
      BY DEF Evolves
    <3>2. /\ queue[a] # Nothing /\ queue'[a].id = queue[a].id
          /\ queue'[a].served = queue[a].served
      BY <2>2, <3>1, <1>c DEF RowEvolves, OvertakersAreBehind
    <3>3. /\ 0 < queue[a].served
          /\ a # b /\ queue[b] # Nothing => queue[b].served < queue[a].served
      BY <2>2, <3>2 DEF OvertakersAreBehind, HasRow
    <3> QED BY <3>1, <3>2, <3>3 DEF RowEvolves
  <2> QED BY <2>1, <2>2 DEF OvertakersAreBehind, HasRow
<1> QED BY <1>1, <1>2, <1>3, <1>4, <1>5

(***************************************************************************)
(* What the triggers and the steps of an invocation do to the rows.        *)
(***************************************************************************)
\* The row of one account is touched: marked, made, removed or left alone.
Touched(a) ==
  /\ nextId' \in Nat
  /\ queue' \in [Account -> Rows \cup {Nothing}]
  /\ \A b \in Account : b # a => queue'[b] = queue[b]
  /\ \/ queue'[a] = Nothing /\ nextId' = nextId
     \/ /\ queue[a] # Nothing /\ queue'[a] # Nothing /\ nextId' = nextId
        /\ queue'[a].id = queue[a].id /\ queue'[a].served = queue[a].served
        /\ queue'[a].window = queue[a].window /\ queue[a].dirty <= queue'[a].dirty
     \/ /\ queue[a] = Nothing /\ queue'[a] # Nothing /\ nextId' = nextId + 1
        /\ queue'[a].id = nextId /\ queue'[a].served = 0
        /\ queue'[a].window = current.generation

LEMMA RowRollsOver ==
  ASSUME NEW r \in Rows, NEW d \in Nat, NEW g \in Nat
  PROVE  LET q == [r EXCEPT !.window = g, !.pending = TRUE, !.dirty = d]
         IN  /\ q \in Rows /\ q.id = r.id /\ q.served = r.served
             /\ q.dirty = d /\ q.window = g /\ q.pending = TRUE
<1> DEFINE q == [r EXCEPT !.window = g, !.pending = TRUE, !.dirty = d]
<1>1. q \in Rows
  BY DEF Rows
<1>2. q.id = r.id /\ q.served = r.served /\ q.dirty = d /\ q.window = g /\ q.pending = TRUE
  BY DEF Rows
<1> QED BY <1>1, <1>2

LEMMA TouchEvolves ==
  ASSUME AnalysisTypeOK, NEW a \in Account, Touched(a)
  PROVE  Evolves
<1>1. \A b \in Account : queue[b] # Nothing => queue[b].dirty \in Nat
  BY RowType
<1>2. nextId \in Nat
  BY DEF AnalysisTypeOK
<1>3. ASSUME NEW b \in Account PROVE RowEvolves(b)
  <2>1. CASE b = a
    BY <2>1 DEF Touched, RowEvolves
  <2>2. CASE b # a
    BY <2>2, <1>1 DEF Touched, RowEvolves
  <2> QED BY <2>1, <2>2
<1> QED BY <1>2, <1>3 DEF Touched, Evolves

LEMMA TouchType ==
  ASSUME AnalysisTypeOK, NEW a \in Account, Touched(a), UNCHANGED current
  PROVE  /\ queue' \in [Account -> Rows \cup {Nothing}] /\ nextId' \in Nat
         /\ \A b \in Account : queue'[b] # Nothing =>
              /\ queue'[b].id < nextId' /\ queue'[b].window <= current'.generation
              /\ queue'[b].served <= current'.sequence
<1>1. /\ nextId \in Nat /\ current.generation \in Nat /\ current.sequence \in Nat
      /\ \A b \in Account : queue[b] # Nothing =>
           /\ queue[b].id \in Nat /\ queue[b].id < nextId /\ queue[b].window <= current.generation
           /\ queue[b].served <= current.sequence
  BY RowType DEF AnalysisTypeOK
<1>2. ASSUME NEW b \in Account, queue'[b] # Nothing
      PROVE  /\ queue'[b].id < nextId' /\ queue'[b].window <= current.generation
             /\ queue'[b].served <= current.sequence
  <2>1. CASE b = a
    BY <2>1, <1>1, <1>2 DEF Touched
  <2>2. CASE b # a
    BY <2>2, <1>1, <1>2 DEF Touched
  <2> QED BY <2>1, <2>2
<1> QED BY <1>2 DEF Touched

LEMMA NewRowIsOne ==
  ASSUME AnalysisTypeOK
  PROVE  NewRow \in Rows /\ NewRow # Nothing
BY ARow DEF NewRow, AnalysisTypeOK

LEMMA RowStaysOne ==
  ASSUME NEW r \in Rows, NEW d \in Nat, NEW p \in BOOLEAN
  PROVE  /\ [r EXCEPT !.dirty = d, !.pending = p] \in Rows
         /\ [r EXCEPT !.dirty = d, !.pending = p] # Nothing
         /\ [r EXCEPT !.pending = p] \in Rows /\ [r EXCEPT !.pending = p] # Nothing
<1>1. [r EXCEPT !.dirty = d, !.pending = p] \in Rows /\ [r EXCEPT !.pending = p] \in Rows
  BY DEF Rows
<1> QED BY <1>1, NothingIsNoRecord, Zenon

\* The triggers leave a public account with a row that waits and has a new mark.
LEMMA EnqueueTouches ==
  ASSUME AnalysisTypeOK, NEW a \in Account, NEW owners, Enqueue(a, owners)
  PROVE  /\ Touched(a)
         /\ a \in owners => /\ queue'[a] # Nothing /\ queue'[a].pending
                            /\ queue[a] # Nothing => queue'[a].dirty # queue[a].dirty
         /\ a \notin owners => queue' = queue
<1> USE DEF Enqueue, HasRow
<1>0. queue \in [Account -> Rows \cup {Nothing}] /\ nextId \in Nat
  BY DEF AnalysisTypeOK
<1>1. CASE a \notin owners
  BY <1>0, <1>1, RowType DEF Touched
<1>2. CASE a \in owners /\ queue[a] # Nothing
  <2> DEFINE r == [queue[a] EXCEPT !.dirty = queue[a].dirty + 1, !.pending = TRUE]
  <2>1. /\ queue[a] \in Rows /\ queue[a].dirty \in Nat
    BY <1>2, RowType
  <2>2. r \in Rows /\ r # Nothing
    <3>1. queue[a].dirty + 1 \in Nat
      BY <2>1
    <3> QED BY <2>1, <3>1, RowStaysOne, Zenon
  <2>3. /\ r.id = queue[a].id /\ r.served = queue[a].served /\ r.window = queue[a].window
        /\ r.dirty = queue[a].dirty + 1 /\ r.pending = TRUE
    BY <2>1 DEF Rows
  <2>4. queue' = [queue EXCEPT ![a] = r] /\ nextId' = nextId
    BY <1>2
  <2> HIDE DEF r
  <2>5. queue'[a] = r /\ \A b \in Account : b # a => queue'[b] = queue[b]
    BY <2>4, <1>0
  <2>6. queue' \in [Account -> Rows \cup {Nothing}]
    BY <2>2, <2>4, <1>0
  <2>7. queue[a].dirty <= r.dirty /\ r.dirty # queue[a].dirty
    BY <2>1, <2>3
  <2>8. Touched(a)
    BY <1>0, <1>2, <2>2, <2>3, <2>4, <2>5, <2>6, <2>7 DEF Touched
  <2> QED BY <1>2, <2>2, <2>3, <2>5, <2>7, <2>8
<1>3. CASE a \in owners /\ queue[a] = Nothing
  <2>1. queue' = [queue EXCEPT ![a] = NewRow] /\ nextId' = nextId + 1
    BY <1>3
  <2>2. NewRow \in Rows /\ NewRow # Nothing
    BY NewRowIsOne
  <2>3. /\ NewRow.id = nextId /\ NewRow.served = 0 /\ NewRow.window = current.generation
        /\ NewRow.pending = TRUE
    BY DEF NewRow
  <2>4. queue'[a] = NewRow /\ \A b \in Account : b # a => queue'[b] = queue[b]
    BY <2>1, <1>0
  <2>5. queue' \in [Account -> Rows \cup {Nothing}]
    BY <2>1, <2>2, <1>0
  <2> QED BY <1>0, <1>3, <2>1, <2>2, <2>3, <2>4, <2>5 DEF Touched
<1> QED BY <1>1, <1>2, <1>3

\* The bootstrap leaves it waiting, with the marks it had.
LEMMA BootstrapTouches ==
  ASSUME AnalysisTypeOK, NEW a \in Account, NEW owners, EnqueuePendingOnly(a, owners)
  PROVE  /\ Touched(a)
         /\ a \in owners => queue'[a] # Nothing /\ queue'[a].pending
         /\ a \notin owners => queue' = queue
<1> USE DEF EnqueuePendingOnly, HasRow
<1>0. queue \in [Account -> Rows \cup {Nothing}] /\ nextId \in Nat
  BY DEF AnalysisTypeOK
<1>1. CASE a \notin owners
  BY <1>0, <1>1, RowType DEF Touched
<1>2. CASE a \in owners /\ queue[a] # Nothing
  <2> DEFINE r == [queue[a] EXCEPT !.pending = TRUE]
  <2>1. /\ queue[a] \in Rows /\ queue[a].dirty \in Nat
    BY <1>2, RowType
  <2>2. r \in Rows /\ r # Nothing
    BY <2>1, RowStaysOne
  <2>3. /\ r.id = queue[a].id /\ r.served = queue[a].served /\ r.window = queue[a].window
        /\ r.dirty = queue[a].dirty /\ r.pending = TRUE
    BY <2>1 DEF Rows
  <2>4. queue' = [queue EXCEPT ![a] = r] /\ nextId' = nextId
    BY <1>2
  <2> HIDE DEF r
  <2>5. queue'[a] = r /\ \A b \in Account : b # a => queue'[b] = queue[b]
    BY <2>4, <1>0
  <2>6. queue' \in [Account -> Rows \cup {Nothing}]
    BY <2>2, <2>4, <1>0
  <2>7. queue[a].dirty <= r.dirty
    BY <2>1, <2>3
  <2>8. Touched(a)
    BY <1>0, <1>2, <2>2, <2>3, <2>4, <2>5, <2>6, <2>7 DEF Touched
  <2> QED BY <1>2, <2>2, <2>3, <2>5, <2>8
<1>3. CASE a \in owners /\ queue[a] = Nothing
  <2>1. queue' = [queue EXCEPT ![a] = NewRow] /\ nextId' = nextId + 1
    BY <1>3
  <2>2. NewRow \in Rows /\ NewRow # Nothing
    BY NewRowIsOne
  <2>3. /\ NewRow.id = nextId /\ NewRow.served = 0 /\ NewRow.window = current.generation
        /\ NewRow.pending = TRUE
    BY DEF NewRow
  <2>4. queue'[a] = NewRow /\ \A b \in Account : b # a => queue'[b] = queue[b]
    BY <2>1, <1>0
  <2>5. queue' \in [Account -> Rows \cup {Nothing}]
    BY <2>1, <2>2, <1>0
  <2> QED BY <1>0, <1>3, <2>1, <2>2, <2>3, <2>4, <2>5 DEF Touched
<1> QED BY <1>1, <1>2, <1>3

\* An acknowledgement settles a row and leaves its marks, a publication adds one.
LEMMA SettlingTouches ==
  ASSUME AnalysisTypeOK, NEW a \in Account, queue[a] # Nothing, UNCHANGED nextId,
         NEW d \in Nat, queue[a].dirty <= d,
         \/ queue' = [queue EXCEPT ![a].dirty = d, ![a].pending = FALSE]
         \/ queue' = [queue EXCEPT ![a].pending = FALSE] /\ d = queue[a].dirty
  PROVE  /\ Touched(a)
         /\ queue'[a] # Nothing /\ queue'[a].window = queue[a].window /\ queue'[a].dirty = d
<1>0. /\ queue \in [Account -> Rows \cup {Nothing}] /\ nextId \in Nat
      /\ queue[a] \in Rows
  BY RowType DEF AnalysisTypeOK
<1>1. PICK r : /\ queue' = [queue EXCEPT ![a] = r]
               /\ \/ r = [queue[a] EXCEPT !.dirty = d, !.pending = FALSE]
                  \/ r = [queue[a] EXCEPT !.pending = FALSE] /\ d = queue[a].dirty
  BY Zenon
<1>2. r \in Rows /\ r # Nothing
  BY <1>0, <1>1, RowStaysOne
<1>3. /\ r.id = queue[a].id /\ r.served = queue[a].served /\ r.window = queue[a].window
      /\ r.dirty = d
  BY <1>0, <1>1 DEF Rows
<1>4. /\ queue'[a] = r /\ \A b \in Account : b # a => queue'[b] = queue[b]
      /\ queue' \in [Account -> Rows \cup {Nothing}]
  BY <1>0, <1>1, <1>2
<1> QED BY <1>0, <1>2, <1>3, <1>4 DEF Touched

LEMMA RemovalTouches ==
  ASSUME AnalysisTypeOK, NEW a \in Account, UNCHANGED nextId,
         queue' = [queue EXCEPT ![a] = Nothing]
  PROVE  Touched(a) /\ queue'[a] = Nothing
BY DEF AnalysisTypeOK, Touched

LEMMA StandingTouches ==
  ASSUME AnalysisTypeOK, NEW a \in Account, UNCHANGED <<queue, nextId>>
  PROVE  Touched(a)
BY RowType DEF AnalysisTypeOK, Touched

(***************************************************************************)
(* Types.                                                                  *)
(***************************************************************************)
LEMMA GoesTo ==
  ASSUME AnalysisTypeOK, NEW i \in Worker, NEW pc \in WorkerPC, Goes(i, pc)
  PROVE  /\ worker' \in [Worker -> Workers]
         /\ \A j \in Worker : /\ worker'[j].claim = worker[j].claim
                              /\ worker'[j].window = worker[j].window
                              /\ worker'[j].generation = worker[j].generation
         /\ \A j \in Worker : j # i => worker'[j] = worker[j]
         /\ worker'[i].pc = pc
<1>1. worker \in [Worker -> Workers]
  BY DEF AnalysisTypeOK
<1>2. worker[i] \in Workers
  BY <1>1
<1>3. [worker[i] EXCEPT !.pc = pc] \in Workers
  BY <1>2 DEF Workers
<1>4. worker' = [worker EXCEPT ![i] = [worker[i] EXCEPT !.pc = pc]]
  BY DEF Goes
<1>5. /\ worker'[i] = [worker[i] EXCEPT !.pc = pc]
      /\ \A j \in Worker : j # i => worker'[j] = worker[j]
  BY <1>1, <1>4
<1>6. /\ worker'[i].pc = pc /\ worker'[i].claim = worker[i].claim
      /\ worker'[i].window = worker[i].window /\ worker'[i].generation = worker[i].generation
  BY <1>2, <1>5 DEF Workers
<1> QED BY <1>1, <1>3, <1>4, <1>5, <1>6

LEMMA RestsGo ==
  ASSUME AnalysisTypeOK, NEW i \in Worker, worker' = [worker EXCEPT ![i] = Rests(today)]
  PROVE  worker' \in [Worker -> Workers]
BY RestsType DEF AnalysisTypeOK

\* The other variables keep their types in every step, whatever becomes of the
\* queue and of the invocations.
RestTypeOK ==
  /\ revision \in [Account -> Nat] /\ stocked \subseteq Account /\ public \subseteq Account
  /\ cache \in [Account -> Caches \cup {Nothing}]
  /\ current \in [window : Window \cup {Nothing}, generation : Nat, sequence : Nat]
  /\ lane \in [complete : BOOLEAN, epoch : Nat, window : Window \cup {Nothing}]
  /\ epoch \in Nat /\ today \in Window
  /\ lease \in [owner : Worker \cup {Nothing}, live : BOOLEAN]
  /\ overtaken \in [Account -> SUBSET Nat]
  /\ trouble \in 0 .. MaxTrouble

LEMMA TypeParts ==
  AnalysisTypeOK <=>
    /\ RestTypeOK /\ worker \in [Worker -> Workers]
    /\ queue \in [Account -> Rows \cup {Nothing}] /\ nextId \in Nat
    /\ \A a \in Account : queue[a] # Nothing =>
         /\ queue[a].id < nextId /\ queue[a].window <= current.generation
         /\ queue[a].served <= current.sequence
BY DEF AnalysisTypeOK, RestTypeOK

LEMMA TypeStands ==
  ASSUME AnalysisTypeOK, UNCHANGED <<queue, nextId, current>>, RestTypeOK',
         worker' \in [Worker -> Workers]
  PROVE  AnalysisTypeOK'
BY DEF AnalysisTypeOK, RestTypeOK

LEMMA TypeTouched ==
  ASSUME AnalysisTypeOK, NEW a \in Account, Touched(a), UNCHANGED current, RestTypeOK',
         worker' \in [Worker -> Workers]
  PROVE  AnalysisTypeOK'
BY TouchType DEF AnalysisTypeOK, RestTypeOK

LEMMA RequeuedType ==
  ASSUME AnalysisTypeOK
  PROVE  Requeued \in [complete : BOOLEAN, epoch : Nat, window : Window \cup {Nothing}]
BY DEF AnalysisTypeOK, Requeued

LEMMA TroubleType ==
  ASSUME AnalysisTypeOK, Trouble \/ UNCHANGED trouble
  PROVE  trouble' \in 0 .. MaxTrouble
BY DEF AnalysisTypeOK, Trouble

(***************************************************************************)
(* The invariant, for a step that touches one row or none.                 *)
(***************************************************************************)
LEMMA WorkersStand ==
  ASSUME AnalysisInv, UNCHANGED worker
  PROVE  \A i \in Worker : WorkerKeeps(i)
BY DEF AnalysisInv, WorkerKeeps, ClaimsAreHeld

LEMMA GoesKeeps ==
  ASSUME AnalysisInv, NEW i \in Worker, NEW pc \in WorkerPC, Goes(i, pc),
         pc \in Working => worker[i].claim # Nothing,
         pc = "acknowledging" =>
           cache[worker[i].claim.account] =
             [revision |-> worker[i].claim.revision, window |-> worker[i].window]
  PROVE  \A j \in Worker : WorkerKeeps(j)
<1>1. AnalysisTypeOK /\ ClaimsAreHeld
  BY DEF AnalysisInv
<1> SUFFICES ASSUME NEW j \in Worker PROVE WorkerKeeps(j)
  OBVIOUS
<1>2. /\ worker'[j].claim = worker[j].claim /\ worker'[j].window = worker[j].window
      /\ j # i => worker'[j].pc = worker[j].pc
      /\ worker'[i].pc = pc
  BY <1>1, GoesTo
<1> QED BY <1>1, <1>2 DEF WorkerKeeps, ClaimsAreHeld

LEMMA ClearedKeeps ==
  ASSUME AnalysisInv, NEW i \in Worker, NEW r \in Workers, r.claim = Nothing, r.pc \notin Working,
         worker' = [worker EXCEPT ![i] = r]
  PROVE  \A j \in Worker : WorkerKeeps(j)
<1>1. worker \in [Worker -> Workers] /\ ClaimsAreHeld
  BY DEF AnalysisInv, AnalysisTypeOK
<1> SUFFICES ASSUME NEW j \in Worker PROVE WorkerKeeps(j)
  OBVIOUS
<1>2. worker'[j] = IF j = i THEN r ELSE worker[j]
  BY <1>1
<1> QED BY <1>1, <1>2 DEF WorkerKeeps, ClaimsAreHeld, Working

LEMMA TouchKeeps ==
  ASSUME AnalysisInv, AnalysisTypeOK', NEW a \in Account, Touched(a),
         UNCHANGED <<overtaken, current>>,
         \A i \in Worker : WorkerKeeps(i),
         \A b \in Account : b # a =>
           /\ cache'[b] = cache[b] /\ revision'[b] = revision[b]
           /\ b \in public' <=> b \in public
           /\ b \in stocked' => b \in stocked,
         queue'[a] # Nothing => a \in public',
         queue[a] # Nothing /\ queue'[a] # Nothing /\ queue'[a].dirty = queue[a].dirty
           => cache'[a] = cache[a],
         queue'[a] # Nothing /\ ~queue'[a].pending /\ queue'[a].window = current.generation
           => cache'[a] = [revision |-> revision'[a], window |-> current.window],
         a \in public' /\ a \in stocked' => queue'[a] # Nothing
  PROVE  AnalysisInv'
<1>0. AnalysisTypeOK /\ RowsAreOwn /\ SettledIsCurrent /\ SourcesAreQueued
  BY DEF AnalysisInv
<1>1. \A b \in Account : b # a => queue'[b] = queue[b]
  BY DEF Touched
<1>2. Evolves
  BY <1>0, TouchEvolves
<1>3. CachesLeaveMarks
  BY DEF CachesLeaveMarks
<1>4. \A b \in Account : queue'[b] # Nothing => b \in public'
  BY <1>0, <1>1 DEF RowsAreOwn, HasRow
<1>5. SettledIsCurrent'
  <2> SUFFICES ASSUME NEW b \in Account, queue'[b] # Nothing, ~queue'[b].pending,
                      queue'[b].window = current'.generation
               PROVE  cache'[b] = [revision |-> revision'[b], window |-> current'.window]
    BY DEF SettledIsCurrent, HasRow
  <2>1. CASE b = a
    BY <2>1
  <2>2. CASE b # a
    BY <2>2, <1>0, <1>1 DEF SettledIsCurrent, HasRow
  <2> QED BY <2>1, <2>2
<1>6. SourcesAreQueued'
  <2> SUFFICES ASSUME NEW b \in Account, b \in public', b \in stocked'
               PROVE  queue'[b] # Nothing
    BY <1>0 DEF SourcesAreQueued, HasRow, AnalysisTypeOK
  <2>1. CASE b = a
    BY <2>1
  <2>2. CASE b # a
    BY <2>2, <1>0, <1>1 DEF SourcesAreQueued, HasRow
  <2> QED BY <2>1, <2>2
<1> QED BY <1>2, <1>3, <1>4, <1>5, <1>6, EvolutionKeeps

LEMMA StandKeeps ==
  ASSUME AnalysisInv, AnalysisTypeOK', \A i \in Worker : WorkerKeeps(i),
         UNCHANGED <<revision, stocked, public, cache, queue, nextId, current, overtaken>>
  PROVE  AnalysisInv'
<1>0. AnalysisTypeOK /\ RowsAreOwn /\ SettledIsCurrent /\ SourcesAreQueued
  BY DEF AnalysisInv
<1>1. Evolves
  BY <1>0, RowType DEF Evolves, RowEvolves, AnalysisTypeOK
<1>2. CachesLeaveMarks
  BY DEF CachesLeaveMarks
<1>3. /\ SettledIsCurrent' /\ SourcesAreQueued'
      /\ \A b \in Account : queue'[b] # Nothing => b \in public'
  BY <1>0 DEF SettledIsCurrent, SourcesAreQueued, HasRow, RowsAreOwn
<1> QED BY <1>1, <1>2, <1>3, EvolutionKeeps

(***************************************************************************)
(* What happens to the accounts meanwhile.                                 *)
(***************************************************************************)
LEMMA UploadKeeps ==
  ASSUME AnalysisInv, NEW a \in Account, Upload(a)
  PROVE  AnalysisInv'
<1>0. AnalysisTypeOK
  BY DEF AnalysisInv
<1>1. /\ Touched(a) /\ queue'[a] # Nothing /\ queue'[a].pending
      /\ queue[a] # Nothing => queue'[a].dirty # queue[a].dirty
  BY <1>0, EnqueueTouches, Zenon DEF Upload
<1>2. RestTypeOK' /\ worker' \in [Worker -> Workers]
  BY <1>0, RequeuedType, TroubleType DEF Upload, AnalysisTypeOK, RestTypeOK
<1>3. UNCHANGED <<current, overtaken, worker, cache>>
  BY DEF Upload
<1>4. AnalysisTypeOK'
  BY <1>0, <1>1, <1>2, <1>3, TypeTouched
<1>5. \A i \in Worker : WorkerKeeps(i)
  BY <1>3, WorkersStand
<1>6. /\ a \in public'
      /\ \A b \in Account : b # a =>
           /\ revision'[b] = revision[b]
           /\ b \in public' <=> b \in public
           /\ b \in stocked' => b \in stocked
  BY <1>0 DEF Upload, AnalysisTypeOK
<1> QED BY <1>1, <1>3, <1>4, <1>5, <1>6, TouchKeeps

LEMMA LoseSourceKeeps ==
  ASSUME AnalysisInv, NEW a \in Account, LoseSource(a)
  PROVE  AnalysisInv'
<1>0. AnalysisTypeOK
  BY DEF AnalysisInv
<1>1. /\ Touched(a) /\ queue'[a] # Nothing /\ queue'[a].pending
      /\ queue[a] # Nothing => queue'[a].dirty # queue[a].dirty
  BY <1>0, EnqueueTouches, Zenon DEF LoseSource
<1>2. RestTypeOK' /\ worker' \in [Worker -> Workers]
  BY <1>0, RequeuedType, TroubleType DEF LoseSource, AnalysisTypeOK, RestTypeOK
<1>3. UNCHANGED <<current, overtaken, worker, cache, public>>
  BY DEF LoseSource
<1>4. AnalysisTypeOK'
  BY <1>0, <1>1, <1>2, <1>3, TypeTouched
<1>5. \A i \in Worker : WorkerKeeps(i)
  BY <1>3, WorkersStand
<1>6. /\ a \in public'
      /\ \A b \in Account : b # a =>
           /\ revision'[b] = revision[b]
           /\ b \in stocked' => b \in stocked
  BY <1>0 DEF LoseSource, AnalysisTypeOK
<1> QED BY <1>1, <1>3, <1>4, <1>5, <1>6, TouchKeeps

LEMMA CacheDamagedKeeps ==
  ASSUME AnalysisInv, NEW a \in Account, CacheDamaged(a)
  PROVE  AnalysisInv'
<1>0. AnalysisTypeOK /\ RowsAreOwn
  BY DEF AnalysisInv
<1>1. /\ Touched(a)
      /\ a \in public => /\ queue'[a] # Nothing /\ queue'[a].pending
                         /\ queue[a] # Nothing => queue'[a].dirty # queue[a].dirty
      /\ a \notin public => queue' = queue
  BY <1>0, EnqueueTouches DEF CacheDamaged
<1>2. RestTypeOK' /\ worker' \in [Worker -> Workers]
  BY <1>0, RequeuedType, TroubleType DEF CacheDamaged, AnalysisTypeOK, RestTypeOK
<1>3. UNCHANGED <<current, overtaken, worker, revision, public, stocked>>
  BY DEF CacheDamaged
<1>4. AnalysisTypeOK'
  BY <1>0, <1>1, <1>2, <1>3, TypeTouched
<1>5. \A i \in Worker : WorkerKeeps(i)
  BY <1>3, WorkersStand
<1>6. \A b \in Account : b # a => cache'[b] = cache[b]
  BY <1>0 DEF CacheDamaged, AnalysisTypeOK
<1>7. a \notin public => queue'[a] = Nothing
  BY <1>0, <1>1 DEF RowsAreOwn, HasRow
<1> QED BY <1>1, <1>3, <1>4, <1>5, <1>6, <1>7, TouchKeeps

LEMMA WithdrawKeeps ==
  ASSUME AnalysisInv, NEW a \in Account, Withdraw(a)
  PROVE  AnalysisInv'
<1>0. AnalysisTypeOK
  BY DEF AnalysisInv
<1>1. Touched(a) /\ queue'[a] = Nothing
  BY <1>0, RemovalTouches DEF Withdraw
<1>2. RestTypeOK' /\ worker' \in [Worker -> Workers]
  BY <1>0, RequeuedType, TroubleType DEF Withdraw, AnalysisTypeOK, RestTypeOK
<1>3. UNCHANGED <<current, overtaken, worker, cache, revision, stocked>>
  BY DEF Withdraw
<1>4. AnalysisTypeOK'
  BY <1>0, <1>1, <1>2, <1>3, TypeTouched
<1>5. \A i \in Worker : WorkerKeeps(i)
  BY <1>3, WorkersStand
<1>6. a \notin public' /\ \A b \in Account : b # a => (b \in public' <=> b \in public)
  BY DEF Withdraw
<1> QED BY <1>1, <1>3, <1>4, <1>5, <1>6, TouchKeeps

LEMMA BootstrapKeeps ==
  ASSUME AnalysisInv, NEW i \in Worker, NEW a \in Account, Bootstrap(i, a)
  PROVE  AnalysisInv'
<1>0. AnalysisTypeOK
  BY DEF AnalysisInv
<1>1. Touched(a) /\ queue'[a] # Nothing /\ queue'[a].pending
  BY <1>0, BootstrapTouches DEF Bootstrap
<1>2. RestTypeOK' /\ worker' \in [Worker -> Workers]
  BY <1>0, TroubleType DEF Bootstrap, AnalysisTypeOK, RestTypeOK
<1>3. /\ UNCHANGED <<current, overtaken, worker, cache, revision, public, stocked>>
      /\ a \in public
  BY DEF Bootstrap
<1>4. AnalysisTypeOK'
  BY <1>0, <1>1, <1>2, <1>3, TypeTouched
<1>5. \A j \in Worker : WorkerKeeps(j)
  BY <1>3, WorkersStand
<1> QED BY <1>1, <1>3, <1>4, <1>5, TouchKeeps

LEMMA TodayKeeps ==
  ASSUME AnalysisInv, NEW w \in Window, TodayChanges(w)
  PROVE  AnalysisInv'
<1>0. AnalysisTypeOK
  BY DEF AnalysisInv
<1>1. UNCHANGED <<source, current, overtaken, worker>>
  BY DEF TodayChanges
<1>2. AnalysisTypeOK'
  BY <1>0, <1>1, TroubleType DEF TodayChanges, AnalysisTypeOK, source
<1>3. \A i \in Worker : WorkerKeeps(i)
  BY <1>1, WorkersStand
<1> QED BY <1>1, <1>2, <1>3, StandKeeps DEF source

(***************************************************************************)
(* The steps of an invocation that leave the queue alone.                  *)
(***************************************************************************)
LEMMA BeginningKeeps ==
  ASSUME AnalysisInv, NEW i \in Worker, Start(i)
  PROVE  AnalysisInv'
<1>0. AnalysisTypeOK
  BY DEF AnalysisInv
<1> DEFINE r == [Rests(today) EXCEPT !.pc = "reading"]
<1>1. r \in Workers /\ r.claim = Nothing /\ r.pc = "reading"
  BY <1>0 DEF Rests, Workers, WorkerPC, AnalysisTypeOK
<1>2. worker' = [worker EXCEPT ![i] = r]
  BY DEF Start
<1> HIDE DEF r
<1>3. UNCHANGED <<source, current, today, overtaken, trouble>>
  BY DEF Start
<1>4. AnalysisTypeOK'
  <2>1. worker' \in [Worker -> Workers]
    BY <1>0, <1>1, <1>2 DEF AnalysisTypeOK
  <2>2. lease' \in [owner : Worker \cup {Nothing}, live : BOOLEAN]
    BY DEF Start
  <2> QED BY <1>0, <1>3, <2>1, <2>2 DEF AnalysisTypeOK, source
<1>5. \A j \in Worker : WorkerKeeps(j)
  BY <1>1, <1>2, ClearedKeeps DEF Working
<1> QED BY <1>3, <1>4, <1>5, StandKeeps DEF source

LEMMA EndingKeeps ==
  ASSUME AnalysisInv, NEW i \in Worker, End(i) \/ Crash(i)
  PROVE  AnalysisInv'
<1>0. AnalysisTypeOK
  BY DEF AnalysisInv
<1>1. worker' = [worker EXCEPT ![i] = Rests(today)] /\ Rests(today) \in Workers
  BY <1>0, RestsType DEF End, Crash, AnalysisTypeOK
<1>2. UNCHANGED <<source, current, today, overtaken>>
  BY DEF End, Crash
<1>3. AnalysisTypeOK'
  <2>1. worker' \in [Worker -> Workers]
    BY <1>0, <1>1, RestsGo
  <2>2. lease' \in {lease, [owner |-> Nothing, live |-> FALSE]}
    BY DEF End, Crash
  <2>3. lease' \in [owner : Worker \cup {Nothing}, live : BOOLEAN]
    <3>1. [owner |-> Nothing, live |-> FALSE] \in [owner : Worker \cup {Nothing}, live : BOOLEAN]
      BY Zenon
    <3> QED BY <1>0, <2>2, <3>1, Zenon DEF AnalysisTypeOK
  <2>4. trouble' \in 0 .. MaxTrouble
    BY <1>0, TroubleType DEF End, Crash
  <2> QED BY <1>0, <1>2, <2>1, <2>3, <2>4 DEF AnalysisTypeOK, source
<1>4. \A j \in Worker : WorkerKeeps(j)
  BY <1>0, <1>1, RestsType, ClearedKeeps DEF Working, AnalysisTypeOK
<1> QED BY <1>2, <1>3, <1>4, StandKeeps DEF source

LEMMA LapseKeeps ==
  ASSUME AnalysisInv, LeaseLapses
  PROVE  AnalysisInv'
<1>0. AnalysisTypeOK
  BY DEF AnalysisInv
<1>1. UNCHANGED <<source, current, today, overtaken, worker>>
  BY DEF LeaseLapses
<1>2. AnalysisTypeOK'
  <2>1. lease' \in [owner : Worker \cup {Nothing}, live : BOOLEAN]
    BY <1>0 DEF LeaseLapses, AnalysisTypeOK
  <2>2. trouble' \in 0 .. MaxTrouble
    BY <1>0, TroubleType DEF LeaseLapses
  <2> QED BY <1>0, <1>1, <2>1, <2>2 DEF AnalysisTypeOK, source
<1>3. \A j \in Worker : WorkerKeeps(j)
  BY <1>1, WorkersStand
<1> QED BY <1>1, <1>2, <1>3, StandKeeps DEF source

\* Reading the lane, the budget, the deferral and the receipt.
LEMMA ResumingKeeps ==
  ASSUME AnalysisInv, NEW i \in Worker,
         ReadLane(i) \/ ClaimsNothing(i) \/ OutOfBudget(i) \/ Defer(i) \/ Record(i)
  PROVE  AnalysisInv'
<1>0. AnalysisTypeOK
  BY DEF AnalysisInv
<1>1. UNCHANGED <<revision, stocked, public, cache, queue, nextId, epoch, current, today,
                  overtaken, lease>>
  BY DEF ReadLane, ClaimsNothing, OutOfBudget, Defer, Record, source
<1>2. /\ trouble' \in 0 .. MaxTrouble
      /\ lane' \in [complete : BOOLEAN, epoch : Nat, window : Window \cup {Nothing}]
  <2>1. trouble' \in 0 .. MaxTrouble
    BY <1>0, TroubleType DEF ReadLane, ClaimsNothing, OutOfBudget, Defer, Record
  <2>2. worker[i].pin \in Nat /\ worker[i].window \in Window
    BY <1>0 DEF AnalysisTypeOK, Workers
  <2>3. lane' \in {lane, [complete |-> TRUE, epoch |-> worker[i].pin,
                          window |-> worker[i].window]}
    BY DEF ReadLane, ClaimsNothing, OutOfBudget, Defer, Record, source
  <2>4. lane' \in [complete : BOOLEAN, epoch : Nat, window : Window \cup {Nothing}]
    <3>1. [complete |-> TRUE, epoch |-> worker[i].pin, window |-> worker[i].window]
            \in [complete : BOOLEAN, epoch : Nat, window : Window \cup {Nothing}]
      BY <2>2, Zenon
    <3> QED BY <1>0, <2>3, <3>1, Zenon DEF AnalysisTypeOK
  <2> QED BY <2>1, <2>4
<1>3. worker' \in [Worker -> Workers] /\ \A j \in Worker : WorkerKeeps(j)
  <2>1. CASE \E pc \in {"ending", "recording", "claiming"} : Goes(i, pc)
    <3>1. PICK pc \in {"ending", "recording", "claiming"} : Goes(i, pc)
      BY <2>1
    <3>2. pc \in WorkerPC /\ pc \notin Working /\ pc # "acknowledging"
      BY <3>1 DEF WorkerPC, Working
    <3> QED BY <1>0, <3>1, <3>2, GoesTo, GoesKeeps
  <2>2. CASE /\ worker[i].pc = "reading"
             /\ worker' = [worker EXCEPT ![i].pc = "preparing", ![i].pin = epoch]
    <3> DEFINE r == [worker[i] EXCEPT !.pc = "preparing", !.pin = epoch]
    <3>1. worker \in [Worker -> Workers] /\ worker[i] \in Workers /\ epoch \in Nat
      BY <1>0 DEF AnalysisTypeOK
    <3>2. r \in Workers /\ r.pc = "preparing" /\ r.claim = worker[i].claim
      BY <3>1 DEF Workers, WorkerPC
    <3>3. worker' = [worker EXCEPT ![i] = r]
      BY <2>2
    <3> HIDE DEF r
    <3>4. worker' \in [Worker -> Workers]
      BY <3>1, <3>2, <3>3
    <3>5. \A j \in Worker : worker'[j] = IF j = i THEN r ELSE worker[j]
      BY <3>1, <3>3
    <3>6. \A j \in Worker : WorkerKeeps(j)
      BY <3>2, <3>5 DEF WorkerKeeps, AnalysisInv, ClaimsAreHeld, Working
    <3> QED BY <3>4, <3>6
  <2> QED BY <2>1, <2>2 DEF ReadLane, ClaimsNothing, OutOfBudget, Defer, Record
<1>4. AnalysisTypeOK'
  BY <1>0, <1>1, <1>2, <1>3 DEF AnalysisTypeOK
<1> QED BY <1>1, <1>3, <1>4, StandKeeps

LEMMA LookingKeeps ==
  ASSUME AnalysisInv, NEW i \in Worker, Probe(i) \/ AssertPin(i)
  PROVE  AnalysisInv'
<1>0. AnalysisTypeOK /\ ClaimsAreHeld
  BY DEF AnalysisInv
<1>1. UNCHANGED <<source, current, today, overtaken, lease, trouble>>
  BY DEF Probe, AssertPin
<1>2. worker[i].claim # Nothing
  BY <1>0 DEF Probe, AssertPin, ClaimsAreHeld, Working
<1>3. \E pc \in WorkerPC :
        /\ Goes(i, pc)
        /\ pc = "acknowledging" =>
             cache[worker[i].claim.account] =
               [revision |-> worker[i].claim.revision, window |-> worker[i].window]
  BY DEF Probe, AssertPin, WorkerPC
<1>4. worker' \in [Worker -> Workers] /\ \A j \in Worker : WorkerKeeps(j)
  BY <1>0, <1>2, <1>3, GoesTo, GoesKeeps
<1>5. AnalysisTypeOK'
  BY <1>0, <1>1, <1>4 DEF AnalysisTypeOK, source
<1> QED BY <1>1, <1>4, <1>5, StandKeeps DEF source

(***************************************************************************)
(* The steps of an invocation that write to the queue.                     *)
(***************************************************************************)
LEMMA AcknowledgeKeeps ==
  ASSUME AnalysisInv, NEW i \in Worker, Acknowledge(i)
  PROVE  AnalysisInv'
<1>0. AnalysisTypeOK /\ ClaimsAreHeld /\ AcknowledgesWhatIs /\ SourcesAreQueued /\ RowsAreOwn
  BY DEF AnalysisInv
<1> DEFINE c == worker[i].claim
           a == worker[i].claim.account
<1>1. c # Nothing /\ a \in Account
  BY <1>0, ClaimType DEF Acknowledge, ClaimsAreHeld, Working
<1>2. UNCHANGED <<revision, stocked, public, cache, nextId, current, lane, epoch, today,
                  overtaken, lease, trouble>>
  BY DEF Acknowledge
<1>3. worker' \in [Worker -> Workers] /\ \A j \in Worker : WorkerKeeps(j)
  BY <1>0, GoesTo, GoesKeeps DEF Acknowledge, WorkerPC, Working
<1>4. CASE AckGuard(i)
  <2>1. /\ queue[a] # Nothing /\ queue[a].id = c.id /\ queue[a].dirty = c.dirty
        /\ current.window = worker[i].window /\ revision[a] = c.revision
    BY <1>4 DEF AckGuard, SameRow, SamePass, HasRow
  <2>2. queue' = [queue EXCEPT ![a].pending = FALSE]
    BY <1>4 DEF Acknowledge
  <2>3. cache[a] = [revision |-> revision[a], window |-> current.window]
    BY <1>0, <2>1 DEF AcknowledgesWhatIs, Acknowledge, HasRow
  <2>4. queue[a].dirty \in Nat
    BY <1>0, <1>1, <2>1, RowType
  <2> HIDE DEF a, c
  <2>5. Touched(a) /\ queue'[a] # Nothing
    <3>1. queue[a].dirty <= queue[a].dirty
      BY <2>4
    <3>2. UNCHANGED nextId
      BY <1>2
    <3> QED BY <1>0, <1>1, <2>1, <2>2, <2>4, <3>1, <3>2, SettlingTouches, Zenon
  <2>6. AnalysisTypeOK'
    BY <1>0, <1>1, <1>2, <1>3, <2>5, TypeTouched DEF AnalysisTypeOK, RestTypeOK
  <2>7. a \in public'
    BY <1>0, <1>1, <1>2, <2>1 DEF RowsAreOwn, HasRow
  <2> QED BY <1>1, <1>2, <1>3, <2>3, <2>5, <2>6, <2>7, TouchKeeps
<1>5. CASE ~AckGuard(i)
  <2>1. UNCHANGED queue
    BY <1>5 DEF Acknowledge
  <2>2. AnalysisTypeOK'
    BY <1>0, <1>2, <1>3, <2>1 DEF AnalysisTypeOK
  <2> QED BY <1>2, <1>3, <2>1, <2>2, StandKeeps
<1> QED BY <1>4, <1>5

LEMMA RetireKeeps ==
  ASSUME AnalysisInv, NEW i \in Worker, Retire(i)
  PROVE  AnalysisInv'
<1>0. AnalysisTypeOK /\ ClaimsAreHeld
  BY DEF AnalysisInv
<1> DEFINE a == worker[i].claim.account
<1>1. a \in Account
  BY <1>0, ClaimType DEF Retire, ClaimsAreHeld, Working
<1>2. UNCHANGED <<revision, stocked, public, cache, nextId, current, lane, epoch, today,
                  overtaken, lease, trouble>>
  BY DEF Retire
<1>3. worker' \in [Worker -> Workers] /\ \A j \in Worker : WorkerKeeps(j)
  BY <1>0, GoesTo, GoesKeeps DEF Retire, WorkerPC, Working
<1>4. CASE AckGuard(i) /\ a \notin stocked
  <2>1. queue' = [queue EXCEPT ![a] = Nothing]
    BY <1>4 DEF Retire
  <2> HIDE DEF a
  <2>2. Touched(a) /\ queue'[a] = Nothing
    BY <1>0, <1>1, <1>2, <2>1, RemovalTouches
  <2>3. AnalysisTypeOK'
    BY <1>0, <1>1, <1>2, <1>3, <2>2, TypeTouched DEF AnalysisTypeOK, RestTypeOK
  <2> QED BY <1>1, <1>2, <1>3, <1>4, <2>2, <2>3, TouchKeeps
<1>5. CASE ~(AckGuard(i) /\ a \notin stocked)
  <2>1. UNCHANGED queue
    BY <1>5 DEF Retire
  <2>2. AnalysisTypeOK'
    BY <1>0, <1>2, <1>3, <2>1 DEF AnalysisTypeOK
  <2> QED BY <1>2, <1>3, <2>1, <2>2, StandKeeps
<1> QED BY <1>4, <1>5

LEMMA PublishKeeps ==
  ASSUME AnalysisInv, NEW i \in Worker, Publish(i)
  PROVE  AnalysisInv'
<1>0. AnalysisTypeOK /\ ClaimsAreHeld /\ RowsAreOwn
  BY DEF AnalysisInv
<1> DEFINE c == worker[i].claim
           a == worker[i].claim.account
           entry == [revision |-> c.revision, window |-> worker[i].window]
<1>1. c # Nothing /\ a \in Account /\ c.revision \in Nat /\ worker[i].window \in Window
  BY <1>0, ClaimType DEF Publish, ClaimsAreHeld, Working, AnalysisTypeOK, Workers
<1>2. UNCHANGED <<revision, stocked, public, nextId, current, epoch, today, overtaken, lease,
                  trouble>>
  BY DEF Publish
<1>3. worker' \in [Worker -> Workers] /\ \A j \in Worker : WorkerKeeps(j)
  BY <1>0, GoesTo, GoesKeeps DEF Publish, WorkerPC, Working
<1>4. CASE AckGuard(i)
  <2>1. /\ queue[a] # Nothing /\ current.window = worker[i].window
        /\ revision[a] = c.revision
    BY <1>4 DEF AckGuard, SameRow, SamePass, HasRow
  <2>2. /\ queue' = [queue EXCEPT ![a].dirty = queue[a].dirty + 1, ![a].pending = FALSE]
        /\ cache' = [cache EXCEPT ![a] = entry] /\ lane' = Requeued
    BY <1>4 DEF Publish
  <2>3. queue[a].dirty \in Nat
    BY <1>0, <1>1, <2>1, RowType
  <2>4. entry \in Caches
    BY <1>1 DEF Caches
  <2>5. entry = [revision |-> revision[a], window |-> current.window]
    BY <2>1
  <2> HIDE DEF a, c, entry
  <2>6. /\ cache'[a] = entry /\ cache' \in [Account -> Caches \cup {Nothing}]
        /\ \A b \in Account : b # a => cache'[b] = cache[b]
    BY <1>0, <1>1, <2>2, <2>4 DEF AnalysisTypeOK
  <2>7. /\ Touched(a) /\ queue'[a] # Nothing /\ queue'[a].dirty = queue[a].dirty + 1
    <3>1. queue[a].dirty + 1 \in Nat /\ queue[a].dirty <= queue[a].dirty + 1
      BY <2>3
    <3> QED BY <1>0, <1>1, <1>2, <2>1, <2>2, <3>1, SettlingTouches, Zenon
  <2>8. AnalysisTypeOK'
    <3>1. RestTypeOK'
      BY <1>0, <1>2, <2>2, <2>6, RequeuedType DEF AnalysisTypeOK, RestTypeOK
    <3> QED BY <1>0, <1>1, <1>2, <1>3, <2>7, <3>1, TypeTouched
  <2>9. a \in public' /\ queue'[a].dirty # queue[a].dirty
    BY <1>0, <1>1, <1>2, <2>1, <2>3, <2>7 DEF RowsAreOwn, HasRow
  <2> QED BY <1>1, <1>2, <1>3, <2>5, <2>6, <2>7, <2>8, <2>9, TouchKeeps
<1>5. CASE ~AckGuard(i)
  <2>1. UNCHANGED <<cache, queue, lane>>
    BY <1>5 DEF Publish
  <2>2. AnalysisTypeOK'
    BY <1>0, <1>2, <1>3, <2>1 DEF AnalysisTypeOK
  <2> QED BY <1>2, <1>3, <2>1, <2>2, StandKeeps
<1> QED BY <1>4, <1>5

\* A rollover: every row it moves waits again, and has a new mark.
LEMMA PrepareKeeps ==
  ASSUME AnalysisInv, NEW i \in Worker, Prepare(i)
  PROVE  AnalysisInv'
<1>0. AnalysisTypeOK /\ RowsAreOwn /\ SettledIsCurrent /\ SourcesAreQueued /\ ClaimsAreHeld
  BY DEF AnalysisInv
<1> DEFINE w == worker[i].window
           generation == IF current.window = w THEN current.generation
                         ELSE current.generation + 1
           moved == RolledOver(generation)
<1>1. /\ w \in Window /\ current.generation \in Nat /\ current.sequence \in Nat
      /\ current \in [window : Window \cup {Nothing}, generation : Nat, sequence : Nat]
      /\ worker \in [Worker -> Workers] /\ worker[i] \in Workers
  BY <1>0 DEF AnalysisTypeOK, Workers
<1>2. UNCHANGED <<revision, stocked, public, cache, nextId, lane, epoch, today, overtaken,
                  lease, trouble>>
  BY DEF Prepare
<1>3. CASE LiveLease(i)
  <2>1. /\ current' = [current EXCEPT !.window = w, !.generation = generation]
        /\ queue' = [a \in Account |-> IF a \notin moved THEN queue[a]
                       ELSE [queue[a] EXCEPT !.window = generation,
                                             !.pending = TRUE, !.dirty = @ + 1]]
        /\ worker' = [worker EXCEPT ![i].pc = "claiming", ![i].generation = generation,
                                    ![i].maximum = current.sequence]
    BY <1>3 DEF Prepare
  <2>2. generation \in Nat /\ current.generation <= generation
    BY <1>1
  <2>3. \A a \in moved : a \in Account /\ queue[a] # Nothing /\ queue[a].window < generation
    BY DEF RolledOver, HasRow
  <2>4. /\ current.window = w => generation = current.generation
        /\ current.window # w => generation = current.generation + 1
    OBVIOUS
  <2> DEFINE r == [worker[i] EXCEPT !.pc = "claiming", !.generation = generation,
                                    !.maximum = current.sequence]
  <2>5. worker' = [worker EXCEPT ![i] = r]
    BY <2>1
  <2> HIDE DEF generation, moved
  <2>6. /\ current'.window = w /\ current'.generation = generation
        /\ current'.sequence = current.sequence
        /\ current' \in [window : Window \cup {Nothing}, generation : Nat, sequence : Nat]
    BY <1>1, <2>1, <2>2
  <2>7. r \in Workers /\ r.pc = "claiming" /\ r.claim = worker[i].claim
    BY <1>1, <2>2 DEF Workers, WorkerPC
  <2> HIDE DEF r, w
  <2>8. ASSUME NEW a \in Account
        PROVE  \/ a \notin moved /\ queue'[a] = queue[a]
               \/ /\ queue[a] # Nothing /\ queue'[a] # Nothing /\ queue'[a] \in Rows
                  /\ queue'[a].id = queue[a].id /\ queue'[a].served = queue[a].served
                  /\ queue'[a].dirty = queue[a].dirty + 1
                  /\ queue'[a].window = generation /\ queue'[a].pending
    <3>1. CASE a \notin moved
      BY <2>1, <3>1
    <3>2. CASE a \in moved
      <4> DEFINE q == [queue[a] EXCEPT !.window = generation, !.pending = TRUE,
                                       !.dirty = queue[a].dirty + 1]
      <4>1. queue'[a] = q /\ queue[a] # Nothing
        BY <2>1, <2>3, <3>2
      <4>2. queue[a] \in Rows /\ queue[a].dirty + 1 \in Nat
        BY <1>0, <4>1, RowType
      <4>3. /\ q \in Rows /\ q.id = queue[a].id /\ q.served = queue[a].served
            /\ q.dirty = queue[a].dirty + 1 /\ q.window = generation /\ q.pending = TRUE
        BY <4>2, <2>2, RowRollsOver
      <4>4. q # Nothing
        BY <4>3, NothingIsNoRecord, Zenon
      <4> QED BY <4>1, <4>3, <4>4
    <3> QED BY <3>1, <3>2
  <2>9. \A a \in Account : queue[a] # Nothing =>
          /\ queue[a].dirty \in Nat /\ queue[a].window \in Nat
          /\ queue[a].id < nextId /\ queue[a].served <= current.sequence
          /\ queue[a].window <= current.generation
    BY <1>0, RowType DEF AnalysisTypeOK
  <2>10. AnalysisTypeOK'
    <3>1. queue' \in [Account -> Rows \cup {Nothing}]
      <4>1. \A a \in Account : queue'[a] \in Rows \cup {Nothing}
        BY <1>0, <2>8 DEF AnalysisTypeOK
      <4>2. DOMAIN queue' = Account /\ queue' = [a \in Account |-> queue'[a]]
        BY <2>1
      <4> QED BY <4>1, <4>2, Zenon
    <3>2. \A a \in Account : queue'[a] # Nothing =>
            /\ queue'[a].id < nextId /\ queue'[a].window <= generation
            /\ queue'[a].served <= current.sequence
      <4> SUFFICES ASSUME NEW a \in Account, queue'[a] # Nothing
                   PROVE  /\ queue'[a].id < nextId /\ queue'[a].window <= generation
                          /\ queue'[a].served <= current.sequence
        OBVIOUS
      <4>1. CASE queue'[a] = queue[a]
        BY <4>1, <1>1, <2>2, <2>9
      <4>2. CASE queue'[a] # queue[a]
        BY <4>2, <2>2, <2>8, <2>9
      <4> QED BY <4>1, <4>2
    <3>3. worker' \in [Worker -> Workers]
      BY <1>1, <2>5, <2>7
    <3> QED BY <1>0, <1>2, <2>6, <3>1, <3>2, <3>3 DEF AnalysisTypeOK
  <2>11. Evolves /\ CachesLeaveMarks
    <3>1. \A a \in Account : RowEvolves(a) /\ (queue[a] = Nothing => queue'[a] = Nothing)
      BY <2>8, <2>9 DEF RowEvolves
    <3>2. nextId <= nextId'
      BY <1>0, <1>2 DEF AnalysisTypeOK
    <3> QED BY <1>2, <3>1, <3>2 DEF Evolves, CachesLeaveMarks
  <2>12. \A j \in Worker : WorkerKeeps(j)
    <3>1. \A j \in Worker : worker'[j] = IF j = i THEN r ELSE worker[j]
      BY <1>1, <2>5
    <3> QED BY <1>0, <2>7, <3>1 DEF WorkerKeeps, ClaimsAreHeld, Working, Prepare
  <2>13. SettledIsCurrent'
    <3> SUFFICES ASSUME NEW a \in Account, queue'[a] # Nothing, ~queue'[a].pending,
                        queue'[a].window = generation
                 PROVE  cache[a] = [revision |-> revision[a], window |-> w]
      BY <1>2, <2>6 DEF SettledIsCurrent, HasRow
    <3>1. queue'[a] = queue[a]
      BY <2>8
    <3>2. current.window = w /\ generation = current.generation
      BY <1>1, <2>4, <2>9, <3>1
    <3> QED BY <1>0, <3>1, <3>2 DEF SettledIsCurrent, HasRow
  <2>14. /\ SourcesAreQueued'
         /\ \A a \in Account : queue'[a] # Nothing => a \in public'
    BY <1>0, <1>2, <2>8 DEF SourcesAreQueued, RowsAreOwn, HasRow, AnalysisTypeOK
  <2> QED BY <1>2, <2>10, <2>11, <2>12, <2>13, <2>14, EvolutionKeeps
<1>4. CASE ~LiveLease(i)
  <2>1. Goes(i, "ending") /\ UNCHANGED <<current, queue>>
    BY <1>4 DEF Prepare
  <2>2. worker' \in [Worker -> Workers] /\ \A j \in Worker : WorkerKeeps(j)
    BY <1>0, <2>1, GoesTo, GoesKeeps DEF WorkerPC, Working
  <2>3. AnalysisTypeOK'
    BY <1>0, <1>2, <2>1, <2>2 DEF AnalysisTypeOK
  <2> QED BY <1>2, <2>1, <2>2, <2>3, StandKeeps
<1> QED BY <1>3, <1>4

(***************************************************************************)
(* A claim: the one step that moves a row to the back.                     *)
(***************************************************************************)
LEMMA ServedRow ==
  ASSUME NEW r \in Rows, NEW n \in Nat
  PROVE  LET q == [r EXCEPT !.served = n]
         IN  /\ q \in Rows /\ q # Nothing /\ q.id = r.id /\ q.dirty = r.dirty
             /\ q.window = r.window /\ q.pending = r.pending /\ q.served = n
<1> DEFINE q == [r EXCEPT !.served = n]
<1>1. /\ q \in Rows /\ q.id = r.id /\ q.dirty = r.dirty
      /\ q.window = r.window /\ q.served = n
  BY DEF Rows
<1>2. q.pending = r.pending
  BY DEF Rows
<1>3. q # Nothing
  BY <1>1, NothingIsNoRecord, Zenon
<1> QED BY <1>1, <1>2, <1>3

LEMMA ClaimMoves ==
  ASSUME AnalysisTypeOK, NEW i \in Worker, NEW a \in Account, Claim(i, a)
  PROVE  /\ queue[a] # Nothing /\ queue'[a] # Nothing /\ queue'[a] \in Rows
         /\ queue'[a].id = queue[a].id /\ queue'[a].dirty = queue[a].dirty
         /\ queue'[a].window = queue[a].window /\ queue'[a].pending = queue[a].pending
         /\ queue'[a].served = current.sequence + 1
         /\ \A b \in Account : b # a => queue'[b] = queue[b]
         /\ queue' \in [Account -> Rows \cup {Nothing}]
         /\ current'.window = current.window /\ current'.generation = current.generation
         /\ current'.sequence = current.sequence + 1
         /\ current' \in [window : Window \cup {Nothing}, generation : Nat, sequence : Nat]
<1>1. /\ queue[a] # Nothing /\ current' = [current EXCEPT !.sequence = current.sequence + 1]
      /\ queue' = [queue EXCEPT ![a].served = current.sequence + 1]
  BY DEF Claim, Eligible, Ready, HasRow, MovesToBack
<1>2. /\ queue \in [Account -> Rows \cup {Nothing}] /\ queue[a] \in Rows
      /\ current \in [window : Window \cup {Nothing}, generation : Nat, sequence : Nat]
      /\ current.sequence + 1 \in Nat
  BY <1>1, RowType DEF AnalysisTypeOK
<1> DEFINE q == [queue[a] EXCEPT !.served = current.sequence + 1]
<1>3. /\ q \in Rows /\ q # Nothing /\ q.id = queue[a].id /\ q.dirty = queue[a].dirty
      /\ q.window = queue[a].window /\ q.pending = queue[a].pending
      /\ q.served = current.sequence + 1
  BY <1>2, ServedRow
<1>4. queue' = [queue EXCEPT ![a] = q]
  BY <1>1
<1> HIDE DEF q
<1>5. /\ queue'[a] = q /\ \A b \in Account : b # a => queue'[b] = queue[b]
      /\ queue' \in [Account -> Rows \cup {Nothing}]
  BY <1>2, <1>3, <1>4
<1>6. /\ current'.window = current.window /\ current'.generation = current.generation
      /\ current'.sequence = current.sequence + 1
      /\ current' \in [window : Window \cup {Nothing}, generation : Nat, sequence : Nat]
  BY <1>1, <1>2
<1> QED BY <1>1, <1>3, <1>5, <1>6

LEMMA ClaimTaken ==
  ASSUME AnalysisTypeOK, NEW i \in Worker, NEW a \in Account, Claim(i, a)
  PROVE  /\ worker' \in [Worker -> Workers]
         /\ worker'[i].claim # Nothing /\ worker'[i].claim.account = a
         /\ worker'[i].claim.id = queue[a].id /\ worker'[i].claim.dirty = queue[a].dirty
         /\ worker'[i].pc \in {"probing", "retiring"}
         /\ \A j \in Worker : j # i => worker'[j] = worker[j]
<1>1. queue[a] # Nothing
  BY DEF Claim, Eligible, Ready, HasRow
<1>2. /\ queue[a].id \in Nat /\ queue[a].dirty \in Nat /\ revision[a] \in Nat
      /\ current.sequence + 1 \in Nat /\ worker \in [Worker -> Workers]
      /\ worker[i] \in Workers
  BY <1>1, RowType DEF AnalysisTypeOK
<1> DEFINE c == [account |-> a, id |-> queue[a].id, dirty |-> queue[a].dirty,
                 served |-> current.sequence + 1, revision |-> revision[a]]
           pc == IF a \in stocked THEN "probing" ELSE "retiring"
           r == [worker[i] EXCEPT !.pc = pc, !.claim = c]
<1>3. c \in Claims /\ c.account = a /\ c.id = queue[a].id /\ c.dirty = queue[a].dirty
  BY <1>2 DEF Claims
<1>4. c # Nothing
  BY <1>3, NothingIsNoRecord, Zenon
<1>5. pc \in {"probing", "retiring"} /\ pc \in WorkerPC
  BY DEF WorkerPC
<1>6. worker' = [worker EXCEPT ![i] = r]
  BY DEF Claim
<1> HIDE DEF c, pc
<1>7. r \in Workers /\ r.pc = pc /\ r.claim = c
  BY <1>2, <1>3, <1>5 DEF Workers
<1> HIDE DEF r
<1>8. /\ worker'[i] = r /\ worker' \in [Worker -> Workers]
      /\ \A j \in Worker : j # i => worker'[j] = worker[j]
  BY <1>2, <1>6, <1>7
<1> QED BY <1>3, <1>4, <1>5, <1>7, <1>8

LEMMA ClaimKeeps ==
  ASSUME AnalysisInv, NEW i \in Worker, NEW a \in Account, Claim(i, a)
  PROVE  AnalysisInv'
<1> USE DEF AnalysisInv
<1>0. UNCHANGED <<revision, stocked, public, cache, nextId, lane, epoch, today, lease, trouble>>
  BY DEF Claim
<1>1. /\ queue[a] # Nothing /\ queue'[a] # Nothing
      /\ queue'[a].id = queue[a].id /\ queue'[a].dirty = queue[a].dirty
      /\ queue'[a].window = queue[a].window /\ queue'[a].pending = queue[a].pending
      /\ queue'[a].served = current.sequence + 1
      /\ \A b \in Account : b # a => queue'[b] = queue[b]
      /\ queue' \in [Account -> Rows \cup {Nothing}]
      /\ current'.window = current.window /\ current'.generation = current.generation
      /\ current'.sequence = current.sequence + 1
      /\ current' \in [window : Window \cup {Nothing}, generation : Nat, sequence : Nat]
  BY ClaimMoves
<1>2. /\ worker' \in [Worker -> Workers]
      /\ worker'[i].claim # Nothing /\ worker'[i].claim.account = a
      /\ worker'[i].claim.id = queue[a].id /\ worker'[i].claim.dirty = queue[a].dirty
      /\ worker'[i].pc \in {"probing", "retiring"}
      /\ \A j \in Worker : j # i => worker'[j] = worker[j]
  BY ClaimTaken
<1>3. /\ current.sequence \in Nat
      /\ \A b \in Account : queue[b] # Nothing =>
           /\ queue[b].id \in Nat /\ queue[b].dirty \in Nat /\ queue[b].served \in Nat
           /\ queue[b].id < nextId /\ queue[b].window <= current.generation
           /\ queue[b].served <= current.sequence
  BY RowType DEF AnalysisTypeOK
<1>4. overtaken' = [b \in Account |-> IF b = a \/ ~Ready(b) THEN {}
                                      ELSE overtaken[b] \cup {queue[a].id}]
  BY DEF Claim, Overtakes
<1>5. AnalysisTypeOK'
  <2>1. overtaken' \in [Account -> SUBSET Nat]
    BY <1>1, <1>3, <1>4 DEF AnalysisTypeOK
  <2>2. \A b \in Account : queue'[b] # Nothing =>
          /\ queue'[b].id < nextId' /\ queue'[b].window <= current'.generation
          /\ queue'[b].served <= current'.sequence
    <3> SUFFICES ASSUME NEW b \in Account, queue'[b] # Nothing
                 PROVE  /\ queue'[b].id < nextId' /\ queue'[b].window <= current'.generation
                        /\ queue'[b].served <= current'.sequence
      OBVIOUS
    <3>1. CASE b = a
      BY <3>1, <1>0, <1>1, <1>3
    <3>2. CASE b # a
      BY <3>2, <1>0, <1>1, <1>3
    <3> QED BY <3>1, <3>2
  <2> QED BY <1>0, <1>1, <1>2, <2>1, <2>2 DEF AnalysisTypeOK
<1>6. RowsAreOwn'
  <2>1. \A b \in Account : queue'[b] # Nothing =>
          queue[b] # Nothing /\ queue'[b].id = queue[b].id
    BY <1>1
  <2> QED BY <1>0, <2>1 DEF RowsAreOwn, HasRow
<1>7. ClaimsAreBehind'
  <2> SUFFICES ASSUME NEW j \in Worker, worker'[j].claim # Nothing
               PROVE  LET c == worker'[j].claim
                      IN  /\ c.id < nextId
                          /\ queue'[c.account] # Nothing /\ queue'[c.account].id = c.id
                               => c.dirty <= queue'[c.account].dirty
    BY <1>0 DEF ClaimsAreBehind, HasRow
  <2>1. CASE j = i
    BY <2>1, <1>1, <1>2, <1>3
  <2>2. CASE j # i
    <3>1. worker'[j] = worker[j] /\ worker[j].claim.account \in Account
      BY <2>2, <1>2, ClaimType
    <3> QED BY <3>1, <1>1 DEF ClaimsAreBehind, HasRow
  <2> QED BY <2>1, <2>2
<1>8. AcknowledgesWhatIs'
  <2> SUFFICES ASSUME NEW j \in Worker, worker'[j].pc = "acknowledging"
               PROVE  LET c == worker'[j].claim
                      IN  /\ c # Nothing
                          /\ queue'[c.account] # Nothing /\ queue'[c.account].id = c.id
                             /\ queue'[c.account].dirty = c.dirty
                               => cache[c.account] = [revision |-> c.revision,
                                                      window |-> worker'[j].window]
    BY <1>0 DEF AcknowledgesWhatIs, HasRow
  <2>1. j # i /\ worker'[j] = worker[j]
    BY <1>2
  <2>2. worker[j].claim # Nothing /\ worker[j].claim.account \in Account
    BY <2>1, ClaimType DEF ClaimsAreHeld, Working
  <2> QED BY <2>1, <2>2, <1>1 DEF AcknowledgesWhatIs, HasRow
<1>9. ClaimsAreHeld'
  BY <1>2 DEF ClaimsAreHeld
<1>10. OvertakersAreBehind'
  <2>1. ASSUME NEW b \in Account, NEW n \in overtaken'[b] PROVE n < nextId'
    BY <2>1, <1>0, <1>1, <1>3, <1>4 DEF OvertakersAreBehind
  <2>2. ASSUME NEW b \in Account, NEW x \in Account, queue'[x] # Nothing,
               queue'[x].id \in overtaken'[b]
        PROVE  /\ 0 < queue'[x].served
               /\ x # b /\ queue'[b] # Nothing => queue'[b].served < queue'[x].served
    <3>1. b # a /\ overtaken'[b] = overtaken[b] \cup {queue[a].id}
      BY <2>2, <1>4
    <3>2. queue'[b] = queue[b]
      BY <3>1, <1>1
    <3>3. CASE x = a
      BY <3>2, <3>3, <1>1, <1>3
    <3>4. CASE x # a
      <4>1. queue'[x] = queue[x] /\ queue[x].id # queue[a].id
        BY <2>2, <3>4, <1>1 DEF RowsAreOwn, HasRow
      <4>2. queue[x].id \in overtaken[b]
        BY <2>2, <3>1, <4>1
      <4> QED BY <2>2, <3>2, <4>1, <4>2 DEF OvertakersAreBehind, HasRow
    <3> QED BY <3>3, <3>4
  <2> QED BY <2>1, <2>2 DEF OvertakersAreBehind, HasRow
<1>11. SettledIsCurrent'
  BY <1>0, <1>1 DEF SettledIsCurrent, HasRow
<1>12. SourcesAreQueued'
  <2> SUFFICES ASSUME NEW b \in Account, b \in public, b \in stocked
               PROVE  queue'[b] # Nothing
    BY <1>0 DEF SourcesAreQueued, HasRow, AnalysisTypeOK
  <2>1. queue[b] # Nothing
    BY DEF SourcesAreQueued, HasRow
  <2> QED BY <2>1, <1>1
<1> QED BY <1>5, <1>6, <1>7, <1>8, <1>9, <1>10, <1>11, <1>12

(***************************************************************************)
(* The theorems.                                                           *)
(***************************************************************************)
LEMMA AnalysisStepKeeps ==
  ASSUME AnalysisInv, [AnalysisNext]_vars
  PROVE  AnalysisInv'
<1>1. CASE \E a \in Account : Upload(a) \/ LoseSource(a) \/ CacheDamaged(a) \/ Withdraw(a)
  BY <1>1, UploadKeeps, LoseSourceKeeps, CacheDamagedKeeps, WithdrawKeeps
<1>2. CASE \E w \in Window : TodayChanges(w)
  BY <1>2, TodayKeeps
<1>3. ASSUME NEW i \in Worker, Start(i) \/ End(i) \/ Crash(i)
      PROVE  AnalysisInv'
  BY <1>3, BeginningKeeps, EndingKeeps
<1>4. ASSUME NEW i \in Worker,
             ReadLane(i) \/ ClaimsNothing(i) \/ OutOfBudget(i) \/ Defer(i) \/ Record(i)
      PROVE  AnalysisInv'
  BY <1>4, ResumingKeeps
<1>5. ASSUME NEW i \in Worker, Probe(i) \/ AssertPin(i)
      PROVE  AnalysisInv'
  BY <1>5, LookingKeeps
<1>6. ASSUME NEW i \in Worker, Prepare(i) \/ Acknowledge(i) \/ Retire(i) \/ Publish(i)
      PROVE  AnalysisInv'
  BY <1>6, PrepareKeeps, AcknowledgeKeeps, RetireKeeps, PublishKeeps
<1>7. ASSUME NEW i \in Worker, NEW a \in Account, Claim(i, a) \/ Bootstrap(i, a)
      PROVE  AnalysisInv'
  BY <1>7, ClaimKeeps, BootstrapKeeps
<1>8. CASE LeaseLapses
  BY <1>8, LapseKeeps
<1>9. CASE UNCHANGED vars
  <2>1. UNCHANGED <<source, current, overtaken, worker>>
    BY <1>9 DEF vars
  <2>2. AnalysisTypeOK'
    BY <1>9 DEF vars, source, AnalysisInv, AnalysisTypeOK
  <2> QED BY <2>1, <2>2, WorkersStand, StandKeeps DEF source
<1> QED BY <1>1, <1>2, <1>3, <1>4, <1>5, <1>6, <1>7, <1>8, <1>9 DEF AnalysisNext, WorkerStep

\* The inductive invariant of the queue.
THEOREM AnalysisSpecInv == AnalysisSpec => []AnalysisInv
<1>1. AnalysisInv /\ [AnalysisNext]_vars => AnalysisInv'
  BY AnalysisStepKeeps
<1> QED BY <1>1, InitAnalysisInv, PTL DEF AnalysisSpec

\* Every variable keeps its type, and a row its id, window and place in range.
THEOREM AnalysisTypeCorrect == AnalysisSpec => []AnalysisTypeOK
<1>1. AnalysisInv => AnalysisTypeOK
  BY DEF AnalysisInv
<1> QED BY <1>1, AnalysisSpecInv, PTL

\* A settled row has the caches of the account's current input: AckGuard and the
\* marks of the triggers swallow no upload and no damage.
THEOREM SettledRowsAreCurrent == AnalysisSpec => []SettledIsCurrent
<1>1. AnalysisInv => SettledIsCurrent
  BY DEF AnalysisInv
<1> QED BY <1>1, AnalysisSpecInv, PTL

\* No public account with a source is without a row, whatever was retired.
THEOREM NobodyIsForgotten == AnalysisSpec => []SourcesAreQueued
<1>1. AnalysisInv => SourcesAreQueued
  BY DEF AnalysisInv
<1> QED BY <1>1, AnalysisSpecInv, PTL

\* The receipt of the lane holds only while every public account's caches are
\* those of its current input and of the window asked about.
THEOREM ReceiptIsTrue == AnalysisSpec => []ReceiptTellsTruth
<1>1. AnalysisInv => ReceiptTellsTruth
  <2> SUFFICES ASSUME AnalysisInv, NEW w \in Window, LaneCurrent(w), NEW a \in Account,
                      a \in public, a \in stocked
               PROVE  cache[a] = [revision |-> revision[a], window |-> w]
    BY DEF ReceiptTellsTruth, AnalysisInv, AnalysisTypeOK
  <2>1. queue[a] # Nothing
    BY DEF AnalysisInv, SourcesAreQueued, HasRow
  <2>2. ~queue[a].pending /\ queue[a].window = current.generation /\ current.window = w
    BY <2>1 DEF LaneCurrent, QueuePending, HasRow
  <2> QED BY <2>1, <2>2 DEF AnalysisInv, SettledIsCurrent, HasRow
<1> QED BY <1>1, AnalysisSpecInv, PTL

LEMMA PublishedIsCurrent ==
  ASSUME AnalysisInv, [AnalysisNext]_vars, NEW a \in Account,
         cache'[a] # cache[a], cache'[a] # Nothing
  PROVE  cache'[a] = [revision |-> revision[a], window |-> current.window]
<1>0. AnalysisTypeOK
  BY DEF AnalysisInv
<1>1. ASSUME NEW b \in Account, CacheDamaged(b) PROVE FALSE
  BY <1>0, <1>1 DEF CacheDamaged, AnalysisTypeOK
<1>2. ASSUME NEW i \in Worker, Publish(i)
      PROVE  cache'[a] = [revision |-> revision[a], window |-> current.window]
  <2> DEFINE c == worker[i].claim
  <2>1. c.account \in Account
    BY <1>0, <1>2, ClaimType DEF AnalysisInv, ClaimsAreHeld, Working, Publish
  <2>2. AckGuard(i)
    BY <1>2 DEF Publish
  <2>3. cache' = [cache EXCEPT ![c.account] =
                    [revision |-> c.revision, window |-> worker[i].window]]
    BY <1>2, <2>2 DEF Publish
  <2>4. revision[c.account] = c.revision /\ current.window = worker[i].window
    BY <2>2 DEF AckGuard, SamePass
  <2> QED BY <1>0, <2>1, <2>3, <2>4 DEF AnalysisTypeOK
<1>3. CASE UNCHANGED cache
  BY <1>3
<1>4. \/ UNCHANGED cache
      \/ \E b \in Account : CacheDamaged(b)
      \/ \E i \in Worker : Publish(i)
  BY DEF AnalysisNext, WorkerStep, vars, source, Upload, LoseSource, Withdraw, TodayChanges,
         Start, ReadLane, Prepare, Claim, ClaimsNothing, Probe, Acknowledge, Retire, AssertPin,
         Record, End, OutOfBudget, Defer, Crash, Bootstrap, LeaseLapses
<1> QED BY <1>1, <1>2, <1>3, <1>4

\* publishCommunityAnalysisCaches never writes an analysis of an input that has
\* been replaced, or of a window the queue has left.
THEOREM PublicationsAreCurrent == AnalysisSpec => PublishesCurrentInput
<1>1. AnalysisInv /\ [AnalysisNext]_vars =>
        [\A a \in Account : cache'[a] # cache[a] /\ cache'[a] # Nothing
           => cache'[a] = [revision |-> revision[a], window |-> current.window]]_vars
  BY PublishedIsCurrent
<1> QED BY <1>1, AnalysisSpecInv, PTL DEF AnalysisSpec, PublishesCurrentInput

\* The row a claim takes was not served before an account that still waits.
LEMMA ClaimIsInTurn ==
  ASSUME AnalysisInv, NEW i \in Worker, NEW a \in Account, Claim(i, a),
         NEW b \in Account, b # a, Ready(b)
  PROVE  queue[a].id \notin overtaken[b]
<1>0. AnalysisTypeOK /\ OvertakersAreBehind
  BY DEF AnalysisInv
<1>1. /\ queue[a] # Nothing /\ queue[b] # Nothing
      /\ SamePass(i) /\ LiveLease(i) /\ queue[a].served <= worker[i].maximum
      /\ Eligible(i, b) => ServedBefore(a, b)
  BY DEF Claim, Eligible, Ready, HasRow
<1>2. /\ queue[a].served \in Nat /\ queue[b].served \in Nat /\ worker[i].maximum \in Nat
  BY <1>0, <1>1, RowType DEF AnalysisTypeOK, Workers
<1> SUFFICES ASSUME queue[a].id \in overtaken[b] PROVE FALSE
  OBVIOUS
<1>3. queue[b].served < queue[a].served
  BY <1>0, <1>1 DEF OvertakersAreBehind, HasRow
<1>4. Eligible(i, b)
  BY <1>1, <1>2, <1>3 DEF Eligible
<1> QED BY <1>1, <1>2, <1>3, <1>4 DEF ServedBefore

LEMMA TakenInTurn ==
  ASSUME AnalysisInv, [AnalysisNext]_vars, NEW i \in Worker,
         worker'[i].claim # worker[i].claim, worker'[i].claim # Nothing,
         NEW b \in Account \ {worker'[i].claim.account}, Ready(b)
  PROVE  worker'[i].claim.id \notin overtaken[b]
<1>0. AnalysisTypeOK
  BY DEF AnalysisInv
<1>1. ASSUME NEW j \in Worker, NEW a \in Account, Claim(j, a)
      PROVE  worker'[i].claim.id \notin overtaken[b]
  <2>1. /\ worker'[j].claim.account = a /\ worker'[j].claim.id = queue[a].id
        /\ j # i => worker'[i] = worker[i]
    BY <1>0, <1>1, ClaimTaken
  <2>2. j = i
    BY <2>1
  <2> QED BY <1>1, <2>1, <2>2, ClaimIsInTurn
<1>2. ASSUME NEW j \in Worker, NEW r \in Workers, r.claim = Nothing,
             worker' = [worker EXCEPT ![j] = r]
      PROVE  FALSE
  <2>1. worker'[i] = IF i = j THEN r ELSE worker[i]
    BY <1>0, <1>2 DEF AnalysisTypeOK
  <2> QED BY <1>2, <2>1
<1>3. ASSUME NEW j \in Worker, Start(j) \/ End(j) \/ Crash(j) PROVE FALSE
  <2>1. \E pc \in WorkerPC : worker' = [worker EXCEPT ![j] = [Rests(today) EXCEPT !.pc = pc]]
    BY <1>3 DEF Start, End, Crash, WorkerPC, Rests
  <2>2. \A pc \in WorkerPC : /\ [Rests(today) EXCEPT !.pc = pc] \in Workers
                             /\ [Rests(today) EXCEPT !.pc = pc].claim = Nothing
    BY <1>0 DEF Rests, Workers, WorkerPC, AnalysisTypeOK
  <2> QED BY <2>1, <2>2, <1>2
<1>4. ASSUME NEW j \in Worker, NEW pc \in WorkerPC, Goes(j, pc) PROVE FALSE
  BY <1>0, <1>4, GoesTo
<1>5. ASSUME NEW j \in Worker, ReadLane(j) \/ Prepare(j) PROVE FALSE
  <2>1. /\ worker \in [Worker -> Workers]
        /\ \A k \in Worker : worker[k] \in Workers
    BY <1>0 DEF AnalysisTypeOK
  <2>2. CASE \E pc \in WorkerPC : Goes(j, pc)
    BY <1>4, <2>2
  <2>3. ASSUME NEW p, worker' = [worker EXCEPT ![j].pc = "preparing", ![j].pin = p] PROVE FALSE
    <3>1. worker'[i].claim = worker[i].claim
      BY <2>1, <2>3 DEF Workers
    <3> QED BY <3>1
  <2>4. ASSUME NEW g, NEW m, worker' = [worker EXCEPT ![j].pc = "claiming",
                                            ![j].generation = g, ![j].maximum = m]
        PROVE  FALSE
    <3>1. worker'[i].claim = worker[i].claim
      BY <2>1, <2>4 DEF Workers
    <3> QED BY <3>1
  <2> QED BY <1>5, <2>2, <2>3, <2>4 DEF ReadLane, Prepare, WorkerPC
<1>6. ASSUME NEW j \in Worker,
             \/ ClaimsNothing(j) \/ OutOfBudget(j) \/ Defer(j) \/ Record(j) \/ Probe(j)
             \/ AssertPin(j) \/ Acknowledge(j) \/ Retire(j) \/ Publish(j)
      PROVE  FALSE
  <2>1. \E pc \in WorkerPC : Goes(j, pc)
    BY <1>6 DEF ClaimsNothing, OutOfBudget, Defer, Record, Probe, AssertPin, Acknowledge,
                Retire, Publish, WorkerPC
  <2> QED BY <2>1, <1>4
<1>7. \/ UNCHANGED worker
      \/ \E j \in Worker : \/ Start(j) \/ WorkerStep(j) \/ OutOfBudget(j) \/ Defer(j) \/ Crash(j)
  BY DEF AnalysisNext, vars, Upload, LoseSource, CacheDamaged, Withdraw, TodayChanges, Bootstrap,
         LeaseLapses
<1> QED BY <1>1, <1>3, <1>5, <1>6, <1>7 DEF WorkerStep

\* claimCurrentAnalysisJob moves a job to the back before its work starts, so
\* that nobody is served twice while another waits.
THEOREM AccountsTakeTurns == AnalysisSpec => ServedInTurn
<1>1. AnalysisInv /\ [AnalysisNext]_vars =>
        [\A i \in Worker :
           worker'[i].claim # worker[i].claim /\ worker'[i].claim # Nothing
             => \A b \in Account \ {worker'[i].claim.account} :
                  Ready(b) => worker'[i].claim.id \notin overtaken[b]]_vars
  BY TakenInTurn
<1> QED BY <1>1, AnalysisSpecInv, PTL DEF AnalysisSpec, ServedInTurn
==============================================================================
