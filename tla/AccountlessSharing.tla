-------------------------- MODULE AccountlessSharing --------------------------
(***************************************************************************)
(* Accountless sharing across two processes.  The desktop process owns the *)
(* preference and the secret; the companion runs the passes, and asks over *)
(* a private channel before it sends anything.  A change of the preference *)
(* fences the channel and waits until the companion has answered.          *)
(*                                                                         *)
(*   src/apps/electron/desktop-sharing.js                    (preference)  *)
(*   src/src/platform/accountless-contribution-channel.js    (both ends)   *)
(*   src/apps/local/accountless-contribution.js              (companion)   *)
(*   src/src/contribution-accountless-client.js              (a pass)      *)
(*   src/src/contribution-device-capability.js               (the secret)  *)
(*                                                                         *)
(* Messages of one direction arrive in order.  An answer is matched to its *)
(* request, and an acknowledgement to its fence, by a number; what matters *)
(* is whether anybody still waits for it, so that a message whose request  *)
(* was given up is addressed to Nobody.  An answer that has arrived is     *)
(* taken up a turn later; other messages may be handled in between.        *)
(***************************************************************************)
EXTENDS AccountlessScheduler, Sequences

CONSTANTS
  Call,              \* the operator's changes, told apart by name
  Client,            \* who asks over the channel: the passes, and others
  Nobody,
  MaxQueue           \* bound: how many messages are in flight

ASSUME SharingConstants ==
  /\ Pass \subseteq Client
  /\ Nobody \notin Client \cup Call
  /\ Client \cap Call = {}
  /\ MaxQueue \in Nat

VARIABLES
  preference,        \* on or off, or unavailable since a save has failed
  told,              \* the last the operator heard is that sharing is off
  call,              \* the changes under way
  serving,           \* the request the desktop process is at
  secret,            \* the secret is in the protected store
  binding,           \* the companion's binding file exists
  toChild, toParent, \* the channel
  ask,               \* what each client waits for, or has been told
  worker,            \* how far the work of a pass is, abandoned or not
  closed             \* the companion has left the channel

desktop   == <<preference, told, call>>
broker    == <<serving, secret>>
companion == <<ask, worker, binding>>
sharing   == <<scheduler, desktop, broker, companion, toChild, toParent,
               closed>>

Ops     == {"preference", "read", "create"}
Answers == {"yes", "no", "absent", "denied", "retry", "uncertain"}

Calls    == [phase : {"idle", "saving", "waiting"}, value : BOOLEAN,
             fence : {"open", "passed", "failed"}]
IdleCall == [phase |-> "idle", value |-> FALSE, fence |-> "open"]

Servings == [client : Client \cup {Nobody}, op : Ops \cup {"none"},
             step : {"authorizing", "fetching", "storing"}, stale : BOOLEAN]
NoServing == [client |-> Nobody, op |-> "none", step |-> "authorizing",
              stale |-> FALSE]

Request(c, op)  == [kind |-> "request", to |-> c, what |-> op]
Response(c, a)  == [kind |-> "response", to |-> c, what |-> a]
Invalidate(c)   == [kind |-> "invalidate", to |-> c, what |-> "fence"]
Invalidated(c)  == [kind |-> "invalidated", to |-> c, what |-> "fence"]

ToChild  == {Response(c, a) : c \in Client \cup {Nobody}, a \in Answers}
              \cup {Invalidate(c) : c \in Call \cup {Nobody}}
ToParent == {Request(c, op) : c \in Client \cup {Nobody}, op \in Ops}
              \cup {Invalidated(c) : c \in Call \cup {Nobody}}

SharingTypeOK ==
  /\ SchedulerTypeOK
  /\ {told, secret, binding, closed} \subseteq BOOLEAN
  /\ preference \in {"on", "off", "unavailable"}
  /\ call \in [Call -> Calls]
  /\ serving \in Servings
  /\ toChild \in Seq(ToChild) /\ toParent \in Seq(ToParent)
  /\ ask \in [Client -> {"none"} \cup Ops \cup Answers]
  /\ worker \in [Pass -> {"none", "working", "clearing", "fetching", "binding",
                          "removing"}]

---------------------------------------------------------------------------
\* Nobody waits any more for what was sent on behalf of these.  The messages
\* keep their places: a request is still taken in and a fence still passed on,
\* and anything else has no effect when it arrives (as the last of a queue it
\* is left out).
EndsIdly(q, who) ==
  /\ q # <<>> /\ q[Len(q)].to \in who \cup {Nobody}
  /\ q[Len(q)].kind \in {"response", "invalidated"}

Forgets(q, who) ==
  [i \in 1..(IF EndsIdly(q, who) THEN Len(q) - 1 ELSE Len(q)) |->
     IF q[i].to \in who THEN [q[i] EXCEPT !.to = Nobody] ELSE q[i]]

Room == Len(toParent) + Len(toChild) < MaxQueue

Changing == \E c \in Call : call[c].phase # "idle"

SharingInit ==
  /\ SchedulerInit
  /\ preference \in {"on", "off"}
  /\ told = (preference = "off")
  /\ call = [c \in Call |-> IdleCall]
  /\ serving = NoServing
  /\ secret = FALSE /\ binding = FALSE
  /\ toChild = <<>> /\ toParent = <<>>
  /\ ask = [c \in Client |-> "none"]
  /\ worker = [p \in Pass |-> "none"]
  /\ closed = FALSE

---------------------------------------------------------------------------
\* invalidate: what is being answered becomes stale, and the companion is told.
GrowsStale == serving' = [serving EXCEPT !.stale = serving.op # "none"]

\* The operator changes the preference (setEnabled), the channel fenced before
\* the choice is saved and again after it.
CallBegins(c, value) ==
  /\ call[c].phase = "idle"
  /\ Len(toParent) + Len(toChild) <= MaxQueue
  /\ GrowsStale
  /\ toChild' = Append(toChild, Invalidate(c))
  /\ call' = [call EXCEPT ![c] = [phase |-> "saving", value |-> value,
                                  fence |-> "open"]]
  /\ told' = FALSE
  /\ UNCHANGED <<scheduler, preference, secret, companion, toParent, closed>>

CallSaves(c) ==
  /\ call[c].phase = "saving" /\ preference # "unavailable"
  /\ preference' = IF call[c].value THEN "on" ELSE "off"
  /\ call' = [call EXCEPT ![c].phase = "waiting"]
  /\ UNCHANGED <<scheduler, told, broker, companion, toChild,
                 toParent, closed>>

CallEnds(c, off) ==
  /\ call' = [call EXCEPT ![c] = IdleCall]
  /\ told' = off
  /\ GrowsStale
  /\ toChild' = Append(Forgets(toChild, {c}), Invalidate(Nobody))
  /\ toParent' = Forgets(toParent, {c})
  /\ UNCHANGED <<scheduler, secret, companion, closed>>

\* A choice that cannot be saved makes the preference unavailable for good.
CallFails(c) ==
  /\ call[c].phase = "saving"
  /\ preference' = "unavailable"
  /\ CallEnds(c, FALSE)

CallReturns(c) ==
  /\ call[c].phase = "waiting"
  /\ \/ /\ call[c].fence = "passed"
        /\ CallEnds(c, ~call[c].value)
     \/ call[c].fence = "failed" /\ CallEnds(c, FALSE)
  /\ UNCHANGED preference

\* Five seconds.
FenceTimesOut(c) ==
  /\ call[c].phase # "idle" /\ call[c].fence = "open"
  /\ call' = [call EXCEPT ![c].fence = "failed"]
  /\ toChild' = Forgets(toChild, {c})
  /\ toParent' = Forgets(toParent, {c})
  /\ UNCHANGED <<scheduler, preference, told, broker, companion,
                 closed>>

---------------------------------------------------------------------------
\* The desktop's end of the channel: one request at a time.
Replies(c, answer) ==
  toChild' = IF c = Nobody THEN toChild ELSE Append(toChild, Response(c, answer))

Acknowledged(m) ==
  /\ m.kind = "invalidated"
  /\ call' = [c \in Call |-> IF m.to = c THEN [call[c] EXCEPT !.fence = "passed"]
                             ELSE call[c]]
  /\ UNCHANGED <<serving, toChild>>

\* Mutant: a refusal the other end does not know.
RequestedOrBusy(m) ==
  /\ m.kind = "request"
  /\ IF serving.op # "none" THEN Replies(m.to, "busy") /\ UNCHANGED serving
     ELSE /\ serving' = [client |-> m.to, op |-> m.what, step |-> "authorizing",
                         stale |-> FALSE]
          /\ UNCHANGED toChild
  /\ UNCHANGED call

Requested(m) ==
  /\ m.kind = "request"
  /\ IF serving.op # "none" THEN Replies(m.to, "retry") /\ UNCHANGED serving
     ELSE /\ serving' = [client |-> m.to, op |-> m.what, step |-> "authorizing",
                         stale |-> FALSE]
          /\ UNCHANGED toChild
  /\ UNCHANGED call

ParentReceives ==
  /\ toParent # <<>>
  /\ Acknowledged(Head(toParent)) \/ Requested(Head(toParent))
  /\ toParent' = Tail(toParent)
  /\ UNCHANGED <<scheduler, preference, told, secret, companion,
                 closed>>

Answered(answer) ==
  /\ Replies(serving.client, answer)
  /\ serving' = NoServing

\* readAuthorization: a change under way answers for itself.
Authorization ==
  IF Changing \/ preference = "off" THEN "no"
  ELSE IF preference = "on" THEN "yes" ELSE "denied"

Authorizes ==
  /\ serving.op # "none" /\ serving.step = "authorizing"
  /\ \/ serving.stale /\ Answered("denied")
     \/ /\ ~serving.stale /\ serving.op = "preference"
        /\ Answered(Authorization)
     \/ /\ ~serving.stale /\ serving.op # "preference"
        /\ IF Authorization # "yes" THEN Answered("denied")
           ELSE /\ serving' = [serving EXCEPT !.step =
                                IF serving.op = "read" THEN "fetching" ELSE "storing"]
                /\ UNCHANGED toChild
  /\ UNCHANGED <<scheduler, desktop, secret, companion, toParent,
                 closed>>

FetchesSecret ==
  /\ serving.step = "fetching"
  /\ \/ Answered(IF serving.stale THEN "denied"
                 ELSE IF secret THEN "yes" ELSE "absent")
     \/ Answered("retry")
  /\ UNCHANGED <<scheduler, desktop, secret, companion, toParent,
                 closed>>

\* Mutant: an answer that has grown stale is denied, whatever was stored.
StoresAndDenies ==
  /\ serving.step = "storing"
  /\ \/ secret' = TRUE /\ Answered(IF serving.stale THEN "denied" ELSE "yes")
     \/ secret' \in {secret, TRUE} /\ Answered("uncertain")
     \/ UNCHANGED secret /\ Answered("retry")
  /\ UNCHANGED <<scheduler, desktop, companion, toParent, closed>>

\* A create that was accepted is answered, whatever has become of sharing.
StoresSecret ==
  /\ serving.step = "storing"
  /\ \/ ~secret /\ secret' = TRUE /\ Answered("yes")
     \/ secret' \in {secret, TRUE} /\ Answered("uncertain")
     \/ UNCHANGED secret /\ Answered("retry")
  /\ UNCHANGED <<scheduler, desktop, companion, toParent, closed>>

---------------------------------------------------------------------------
\* The companion's end of the channel.
Given(c) == ask[c] \in Answers

\* A request is sent, or refused at once (closed, or four under way).
Asks(c, op) ==
  /\ ask[c] = "none"
  /\ Room
  /\ \/ /\ ~closed
        /\ ask' = [ask EXCEPT ![c] = op]
        /\ toParent' = Append(toParent, Request(c, op))
     \/ ask' = [ask EXCEPT ![c] = "retry"] /\ UNCHANGED toParent
  /\ UNCHANGED toChild

\* What has been asked, creates excepted, is rejected; the pass under way is
\* aborted; the fence is acknowledged.
ChildInvalidated(m) ==
  LET asking == {c \in Client : ask[c] \in {"preference", "read"}}
  IN /\ m.kind = "invalidate"
     /\ ask' = [c \in Client |-> IF c \in asking THEN "denied" ELSE ask[c]]
     /\ PreferenceChanged
     /\ toChild' = Forgets(Tail(toChild), asking)
     /\ toParent' = Forgets(Append(toParent, Invalidated(m.to)), asking)
     /\ serving' = IF serving.client \in asking
                   THEN [serving EXCEPT !.client = Nobody] ELSE serving

ChildAnswered(m) ==
  /\ m.kind = "response"
  /\ ask' = [c \in Client |-> IF c = m.to THEN m.what ELSE ask[c]]
  /\ toChild' = Tail(toChild)
  /\ UNCHANGED <<scheduler, toParent, serving>>

ChildReceives ==
  /\ toChild # <<>>
  /\ \/ /\ ~closed
        /\ ChildInvalidated(Head(toChild)) \/ ChildAnswered(Head(toChild))
     \/ /\ closed
        /\ toChild' = Tail(toChild)
        /\ UNCHANGED <<scheduler, ask, toParent, serving>>
  /\ UNCHANGED <<desktop, secret, worker, binding, closed>>

\* Fifteen seconds.
RequestTimesOut(c) ==
  /\ ask[c] \in Ops
  /\ ask' = [ask EXCEPT ![c] = IF ask[c] = "create" THEN "uncertain" ELSE "retry"]
  /\ toChild' = Forgets(toChild, {c})
  /\ toParent' = Forgets(toParent, {c})
  /\ serving' = IF serving.client = c THEN [serving EXCEPT !.client = Nobody]
                ELSE serving
  /\ UNCHANGED <<scheduler, desktop, secret, worker, binding, closed>>

---------------------------------------------------------------------------
\* A pass: the scheduler's own look at the preference, then the work.
Undisturbed == UNCHANGED <<desktop, broker, binding, closed>>
AskTaken(c) == ask' = [ask EXCEPT ![c] = "none"] /\ UNCHANGED <<toChild, toParent>>

Becomes(p, w) == worker' = [worker EXCEPT ![p] = w]

\* The signal of the pass is not aborted.  (One whose pass was released while
\* the work went on is.)
Heard(p) == pass[p].phase = "uploading" /\ ~pass[p].aborted

PassBegins(p) ==
  /\ worker[p] = "none"
  /\ BeginPass(p)
  /\ Asks(p, "preference")
  /\ UNCHANGED worker /\ Undisturbed

PassDecides(p) ==
  /\ pass[p].phase = "asking" /\ Given(p)
  /\ \/ LeaveFenced(p) /\ UNCHANGED worker
     \/ /\ ask[p] # "retry" /\ Preferred(p, ask[p])
        /\ Becomes(p, IF ask[p] = "yes" THEN "working" ELSE "none")
     \/ ask[p] = "retry" /\ Retried(p) /\ UNCHANGED worker
  /\ AskTaken(p) /\ Undisturbed

\* An abort releases the pass from what it waits for.
Abandons(p) ==
  /\ pass[p].aborted
  /\ LeaveFenced(p) \/ Retried(p)
  /\ IF pass[p].phase = "asking"
     THEN /\ ask' = [ask EXCEPT ![p] = "none"]
          /\ toChild' = Forgets(toChild, {p})
          /\ toParent' = Forgets(toParent, {p})
          /\ serving' = IF serving.client = p
                        THEN [serving EXCEPT !.client = Nobody] ELSE serving
     ELSE UNCHANGED <<ask, toChild, toParent, serving>>
  /\ UNCHANGED <<desktop, secret, worker, binding, closed>>

PassReleases(p) ==
  /\ Release(p)
  /\ UNCHANGED <<desktop, broker, companion, toChild, toParent, closed>>

PassTimesOut(p) ==
  /\ Deadline(p)
  /\ UNCHANGED <<desktop, broker, companion, toChild, toParent, closed>>

\* Every request is fenced by a look at the preference before it.
WorkerAsks(p) ==
  /\ worker[p] = "working" /\ Heard(p)
  /\ \/ Becomes(p, "clearing") /\ Asks(p, "preference")
     \/ Becomes(p, "fetching") /\ Asks(p, "read")
  /\ UNCHANGED scheduler /\ Undisturbed

\* Mutant: the signal is not looked at again after the preference.
SendsAnyway(p) ==
  /\ worker[p] = "clearing" /\ ask[p] = "yes"
  /\ Becomes(p, "working") /\ AskTaken(p)
  /\ UNCHANGED scheduler /\ Undisturbed

\* The request begins; the answer of the service is part of the work.
MaySend(p) == worker[p] = "clearing" /\ ask[p] = "yes" /\ Heard(p)

Sends(p) ==
  /\ MaySend(p)
  /\ Becomes(p, "working") /\ AskTaken(p)
  /\ UNCHANGED scheduler /\ Undisturbed

HasSecret(p) ==
  /\ worker[p] = "fetching" /\ ask[p] = "yes" /\ binding
  /\ Becomes(p, "working") /\ AskTaken(p)
  /\ UNCHANGED scheduler /\ Undisturbed

\* There is neither a binding nor a secret: the binding is written first.
Binds(p) ==
  /\ worker[p] = "fetching" /\ ask[p] = "absent" /\ ~binding
  /\ Room
  /\ binding' = TRUE
  /\ Becomes(p, "binding")
  /\ \/ /\ ~closed
        /\ ask' = [ask EXCEPT ![p] = "create"]
        /\ toParent' = Append(toParent, Request(p, "create"))
     \/ ask' = [ask EXCEPT ![p] = "retry"] /\ UNCHANGED toParent
  /\ UNCHANGED <<scheduler, desktop, broker, toChild, closed>>

\* The binding is kept unless it is known that nothing was stored.
Bound(p) ==
  /\ worker[p] = "binding" /\ Given(p) /\ ask[p] # "uncertain"
  /\ Becomes(p, IF ask[p] = "yes" THEN "working" ELSE "removing")
  /\ AskTaken(p)
  /\ UNCHANGED scheduler /\ Undisturbed

\* The work ends, by itself or by what it was told.  Nobody hears of it if the
\* pass was released before.
MayEnd(p) ==
  \/ worker[p] \in {"working", "removing"}
  \/ worker[p] = "clearing" /\ Given(p) /\ (ask[p] = "yes" => ~Heard(p))
  \/ worker[p] = "fetching" /\ Given(p)
  \/ worker[p] = "binding" /\ ask[p] = "uncertain"

\* Mutant: the outcome counts, whoever waits for it.
WorkerSettles(p) ==
  /\ MayEnd(p)
  /\ Leave(p, "up_to_date", "later")
  /\ ask' = [ask EXCEPT ![p] = "none"]
  /\ binding' = (binding /\ worker[p] # "removing")
  /\ Becomes(p, "none")
  /\ UNCHANGED <<desktop, broker, toChild, toParent, closed>>

WorkerEnds(p) ==
  /\ MayEnd(p)
  /\ \/ ~Heard(p) /\ UNCHANGED scheduler
     \/ Heard(p) /\ worker[p] = "working" /\ \E more \in BOOLEAN : Succeeded(p, more)
     \/ Heard(p) /\ Retried(p)
     \/ Heard(p) /\ Halts(p)
  /\ ask' = [ask EXCEPT ![p] = "none"]
  /\ binding' = (binding /\ worker[p] # "removing")
  /\ Becomes(p, "none")
  /\ UNCHANGED <<desktop, broker, toChild, toParent, closed>>

---------------------------------------------------------------------------
\* The companion's life.
Starts ==
  /\ StartScheduler
  /\ UNCHANGED <<desktop, broker, companion, toChild, toParent, closed>>

\* stop() waits for the pass under way before it leaves the channel.
Stops ==
  /\ process = "started"
  /\ StopScheduler
  /\ UNCHANGED <<desktop, broker, companion, toChild, toParent, closed>>

\* dispose: what is still waited for is rejected, and no more is heard.
Disposes ==
  /\ process = "stopped" /\ pending = NoPass /\ ~closed
  /\ closed' = TRUE
  /\ ask' = [c \in Client |-> CASE ask[c] = "create" -> "uncertain"
                                [] ask[c] \in {"preference", "read"} -> "retry"
                                [] OTHER -> ask[c]]
  /\ toChild' = Forgets(toChild, Client)
  /\ toParent' = Forgets(toParent, Client)
  /\ serving' = [serving EXCEPT !.client = Nobody]
  /\ UNCHANGED <<scheduler, desktop, secret, worker, binding>>

\* The companion ends, at any point, and its successor has a fresh channel.
CompanionExits ==
  /\ NewProcess
  /\ secret' \in {secret, secret \/ serving.step = "storing"}
  /\ serving' = NoServing
  /\ call' = [c \in Call |-> IF call[c].phase # "idle" /\ call[c].fence = "open"
                             THEN [call[c] EXCEPT !.fence = "failed"] ELSE call[c]]
  /\ toChild' = <<>> /\ toParent' = <<>>
  /\ ask' = [c \in Client |-> "none"]
  /\ worker' = [p \in Pass |-> "none"]
  /\ closed' = FALSE
  /\ UNCHANGED <<preference, told, binding>>

Alone ==
  UNCHANGED <<desktop, broker, companion, toChild, toParent, closed>>
TimePasses == ComesCloser /\ Alone
Publishes == IndexPublished /\ Alone

---------------------------------------------------------------------------
Operator ==
  \E c \in Call :
    \/ \E value \in BOOLEAN : CallBegins(c, value)
    \/ CallSaves(c) \/ CallFails(c) \/ CallReturns(c) \/ FenceTimesOut(c)

Desktop == ParentReceives \/ Authorizes \/ FetchesSecret \/ StoresSecret

PassWork(p) ==
  \/ PassBegins(p) \/ PassDecides(p) \/ Abandons(p) \/ PassReleases(p)
  \/ PassTimesOut(p)
  \/ WorkerAsks(p) \/ Sends(p) \/ HasSecret(p) \/ Binds(p)
  \/ Bound(p) \/ WorkerEnds(p)

Companion ==
  \/ ChildReceives \/ (\E c \in Client : RequestTimesOut(c))
  \/ (\E p \in Pass : PassWork(p))
  \/ Starts \/ Stops \/ Disposes \/ CompanionExits
  \/ TimePasses \/ Publishes

SharingNext == Operator \/ Desktop \/ Companion

SharingSpec == SharingInit /\ [][SharingNext]_sharing

---------------------------------------------------------------------------
\* The passes of the companion change the scheduler by its own operations.
ImplementsScheduler == SchedulerSpec

\* An opt-out the operator was told of, and nothing since.
OptedOut == preference = "off" /\ told /\ ~Changing

\* "A completed desktop opt-out therefore cannot race the old child's
\* preference-read -> send gap": once the operator has been told, no pass, under
\* way or abandoned, begins another request, whatever it was told before.
NoSendAfterOptOut ==
  [][\A p \in Pass : worker[p] = "clearing" /\ worker'[p] = "working" =>
       ~OptedOut]_sharing

\* A secret in the store always has its binding file: neither an opt-out in
\* the middle of a create, nor a lost answer, nor a crash leaves one behind
\* that no later companion could use or remove.
NoOrphanSecret == secret => binding
=============================================================================
