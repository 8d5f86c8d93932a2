--------------------------- MODULE DeliveryOutbox ---------------------------
(***************************************************************************)
(* What the contribution queue promises to its clients, without leases,    *)
(* files, passes or crashes: items are put in an outbox, the service may   *)
(* store a known item any number of times, and an item is accepted at most *)
(* once, only after the service stored it.  An outcome is final.  Items    *)
(* are forgotten by whole groups, and only a group that is entirely open   *)
(* or entirely accepted is forgotten.                                      *)
(*                                                                         *)
(*   src/src/platform/local-contribution-sync-queue-storage.js             *)
(***************************************************************************)
CONSTANTS Item, Group, GroupOf

VARIABLES
  phase,       \* of each item: absent, open, accepted or dropped
  known,       \* items that have ever been put
  stored,      \* items the service has stored
  receipts     \* items that have ever been accepted

outboxVars == <<phase, known, stored, receipts>>

Members(g) == {i \in Item : GroupOf[i] = g /\ phase[i] # "absent"}

OutboxTypeOK ==
  /\ phase \in [Item -> {"absent", "open", "accepted", "dropped"}]
  /\ known \subseteq Item /\ stored \subseteq Item /\ receipts \subseteq Item

OutboxInit ==
  /\ phase = [i \in Item |-> "absent"]
  /\ known = {} /\ stored = {} /\ receipts = {}

Put(i) ==
  /\ phase[i] = "absent"
  /\ phase' = [phase EXCEPT ![i] = "open"]
  /\ known' = known \cup {i}
  /\ UNCHANGED <<stored, receipts>>

Store(i) ==
  /\ i \in known
  /\ stored' = stored \cup {i}
  /\ UNCHANGED <<phase, known, receipts>>

Accept(i) ==
  /\ phase[i] = "open" /\ i \in stored /\ i \notin receipts
  /\ phase' = [phase EXCEPT ![i] = "accepted"]
  /\ receipts' = receipts \cup {i}
  /\ UNCHANGED <<known, stored>>

Drop(i) ==
  /\ phase[i] = "open"
  /\ phase' = [phase EXCEPT ![i] = "dropped"]
  /\ UNCHANGED <<known, stored, receipts>>

Forget(g) ==
  /\ \E end \in {"open", "accepted"} : \A i \in Members(g) : phase[i] = end
  /\ phase' = [i \in Item |-> IF i \in Members(g) THEN "absent" ELSE phase[i]]
  /\ UNCHANGED <<known, stored, receipts>>

OutboxNext ==
  \/ \E i \in Item : Put(i) \/ Store(i) \/ Accept(i) \/ Drop(i)
  \/ \E g \in Group : Forget(g)

Outbox == OutboxInit /\ [][OutboxNext]_outboxVars
=============================================================================
