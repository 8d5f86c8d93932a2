----------------------------- MODULE MCSyncQueue -----------------------------
(***************************************************************************)
(* Small instances of the contribution queue.                              *)
(***************************************************************************)
EXTENDS SyncQueue, TLC

\* Contributions 1 and 2 belong to the first prepared set, 3 to the second.
mcSetOf   == [j \in Job |-> IF j = 3 THEN 2 ELSE 1]

mcBytes   == [j \in Job |-> 1]
\* The second contribution does not fit a pass beside another one.
mcUneven  == [j \in Job |-> j]

mcAll     == {DeliverEverything}
\* A pass bound to nothing, to one prepared set, to one reviewed contribution.
mcBound   == {DeliverEverything,
              [enqueue |-> {1}, send |-> {j \in Job : SetOf[j] = 1}],
              [enqueue |-> PreparedSet, send |-> {2}]}

mcOutage  == {Transient}
mcAnswers == {Refused, Transient, Throttled, TooLong, DeviceGone}
mcHorizon == {Transient, TooLong}

PassSymmetry == Permutations(Pass)
=============================================================================
