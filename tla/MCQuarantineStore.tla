-------------------------- MODULE MCQuarantineStore --------------------------
EXTENDS QuarantineStore

CONSTANTS r1, r2, e1, e2

Scene(f, same, a, us, ps, es) ==
  [format |-> f, content |-> IF same THEN <<1, 1>> ELSE <<1, 2>>, accountless |-> a,
   uploads |-> us, passes |-> ps, attempts |-> es]

\* Two uploads of the same records beside a pass; two passes that overlap; an
\* erasure beside a pass; an erasure of two uploads; two erasures that overlap.
MCSetting ==
  UNION {{Scene(f, TRUE, FALSE, {1, 2}, {r1}, {}),
          Scene(f, FALSE, FALSE, {1}, {r1, r2}, {})} : f \in Format}
  \cup {Scene("v1", FALSE, FALSE, {1}, {r1}, {e1}), Scene("v12", FALSE, TRUE, {1}, {r1}, {e1}),
        Scene("v0", FALSE, FALSE, {1, 2}, {}, {e1}), Scene("v12", FALSE, TRUE, {1}, {}, {e1, e2})}
=============================================================================
