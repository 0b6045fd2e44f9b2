---------------------------- MODULE MCPlanEngine ----------------------------
(***************************************************************************)
(* Small instances of PlanEngine.  One bare generation and one content     *)
(* digest stand for the fields of the authority vector: that is enough for *)
(* an input to advance, to regress, to conflict, and to do two at once.    *)
(***************************************************************************)
EXTENDS PlanEngine

CONSTANTS e, d, a, b, zero

Vector(g, c) == [generation |-> [f \in {e} |-> g],
                 ref |-> [r \in {} |-> 0],
                 digest |-> [f \in {d} |-> c]]
Snap(g, c, t, deg) ==
    [authority |-> Vector(g, c), tick |-> t, allow_degraded_commit |-> deg]

\* A first snapshot, one that is newer, and one of the same generation with
\* other content (a policy that permits degraded commits).
ThreeSnapshots == {Snap(1, a, 1, FALSE), Snap(2, a, 1, FALSE), Snap(1, b, 1, TRUE)}
\* Two snapshots that differ in nothing but the evaluation tick.
TwoTicks == {Snap(1, a, 1, TRUE), Snap(1, a, 2, TRUE)}
\* A first snapshot, at two ticks, and one with other content.
MovingSnapshots == TwoTicks \cup {Snap(2, b, 1, TRUE)}
TwoSnapshots == {Snap(1, a, 1, TRUE), Snap(2, b, 1, TRUE)}

PlainRequest == {[allow_degraded |-> FALSE, has_incumbent |-> FALSE]}
AnyRequest == [allow_degraded : {TRUE}, has_incumbent : BOOLEAN]
=============================================================================
