------------------------------ MODULE MCService ------------------------------
(***************************************************************************)
(* Publishers as tef_node.cpp runs them, and single calls that repeat one  *)
(* of theirs, over two plans and two snapshots.                            *)
(***************************************************************************)
EXTENDS Service

CONSTANTS e, d, a, b, zero

Snap(g, c, deg) ==
    [authority |-> [generation |-> [f \in {e} |-> g], ref |-> [r \in {} |-> 0],
                    digest |-> [f \in {d} |-> c]],
     tick |-> 1, allow_degraded_commit |-> deg]
Old == Snap(1, a, TRUE)
New == Snap(2, b, TRUE)

Plain == [allow_degraded |-> FALSE, has_incumbent |-> FALSE]
Replan == [allow_degraded |-> FALSE, has_incumbent |-> TRUE]

TwoSnaps == {Old, New}
TwoRequests == {Plain, Replan}

Plan(p, s, r) == [op |-> "plan", plan |-> p, snapshot |-> s, request |-> r]
CommitAs(p, c) == [op |-> "commit", plan |-> p, commit |-> c]
Call(op, p) == [op |-> op, plan |-> p]

\* Several publishers plan one identity from different inputs, commit it under
\* two commit identities and read it (plan-commit-twice, plan-only of tef_node.cpp).
Contending ==
    { << Plan(1, Old, Plain), CommitAs(1, "c1"), CommitAs(1, "c2") >>, << CommitAs(1, "c1") >>,
      << Plan(1, New, Replan) >>, << Call("query", 1) >> }
\* Two plans from the same inputs displace one another (plan-commit), one of
\* them committed again or retired at any time.
Displacing ==
    { << Plan(1, Old, Plain), CommitAs(1, "c1") >>, << Plan(2, Old, Plain), CommitAs(2, "c1") >>,
      << CommitAs(1, "c1") >>, << Call("retire", 1) >> }

BothWorkloads == {Contending, Displacing}
DisplacingOnly == {Displacing}
==============================================================================
