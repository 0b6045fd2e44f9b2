------------------------------- MODULE MCChurn -------------------------------
(***************************************************************************)
(* Two demands of two tenants: each has a path of its own, and one         *)
(* resource is on a path of both.                                          *)
(***************************************************************************)
EXTENDS Churn, MCFabric

CONSTANTS p1, p2

Terms == {"satisfy_minimums", "maximize_desired_bandwidth", "minimize_total_path_cost",
          "minimize_churn", "fairness_across_groups", "minimize_max_utilization"}
SmallTerms == {"maximize_desired_bandwidth", "minimize_total_path_cost", "minimize_churn"}
OtherTerms == {"preserve_priority", "preserve_reservations", "minimize_congestion_exposure",
               "minimize_failure_domain_concentration", "minimize_path_count"}

Pair == <<Demand(<<0, 2, 2>>, 1, 1, {1, 2}), Demand(<<1, 1, 1>>, 2, 2, {2, 3})>>
Strict == [OpenPolicy EXCEPT !.churn_improvement_threshold_permille = 100]
Cautious ==
    [OpenPolicy EXCEPT !.churn_improvement_threshold_permille = 1,
                       !.churn_max_affected_demands = 1, !.churn_max_operational_risk_permille = 600]
\* Floors may be missed, and less of the traffic may move.
Lenient ==
    [Strict EXCEPT !.require_minimums = FALSE, !.allow_degraded_commit = TRUE,
                   !.churn_max_moved_bandwidth_permille = 700]
\* The second tenant is excluded, and the resources are not to be filled.
Reserved ==
    [OpenPolicy EXCEPT !.churn_improvement_threshold_permille = 300, !.allowed_tenants = {1},
                       !.max_utilization_permille = 500]
Fabric(usable, demands, terms, policy) ==
    [Snapshot(usable, demands, terms) EXCEPT !.policy = policy]

\* Policies and objectives that change.  With numbers that stop at 3999, scores
\* under the first two objectives saturate and their differences do not scale,
\* nor does a move of all traffic, while the third's are exact.
Changing ==
    LET late == Demand(<<0, 1, 1>>, 2, 2, {2, 3})
    IN  {[Fabric(<<2, 2, 1>>, Pair, Terms, Strict) EXCEPT
             !.objective["minimize_max_utilization"] = 3, !.objective["minimize_total_path_cost"] = 8],
         Fabric(<<2, 2, 1>>, <<Pair[1]>>, OtherTerms, Cautious),
         Fabric(<<2, 2, 1>>, Pair, SmallTerms, Lenient),
         Fabric(<<4, 2, 1>>, <<Pair[1], late>>, SmallTerms, Reserved)}

\* Two paths of equal cost, no threshold.
Level == {Fabric(<<2, 2, 1>>, Pair, {"minimize_path_count"}, OpenPolicy)}
\* The same fabric before and after load was committed on its first resource.
Loaded ==
    LET before == Fabric(<<2, 2, 1>>, Pair, {"minimize_congestion_exposure"}, OpenPolicy)
    IN  {before, [before EXCEPT !.resources[1].committed_load = 1]}
\* The same fabric before and after a second demand arrived.
Arriving ==
    LET late == Demand(<<0, 1, 1>>, 0, 2, {2})
    IN  {Fabric(<<1, 1, 1>>, demands, {"maximize_desired_bandwidth"}, OpenPolicy) :
            demands \in {<<Pair[1]>>, <<Pair[1], late>>}}
=============================================================================
