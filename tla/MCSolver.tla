------------------------------- MODULE MCSolver -------------------------------
(***************************************************************************)
(* Small problems for Solver, derived from snapshots with up to three      *)
(* demands.                                                                *)
(***************************************************************************)
EXTENDS Solver, MCFabric

Options == [incumbent |-> <<>>, allow_degraded |-> FALSE, max_iterations |-> 100]

\* A case is a snapshot and the options solve is called with.
ProblemsOf(cases) == {make_problem(c[1], c[2]) : c \in cases}

(***************************************************************************)
(* Contention: every combination of three demands over two capacities and  *)
(* the objectives that steer the construction.                             *)
(***************************************************************************)
Objectives ==
    {{"minimize_max_utilization"}, {"fairness_across_groups", "minimize_path_count"},
     {"minimize_churn", "minimize_failure_domain_concentration"}}
Bandwidths == {<<1, 2, 3>>, <<2, 2, 2>>}
Allowed == {{1, 2}, {2, 3}, {1, 4}}
Contention ==
    {<<Snapshot(usable, <<Demand(b[1], 2, 1, a[1]), Demand(b[2], 2, 1, a[2]),
                          Demand(<<1, 2, 3>>, 1, 2, a[3])>>, terms),
       [Options EXCEPT !.incumbent = <<{4}, {3}>>]>> :
        usable \in {<<2, 2, 2>>, <<3, 4, 2>>, <<3, 3, 3>>}, terms \in Objectives,
        b \in [1 .. 2 -> Bandwidths], a \in [1 .. 3 -> Allowed]}

(***************************************************************************)
(* Policies, reservations and options around two demands.                  *)
(***************************************************************************)
Two(low, high) == <<Demand(low, 1, 1, {1, 2}), Demand(high, 2, 2, {2, 3})>>
Policies ==
    {OpenPolicy, [OpenPolicy EXCEPT !.max_utilization_permille = 500],
     [OpenPolicy EXCEPT !.require_minimums = FALSE, !.max_paths_per_demand = 1],
     [OpenPolicy EXCEPT !.allow_preemption = TRUE], [OpenPolicy EXCEPT !.allowed_tenants = {2}]}
Reserved ==
    {<<>>, <<Reservation({1}, 3, "not_preemptible", 0)>>,
     <<Reservation({2}, 1, "preemptible", 0), Reservation({1, 2}, 2, "preemptible_with_authority", 1)>>}
Governed ==
    {<<[Snapshot(usable, Two(low, <<1, 3, 4>>), terms) EXCEPT !.policy = policy,
                                                              !.reservations = reservations],
       [Options EXCEPT !.allow_degraded = degraded]>> :
        usable \in {<<2, 2, 2>>, <<4, 3, 1>>}, low \in {<<0, 1, 2>>, <<2, 3, 3>>},
        terms \in {{"minimize_max_utilization"}, {"minimize_path_count"}}, policy \in Policies,
        reservations \in Reserved, degraded \in BOOLEAN}

(***************************************************************************)
(* A negative weight; a path authorized under an earlier generation; a     *)
(* demand that is over, one without a path, and two whose bounds leave     *)
(* them one path.                                                          *)
(***************************************************************************)
Plain == Snapshot(<<2, 2, 2>>, Two(<<0, 1, 2>>, <<1, 3, 4>>), {"minimize_churn"})
Odd ==
    {<<s, Options>> : s \in
        {[Plain EXCEPT !.objective["minimize_churn"] = -1],
         [Plain EXCEPT !.paths[3].authority_generation = 0]}
        \cup
        {[Plain EXCEPT !.demands[1] = change] : change \in
            {[Demand(<<1, 1, 2>>, 1, 1, {}) EXCEPT !.effective = Over],
             [Demand(<<1, 1, 2>>, 1, 1, {2}) EXCEPT !.forbidden_paths = {2}],
             [Demand(<<1, 1, 2>>, 1, 1, {}) EXCEPT !.latency_bound_micros = 6,
                                                   !.path_cost_ceiling = 1],
             [Demand(<<1, 1, 2>>, 1, 1, {}) EXCEPT !.required_failure_domains = {1, 2}]}}}

(***************************************************************************)
(* Single cases that separate the documentation from the code.             *)
(***************************************************************************)
\* Demand 2 has the one path demand 1, of higher priority, was placed on.
Displacing ==
    {<<Snapshot(<<2, 2, 2>>, <<Demand(<<2, 2, 2>>, 2, 1, {1, 2}),
                               Demand(<<1, 1, 1>>, 1, 1, {2})>>, {"minimize_churn"}), Options>>}
\* The second resource of path 3 is full; demand 1 could leave it for path 2.
Blocked ==
    {<<[Snapshot(<<2, 2, 2>>, <<Demand(<<2, 2, 2>>, 2, 1, {2, 4}),
                                Demand(<<1, 1, 1>>, 1, 1, {3})>>, {"minimize_churn"})
            EXCEPT !.paths[2].cost = 3], Options>>}
\* Reservations exceed resource 1, the only one demand 1 can use.
Overbooked ==
    {<<[Plain EXCEPT !.reservations = <<Reservation({1}, 3, "not_preemptible", 0)>>,
                     !.demands[1] = Demand(<<1, 1, 1>>, 1, 1, {1})], Options>>}
\* A reservation obliges demand 1 to more than its maximum.
Obliged ==
    {<<[Plain EXCEPT !.reservations = <<Reservation({1}, 3, "not_preemptible", 1)>>], Options>>}
\* Demand 1 is excluded by policy; demand 2 could not be carried anyway.
Unlisted ==
    {<<[Plain EXCEPT !.policy.allowed_tenants = {2},
                     !.demands = Two(<<1, 1, 1>>, <<9, 9, 9>>)], Options>>}
\* The owner of a reservation is over; the reservation is not.
Orphaned ==
    {<<[Plain EXCEPT !.reservations = <<Reservation({2}, 2, "not_preemptible", 1)>>,
                     !.demands[1].effective = Over], Options>>}
\* Demand 1 asks for two failure domains.
Diverse == {<<[Plain EXCEPT !.demands[1].min_distinct_failure_domains = 2], Options>>}
\* A budget that the trials of the widening search use up.
Exhausted ==
    {<<c[1], [c[2] EXCEPT !.max_iterations = budget]>> :
        c \in {x \in Contention : "minimize_max_utilization" \in DOMAIN x[1].objective},
        budget \in 1 .. 6}
\* Nothing hard about it, but too large for a certificate.
Uncertified ==
    {<<Snapshot(<<2, 2, 2>>, Two(<<1, 1, 2>>, <<1, 1, 2>>), {"minimize_max_utilization"}), Options>>}

Documented ==
    Displacing \cup Blocked \cup Overbooked \cup Obliged \cup Unlisted \cup Orphaned \cup Diverse

ASSUME ValidCases ==
    \A c \in Contention \cup Governed \cup Odd \cup Documented \cup Uncertified :
        validate_structure(c[1])

AllProblems ==
    ProblemsOf(Contention) \cup ProblemsOf(Governed) \cup ProblemsOf(Odd) \cup ProblemsOf(Documented)
DocumentedProblems == ProblemsOf(Documented)
ExhaustedProblems == ProblemsOf(Exhausted)
UncertifiedProblems == ProblemsOf(Uncertified)
=============================================================================
