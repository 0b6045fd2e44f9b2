------------------------------- MODULE MCFabric -------------------------------
(***************************************************************************)
(* Constructors for the small snapshots the MC modules use: three          *)
(* resources and four paths, two of which cross two resources.             *)
(***************************************************************************)
EXTENDS Derivation

Always == [start_tick |-> 0, end_tick |-> 0, open_ended |-> TRUE]
Over == [start_tick |-> 0, end_tick |-> 1, open_ended |-> FALSE]

Path(cost, resources, domains, latency, scope, subject) ==
    [resources |-> resources, failure_domains |-> domains, cost |-> cost, latency_micros |-> latency,
     scope |-> scope, scope_tenant |-> subject, scope_service_class |-> subject,
     authority_generation |-> 1]
FourPaths ==
    << Path(1, {1}, {1}, None, "fabric_wide", 0), Path(1, {2}, {2}, 5, "fabric_wide", 0),
       Path(2, {2, 3}, {2}, 7, "fabric_wide", 0), Path(2, {1, 3}, {1, 2}, 7, "fabric_wide", 0) >>

Demand(bandwidth, priority, tenant, allowed) ==
    [minimum_bandwidth |-> bandwidth[1], desired_bandwidth |-> bandwidth[2],
     maximum_bandwidth |-> bandwidth[3], priority |-> priority, tenant |-> tenant,
     service_class |-> 1, latency_bound_micros |-> None, path_cost_ceiling |-> None,
     allowed_paths |-> allowed, forbidden_paths |-> {}, required_failure_domains |-> {},
     min_distinct_failure_domains |-> 0, reservation_bindings |-> {}, effective |-> Always]

Reservation(resources, bandwidth, preemptibility, owner) ==
    [resources |-> resources, bandwidth |-> bandwidth, preemptibility |-> preemptibility,
     owner |-> owner, effective |-> Always]

OpenPolicy ==
    [allow_preemption |-> FALSE, require_minimums |-> TRUE, allow_degraded_commit |-> FALSE,
     max_utilization_permille |-> 1000,
     max_paths_per_demand |-> 0, allowed_tenants |-> {}, allowed_service_classes |-> {},
     churn_improvement_threshold_permille |-> 0, churn_max_moved_bandwidth_permille |-> 1000,
     churn_max_operational_risk_permille |-> 1000, churn_max_affected_demands |-> 0]

Snapshot(usable, demands, terms) ==
    [resources |-> [r \in 1 .. 3 |-> [usable_capacity |-> usable[r], committed_load |-> 0]],
     reservations |-> <<>>, policy |-> OpenPolicy, objective |-> [t \in terms |-> 1],
     paths |-> FourPaths, demands |-> demands, evaluation_tick |-> 1,
     path_authority_generation |-> 1]
=============================================================================
