------------------------------ MODULE Derivation ------------------------------
(***************************************************************************)
(* What a plan is computed from (model.cpp, derived.cpp): the snapshots    *)
(* validate_structure admits, and derive, which turns one into residual    *)
(* capacity, hard floors and eligible paths.                               *)
(*                                                                         *)
(* A snapshot is a record of functions from identities to records.         *)
(* Identities are numbers, in the order of their bytes, so a function is a *)
(* collection in canonical order without duplicates.  Optional numbers are *)
(* None when absent.  Provenance, digests and the generations only         *)
(* compare_authority reads are Authority's and are left out.  Bandwidths   *)
(* are at most Limits::max_bandwidth, and their sums are exact: demands    *)
(* are too few to reach 2^63, and reservations that did would exceed every *)
(* capacity and every maximum all the same.                                *)
(***************************************************************************)
EXTENDS Integers, SequencesExt, Sums

None == -1
Absent == 0       \* an absent identity
Identities == Nat \ {Absent}
OptionalNat(n) == n = None \/ n \in Nat

(***************************************************************************)
(* validate_structure                                                      *)
(***************************************************************************)
ObjectiveTerms ==
    {"satisfy_minimums", "minimize_max_utilization", "minimize_congestion_exposure",
     "minimize_total_path_cost", "minimize_churn", "preserve_reservations", "preserve_priority",
     "maximize_desired_bandwidth", "fairness_across_groups",
     "minimize_failure_domain_concentration", "minimize_path_count"}

\* Every collection is within its limit, which is left out, and so finite.
ValidSizes(s) ==
    /\ IsFiniteSet(DOMAIN s.demands) /\ IsFiniteSet(DOMAIN s.paths)
    /\ IsFiniteSet(DOMAIN s.resources) /\ IsFiniteSet(DOMAIN s.reservations)
    /\ \A p \in DOMAIN s.paths : IsFiniteSet(s.paths[p].failure_domains)

ValidCapacity(s) ==
    /\ DOMAIN s.resources \subseteq Identities
    /\ \A r \in DOMAIN s.resources :
           /\ s.resources[r].usable_capacity \in Nat
           /\ s.resources[r].committed_load \in Nat

ValidReservations(s) ==
    /\ DOMAIN s.reservations \subseteq Identities
    /\ \A v \in DOMAIN s.reservations :
           /\ s.reservations[v].bandwidth \in Nat
           /\ s.reservations[v].resources \subseteq DOMAIN s.resources

ValidPolicy(s) ==
    /\ s.policy.max_utilization_permille \in 1 .. 1000
    /\ s.policy.max_paths_per_demand \in Nat
    /\ s.policy.churn_improvement_threshold_permille \in 0 .. 1000
    /\ s.policy.churn_max_moved_bandwidth_permille \in 0 .. 1000
    /\ s.policy.churn_max_operational_risk_permille \in 0 .. 1000
    /\ s.policy.churn_max_affected_demands \in Nat

ValidObjective(s) ==
    /\ DOMAIN s.objective # {} /\ DOMAIN s.objective \subseteq ObjectiveTerms
    /\ \A t \in DOMAIN s.objective : s.objective[t] \in Int \ {0}

ValidPaths(s) ==
    /\ DOMAIN s.paths \subseteq Identities
    /\ \A p \in DOMAIN s.paths :
           /\ s.paths[p].resources # {}
           /\ s.paths[p].resources \subseteq DOMAIN s.resources
           /\ s.paths[p].cost \in Nat
           /\ OptionalNat(s.paths[p].latency_micros)
           /\ s.paths[p].scope = "tenant" => s.paths[p].scope_tenant # Absent
           /\ s.paths[p].scope = "service_class" => s.paths[p].scope_service_class # Absent

ValidDemands(s) ==
    /\ DOMAIN s.demands \subseteq Identities
    /\ \A d \in DOMAIN s.demands : LET demand == s.demands[d] IN
           /\ demand.minimum_bandwidth \in Nat /\ demand.desired_bandwidth \in Nat
           /\ demand.maximum_bandwidth \in Nat /\ demand.priority \in 0 .. 255
           /\ demand.minimum_bandwidth <= demand.desired_bandwidth
           /\ demand.desired_bandwidth <= demand.maximum_bandwidth
           /\ OptionalNat(demand.latency_bound_micros)
           /\ OptionalNat(demand.path_cost_ceiling)
           /\ demand.reservation_bindings \subseteq DOMAIN s.reservations

validate_structure(s) ==
    /\ ValidSizes(s) /\ ValidCapacity(s) /\ ValidReservations(s) /\ ValidPolicy(s)
    /\ ValidObjective(s) /\ ValidPaths(s) /\ ValidDemands(s)

(***************************************************************************)
(* Reservations                                                            *)
(***************************************************************************)
covers(interval, tick) ==
    /\ interval.start_tick <= tick
    /\ interval.open_ended \/ tick < interval.end_tick

Claimants(s, v) == {d \in DOMAIN s.demands : v \in s.demands[d].reservation_bindings}
Owned(s, v) == s.reservations[v].owner \in DOMAIN s.demands

\* Preemption takes the policy and the reserving authority, and for the
\* stronger class a demand the reservation is attached to.
policy_permits_preemption(policy, preemptibility, attached) ==
    /\ policy.allow_preemption
    /\ \/ preemptibility = "preemptible"
       \/ preemptibility = "preemptible_with_authority" /\ attached

\* One disposition for each reservation: inactive, displaceable, charged to a
\* demand (its owner, or the smallest that binds it), or charged to resources.
\* charged_to is Absent in all but the third.
Accounting(s, v) ==
    LET v_active == covers(s.reservations[v].effective, s.evaluation_tick)
        attached == Claimants(s, v) # {} \/ Owned(s, v)
        displaceable == policy_permits_preemption(
                            s.policy, s.reservations[v].preemptibility, attached)
    IN  [active |-> v_active,
         displaceable |-> displaceable,
         bandwidth |-> s.reservations[v].bandwidth,
         charged_to |-> IF ~v_active \/ displaceable THEN Absent
                        ELSE IF Owned(s, v) THEN s.reservations[v].owner
                        ELSE IF Claimants(s, v) # {} THEN Min(Claimants(s, v))
                        ELSE Absent]

ChargedToResource(s, v, r) ==
    LET a == Accounting(s, v)
    IN  /\ a.active /\ ~a.displaceable /\ a.charged_to = Absent
        /\ r \in s.reservations[v].resources

Bandwidth(s, vs) == SumOver([v \in vs |-> s.reservations[v].bandwidth], vs)
reserved(s, r) == Bandwidth(s, {v \in DOMAIN s.reservations : ChargedToResource(s, v, r)})
obligation(s, d) == Bandwidth(s, {v \in DOMAIN s.reservations : Accounting(s, v).charged_to = d})

claimed(s, r) == s.resources[r].committed_load + reserved(s, r)
available(s, r) == Max({0, s.resources[r].usable_capacity - claimed(s, r)})
\* The only constraint derive reports for the snapshot as a whole.
reservation_conflict(s) ==
    \E r \in DOMAIN s.resources : claimed(s, r) > s.resources[r].usable_capacity

(***************************************************************************)
(* Demands                                                                 *)
(***************************************************************************)
active(s, d) == covers(s.demands[d].effective, s.evaluation_tick)
floor(s, d) == Max({s.demands[d].minimum_bandwidth, obligation(s, d)})

\* The tenant or the service class is not on a list the policy keeps.
excluded(s, d) ==
    /\ active(s, d)
    /\ \/ /\ s.policy.allowed_tenants # {}
          /\ s.demands[d].tenant \notin s.policy.allowed_tenants
       \/ /\ s.policy.allowed_service_classes # {}
          /\ s.demands[d].service_class \notin s.policy.allowed_service_classes

\* That path and demand name the same candidate set is left to validate_structure,
\* which demands it of every path and every demand.
Eligible(s, d, p) ==
    LET path == s.paths[p]
        demand == s.demands[d]
    IN  /\ demand.allowed_paths = {} \/ p \in demand.allowed_paths
        /\ p \notin demand.forbidden_paths
        /\ path.scope = "tenant" => path.scope_tenant = demand.tenant
        /\ path.scope = "service_class" => path.scope_service_class = demand.service_class
        /\ demand.latency_bound_micros # None =>
               /\ path.latency_micros # None
               /\ path.latency_micros <= demand.latency_bound_micros
        /\ demand.path_cost_ceiling # None => path.cost <= demand.path_cost_ceiling
        /\ demand.required_failure_domains \subseteq path.failure_domains

\* By cost, then latency with paths that have no evidence last, then identity.
path_less(s, p, q) ==
    LET a == s.paths[p]
        b == s.paths[q]
    IN  \/ a.cost < b.cost
        \/ /\ a.cost = b.cost
           /\ a.latency_micros # b.latency_micros
           /\ \/ b.latency_micros = None
              \/ a.latency_micros # None /\ a.latency_micros < b.latency_micros
        \/ a.cost = b.cost /\ a.latency_micros = b.latency_micros /\ p < q

\* In that order, cut to the policy's path count; derive looks at no path for a
\* demand that is not effective.
eligible_paths(s, d) ==
    LET paths == {p \in DOMAIN s.paths : active(s, d) /\ Eligible(s, d, p)}
        Before(p) == {q \in paths : path_less(s, q, p)}
        limit == s.policy.max_paths_per_demand
        count == IF limit = 0 THEN Cardinality(paths) ELSE Min({limit, Cardinality(paths)})
    IN  [i \in 1 .. count |-> CHOOSE p \in paths : Cardinality(Before(p)) = i - 1]

(***************************************************************************)
(* The derivation of a snapshot, with what solve reads of the snapshot     *)
(* itself and of its options: the problem it works on.                     *)
(***************************************************************************)
derive(s) ==
    LET D == DOMAIN s.demands
        R == DOMAIN s.resources
    IN  [resources |-> R, paths |-> DOMAIN s.paths, demands |-> D,
         usable |-> [r \in R |-> s.resources[r].usable_capacity],
         claimed |-> [r \in R |-> claimed(s, r)],
         available |-> [r \in R |-> available(s, r)],
         reservation_conflict |-> reservation_conflict(s),
         reservations |-> [v \in DOMAIN s.reservations |-> Accounting(s, v)],
         active |-> [d \in D |-> active(s, d)],
         excluded |-> [d \in D |-> excluded(s, d)],
         floor |-> [d \in D |-> floor(s, d)],
         desired |-> [d \in D |-> Max({s.demands[d].desired_bandwidth, floor(s, d)})],
         maximum |-> [d \in D |-> s.demands[d].maximum_bandwidth],
         eligible |-> [d \in D |-> eligible_paths(s, d)]]

make_problem(s, options) ==
    LET derived == derive(s)
        given ==
            [through |-> [p \in DOMAIN s.paths |-> s.paths[p].resources],
             failure_domains |-> [p \in DOMAIN s.paths |-> s.paths[p].failure_domains],
             authorized |-> [p \in DOMAIN s.paths |->
                                s.paths[p].authority_generation = s.path_authority_generation],
             less |-> {pair \in (DOMAIN s.paths) \X (DOMAIN s.paths) : path_less(s, pair[1], pair[2])},
             priority |-> [d \in DOMAIN s.demands |-> s.demands[d].priority],
             tenant |-> [d \in DOMAIN s.demands |-> s.demands[d].tenant],
             min_distinct |-> [d \in DOMAIN s.demands |-> s.demands[d].min_distinct_failure_domains],
             policy_ceiling |-> s.policy.max_utilization_permille,
             require_minimums |-> s.policy.require_minimums,
             terms |-> DOMAIN s.objective,
             negative_weight |-> \E t \in DOMAIN s.objective : s.objective[t] < 0,
             incumbent |-> [d \in DOMAIN s.demands |->
                                IF d \in DOMAIN options.incumbent THEN options.incumbent[d] ELSE {}],
             allow_degraded |-> options.allow_degraded,
             max_iterations |-> options.max_iterations]
    IN  [field \in DOMAIN derived \cup DOMAIN given |->
            IF field \in DOMAIN derived THEN derived[field] ELSE given[field]]

\* What derive and make_problem yield for a snapshot that is structurally valid:
\* what solve relies on.
IsProblem(p) ==
    /\ p.demands \subseteq Nat \ {0} /\ p.paths \subseteq Nat /\ p.resources \subseteq Nat
    /\ IsFiniteSet(p.demands) /\ IsFiniteSet(p.paths) /\ IsFiniteSet(p.resources)
    /\ p.active \in [p.demands -> BOOLEAN] /\ p.excluded \in [p.demands -> BOOLEAN]
    /\ p.usable \in [p.resources -> Nat]
    /\ p.claimed \in [p.resources -> Nat]
    /\ p.available \in [p.resources -> Nat]
    /\ p.floor \in [p.demands -> Nat]
    /\ p.desired \in [p.demands -> Nat]
    /\ p.maximum \in [p.demands -> Nat]
    /\ p.priority \in [p.demands -> Nat]
    /\ p.eligible \in [p.demands -> Seq(p.paths)]
    /\ \A d \in p.demands : \A i, j \in DOMAIN p.eligible[d] :
          i # j => p.eligible[d][i] # p.eligible[d][j]
    /\ \A x, y \in p.paths : <<x, y>> \in p.less => <<y, x>> \notin p.less
    /\ p.through \in [p.paths -> (SUBSET p.resources) \ {{}}]
    /\ \A x \in p.paths : IsFiniteSet(p.failure_domains[x])
    /\ p.policy_ceiling \in 1 .. 1000
    /\ p.max_iterations \in Nat \ {0}
=============================================================================
