-------------------------------- MODULE Churn --------------------------------
(***************************************************************************)
(* Churn control: how an allocation is scored (solver.cpp), how a proposal *)
(* is compared with an incumbent (compare_churn, allocation.cpp) and what  *)
(* the engine does with the decision (engine.cpp) while several publishers *)
(* plan at once.                                                           *)
(*                                                                         *)
(* An allocation is its shares, a function from demand and path to granted *)
(* bandwidth, and the table of resources that was computed with it.  What  *)
(* solve answers is any allocation with the properties Solver establishes  *)
(* of its answers.  A slot of `plans` is a plan between its declaration    *)
(* and its commit; a refused plan frees it for the next identity.          *)
(* Authority and the log are PlanEngine's: here two snapshots always       *)
(* differ in content, and a new one makes every live plan stale.           *)
(*                                                                         *)
(* Numbers stop at MaxInt, as the code's do: weights and costs make        *)
(* products that reach it, and permille answers for a part it cannot       *)
(* scale.  Sums of what is granted or moved cannot reach it (limits.hpp:   *)
(* 4096 demands of at most 10^15 each, before and after) and are exact,    *)
(* and the reservations charged to one demand are taken to stay below it.  *)
(***************************************************************************)
EXTENDS Derivation, FiniteSets

CONSTANTS
    Plans,          \* the plans that can be live at one time
    Snapshots,      \* the snapshots that can be submitted
    MaxGrant,       \* bound on what one path grants one demand
    MaxInt,         \* the largest number, of 64 bits in the code
    MayOmit         \* publishers may declare a plan without the incumbent

ASSUME SnapshotsAssumption == \A s \in Snapshots : validate_structure(s)
ASSUME BoundsAssumption == MaxGrant \in Nat /\ MaxInt \in Nat /\ MayOmit \in BOOLEAN

VARIABLES
    snapshot,   \* Impl::snapshot
    incumbent,  \* the allocation of Impl::incumbent, the last plan committed
    plans       \* the live plans: what each was declared with and its report

vars == <<snapshot, incumbent, plans>>

NoAllocation == [shares |-> <<>>, resources |-> <<>>]

(***************************************************************************)
(* Allocations                                                             *)
(***************************************************************************)
Keys(a) == UNION {{d} \X DOMAIN a.shares[d] : d \in DOMAIN a.shares}
Share(a, key) == IF key \in Keys(a) THEN a.shares[key[1]][key[2]] ELSE 0
Sum(a, keys) == SumOver([key \in keys |-> Share(a, key)], keys)
granted(a, d) == Sum(a, {key \in Keys(a) : key[1] = d})
total_granted(a) == Sum(a, Keys(a))

\* What sat_add and sat_mul make of numbers that are not negative: once a sum
\* has stopped at MaxInt it stays there, so only its total matters.
sat(n) == Min({n, MaxInt})

\* Exactness ends where part * 1000 does.  part is never negative where it
\* matters: see improvement below.
Scales(part) == part * 1000 \in -MaxInt - 1 .. MaxInt
permille(part, whole) ==
    IF whole <= 0 THEN 0
    ELSE IF ~Scales(part) THEN (IF part > 0 THEN 1000 ELSE 0)
    ELSE (part * 1000) \div whole

\* The table solve computes for the shares it found.
Utilization(s, shares, r) ==
    LET a == [shares |-> shares]
        allocated == Sum(a, {key \in Keys(a) : r \in s.paths[key[2]].resources})
    IN  [allocated |-> allocated, available |-> available(s, r),
         utilization_permille |->
             permille(claimed(s, r) + allocated, s.resources[r].usable_capacity)]
Built(s, shares) ==
    [shares |-> shares,
     resources |-> [r \in DOMAIN s.resources |-> Utilization(s, shares, r)]]

desired(s, d) == Max({s.demands[d].desired_bandwidth, floor(s, d)})

\* What solve can answer, in shares of at most MaxGrant: admitted paths, no
\* demand above its maximum, no resource above the policy's ceiling, and no
\* capacity left unused that a demand short of its target could have had, unless
\* the objective searches for a tighter ceiling or consolidates paths afterwards
\* (what Solver's HardBounds, VerifierAgrees and NothingWasted say of it).  An
\* objective with a negative weight is refused.
admitted(s, d) == IF excluded(s, d) THEN {} ELSE Range(eligible_paths(s, d))
ceiling(s, r) ==
    LET cap == (s.resources[r].usable_capacity * s.policy.max_utilization_permille) \div 1000
    IN  Min({available(s, r), Max({0, cap - claimed(s, r)})})

Shares(s, d) == UNION {[ps -> 1 .. MaxGrant] : ps \in SUBSET admitted(s, d)}
Legal(s, a, d) ==
    /\ granted(a, d) <= s.demands[d].maximum_bandwidth
    /\ excluded(s, d) => floor(s, d) = 0
Content(s, a, d) ==
    \/ {"minimize_max_utilization", "minimize_path_count"} \cap DOMAIN s.objective # {}
    \/ granted(a, d) >= Min({desired(s, d), s.demands[d].maximum_bandwidth})
    \/ \A p \in admitted(s, d) : \E r \in s.paths[p].resources :
           a.resources[r].allocated >= ceiling(s, r)
\* A floor that was not placed is an answer only where the policy does not
\* insist and the publisher allows it.
degraded(s, a) ==
    \E d \in DOMAIN s.demands : active(s, d) /\ granted(a, d) < floor(s, d)
Allocations(s) ==
    LET D == DOMAIN s.demands
        table == {f \in [D -> UNION {Shares(s, d) : d \in D}] : \A d \in D : f[d] \in Shares(s, d)}
    IN  {a \in {Built(s, f) : f \in table} :
            /\ ~reservation_conflict(s)
            /\ \A term \in DOMAIN s.objective : s.objective[term] > 0
            /\ \A d \in D : Legal(s, a, d) /\ Content(s, a, d)
            /\ degraded(s, a) => ~s.policy.require_minimums
            /\ \A r \in DOMAIN s.resources : a.resources[r].allocated <= ceiling(s, r)}
Answers == [s \in Snapshots |-> Allocations(s)]

(***************************************************************************)
(* compute_metrics and the score                                           *)
(***************************************************************************)
Abs(n) == IF n < 0 THEN -n ELSE n
moved_bandwidth(a, b) ==
    LET keys == Keys(a) \cup Keys(b)
    IN  SumOver([key \in keys |-> Abs(Share(b, key) - Share(a, key))], keys)

Shortfall(target, given) == Max({0, target - given})

\* Failure domains by the snapshot's paths; a path it no longer has counts for
\* none.
Crossing(s, a, domain) ==
    {key \in Keys(a) : key[2] \in DOMAIN s.paths /\ domain \in s.paths[key[2]].failure_domains}
Domains(s, a) ==
    UNION {s.paths[key[2]].failure_domains : key \in {k \in Keys(a) : k[2] \in DOMAIN s.paths}}

\* Only the demands the allocation lists are looked at.
Measured(s, a) == {d \in DOMAIN a.shares : d \in DOMAIN s.demands /\ active(s, d)}
Attainment(s, a, tenant) ==
    LET of == {d \in Measured(s, a) : s.demands[d].tenant = tenant}
        wanted == sat(SumOver([d \in of |-> desired(s, d)], of))
        given == SumOver([d \in of |-> granted(a, d)], of)
    IN  IF wanted <= 0 THEN 1000 ELSE Min({1000, permille(given, wanted)})

MaxOf(S) == Max(S \cup {0})
\* The raw value of an objective term for an allocation a; before is the
\* incumbent in the options, or NoAllocation when there is none.
raw_value(term, s, a, has_incumbent, before) ==
    LET measured == Measured(s, a)
        Short(d) == Shortfall(desired(s, d), granted(a, d))
        table == {a.resources[r] : r \in DOMAIN a.resources}
        exposed == {r \in DOMAIN a.resources : a.resources[r].available > 0}
        Exposure(r) == sat(a.resources[r].allocated
                            * permille(a.resources[r].allocated, a.resources[r].available)) \div 1000
        used == {key \in Keys(a) : key[1] \in measured}
        priced == {key \in used : key[2] \in DOMAIN s.paths}
        ratios == {Attainment(s, a, s.demands[d].tenant) : d \in measured}
    IN  CASE term = "satisfy_minimums" ->
                sat(SumOver([d \in measured |-> Shortfall(floor(s, d), granted(a, d))], measured))
          [] term = "maximize_desired_bandwidth" ->
                sat(SumOver([d \in measured |-> Short(d)], measured))
          [] term = "preserve_priority" ->
                sat(SumOver([d \in measured |-> Short(d) * (256 - s.demands[d].priority)], measured))
          [] term = "fairness_across_groups" ->
                IF ratios = {} THEN 0 ELSE Max(ratios) - Min(ratios)
          [] term = "minimize_path_count" -> Cardinality(used)
          [] term = "minimize_total_path_cost" ->
                sat(SumOver([key \in priced |-> Share(a, key) * s.paths[key[2]].cost], priced))
          [] term = "minimize_churn" -> IF has_incumbent THEN moved_bandwidth(before, a) ELSE 0
          [] term = "preserve_reservations" ->
                Cardinality({v \in DOMAIN s.reservations :
                                Accounting(s, v).displaceable /\ Accounting(s, v).active})
          [] term = "minimize_max_utilization" -> MaxOf({t.utilization_permille : t \in table})
          [] term = "minimize_congestion_exposure" ->
                sat(SumOver([r \in exposed |-> Exposure(r)], exposed))
          [] term = "minimize_failure_domain_concentration" ->
                MaxOf({Sum(a, Crossing(s, a, domain)) : domain \in Domains(s, a)})

Score(s, a, has_incumbent, before) ==
    sat(SumOver([term \in DOMAIN s.objective |->
                    s.objective[term] * raw_value(term, s, a, has_incumbent, before)],
                DOMAIN s.objective))
\* How the engine scores an incumbent: with default options, so against none.
score_allocation(s, a) == Score(s, a, FALSE, NoAllocation)

(***************************************************************************)
(* compare_churn                                                           *)
(***************************************************************************)
ChangedKeys(a, b) == {key \in Keys(a) \cup Keys(b) : Share(a, key) # Share(b, key)}
demands_changed(a, b) == Cardinality({key[1] : key \in ChangedKeys(a, b)})
\* Mutant: against what both allocations carry together.
MovedShareOfBoth(a, b) == permille(moved_bandwidth(a, b), total_granted(a) + total_granted(b))
moved_permille(a, b) ==
    permille(moved_bandwidth(a, b), Max({total_granted(a), total_granted(b)}))

\* Negative exactly in a regression, which is decided before it is read, so how
\* the division rounds it does not matter.
improvement_permille(score_a, score_b) ==
    IF score_a > 0 THEN permille(score_a - score_b, score_a)
    ELSE IF score_b <= 0 THEN 0 ELSE -1000

RiskParts(s, a, b) ==
    LET domains == Domains(s, a) \cup Domains(s, b)
        changed == {f \in domains : Sum(a, Crossing(s, a, f)) # Sum(b, Crossing(s, b, f))}
    IN  (  moved_permille(a, b) * 60
         + permille(demands_changed(a, b), Cardinality(DOMAIN a.shares)) * 25
         + permille(Cardinality(changed), Cardinality(domains)) * 15) \div 100
operational_risk_permille(s, a, b) == Min({1000, RiskParts(s, a, b)})

\* Mutant: the improvement gate is forgotten.
ImprovesAny(s, score_a, score_b) == TRUE
Improves(s, score_a, score_b) ==
    improvement_permille(score_a, score_b) >= s.policy.churn_improvement_threshold_permille
Confined(s, a, b) ==
    /\ moved_permille(a, b) <= s.policy.churn_max_moved_bandwidth_permille
    /\ \/ s.policy.churn_max_affected_demands = 0
       \/ demands_changed(a, b) <= s.policy.churn_max_affected_demands
RiskAdmitted(s, a, b) ==
    operational_risk_permille(s, a, b) <= s.policy.churn_max_operational_risk_permille

compare_churn(s, a, b, score_a, score_b) ==
    [moved |-> moved_bandwidth(a, b),
     decision |-> IF DOMAIN a.shares = {} THEN "no_incumbent"
                  ELSE IF score_b > score_a THEN "reject_regression"
                  ELSE IF /\ Improves(s, score_a, score_b)
                          /\ Confined(s, a, b)
                          /\ RiskAdmitted(s, a, b) THEN "accept"
                  ELSE "hold_incumbent"]
NotCompared == [moved |-> 0, decision |-> "no_incumbent"]

(***************************************************************************)
(* The engine                                                              *)
(***************************************************************************)
Free == [state |-> "free"]

\* submit_snapshot: every live plan becomes stale.
SubmitSnapshot(s) ==
    /\ snapshot # s /\ snapshot' = s
    /\ plans' = [p \in Plans |-> Free]
    /\ UNCHANGED incumbent

\* declare, then validate: the publisher hands over the incumbent it reads, if
\* there is one, and it is kept for solve.  encode_allocation writes no table, so
\* one that came over the wire has none.
Handed == {incumbent, [incumbent EXCEPT !.resources = <<>>]}
Declare(p) ==
    /\ plans[p] = Free
    /\ \E supplied \in {TRUE} \cup (IF MayOmit THEN {FALSE} ELSE {}), handed \in Handed :
         LET has == supplied /\ incumbent # NoAllocation IN
         plans' = [plans EXCEPT ![p] =
                      [state |-> "validated", has_incumbent |-> has,
                       incumbent |-> IF has THEN handed ELSE NoAllocation]]
    /\ UNCHANGED <<snapshot, incumbent>>

\* solve: the answer is scored against the incumbent of the request, not
\* against the engine's.
Solve(p) ==
    /\ plans[p].state = "validated"
    /\ \E a \in Answers[snapshot] :
         LET before == plans[p].incumbent
             churn == IF plans[p].has_incumbent
                      THEN compare_churn(snapshot, before, a, score_allocation(snapshot, before),
                                         Score(snapshot, a, TRUE, before))
                      ELSE NotCompared
         IN  plans' = [plans EXCEPT ![p] =
                          [state |-> "proposed", has_incumbent |-> plans[p].has_incumbent,
                           incumbent |-> before, allocation |-> a, churn |-> churn]]
    /\ UNCHANGED <<snapshot, incumbent>>

\* A plan that is rejected, or refused by authorize, ends here.
Refused(p) ==
    \/ plans[p].churn.decision \in {"hold_incumbent", "reject_regression"}
    \/ degraded(snapshot, plans[p].allocation) /\ ~snapshot.policy.allow_degraded_commit
Discard(p) ==
    /\ plans[p].state = "validated" \/ (plans[p].state = "proposed" /\ Refused(p))
    /\ plans' = [plans EXCEPT ![p] = Free]
    /\ UNCHANGED <<snapshot, incumbent>>

\* Mutant: authorize looks only at regressions.
AuthorizeHeld(p) ==
    /\ plans[p].state = "proposed" /\ plans[p].churn.decision # "reject_regression"
    /\ plans' = [plans EXCEPT ![p].state = "authorized"]
    /\ UNCHANGED <<snapshot, incumbent>>
Authorize(p) ==
    /\ plans[p].state = "proposed" /\ ~Refused(p)
    /\ plans' = [plans EXCEPT ![p].state = "authorized"]
    /\ UNCHANGED <<snapshot, incumbent>>

Commit(p) ==
    /\ plans[p].state = "authorized"
    /\ incumbent' = plans[p].allocation
    /\ plans' = [plans EXCEPT ![p] = Free]
    /\ UNCHANGED snapshot

Init ==
    /\ snapshot \in Snapshots
    /\ incumbent = NoAllocation
    /\ plans = [p \in Plans |-> Free]

Next ==
    \/ \E s \in Snapshots : SubmitSnapshot(s)
    \/ \E p \in Plans : Declare(p) \/ Solve(p) \/ Discard(p) \/ Authorize(p) \/ Commit(p)

Spec == Init /\ [][Next]_vars

(***************************************************************************)
(* Properties                                                              *)
(***************************************************************************)
Compared(p) == plans[p].state \in {"proposed", "authorized"} /\ plans[p].has_incumbent

\* A commit that replaces the incumbent its plan was compared with, with its
\* table or without.
Replaces(p) ==
    plans[p].state = "authorized" /\ plans[p].incumbent \in Handed /\ Commit(p)
Both(a, b) == SumOver([key \in Keys(a) |-> Min({Share(a, key), Share(b, key)})], Keys(a))
\* The bounds of the policy on the way from a to b, from what the two have in
\* common: moved is what either carries beyond that.  A bound of 1000 is none
\* for what permille cannot scale.
WithinPolicy(s, a, b) ==
    LET total == Max({total_granted(a), total_granted(b)})
        moved == total_granted(a) + total_granted(b) - 2 * Both(a, b)
        bound == s.policy.churn_max_moved_bandwidth_permille
        listed == DOMAIN a.shares \cup DOMAIN b.shares
        Row(c, d) == {<<key, Share(c, key)>> : key \in {k \in Keys(c) : k[1] = d}}
    IN  /\ \/ 1000 * moved < (bound + 1) * total
           \/ moved = 0
           \/ 1000 * moved > MaxInt /\ bound = 1000
        /\ \/ s.policy.churn_max_affected_demands = 0
           \/ Cardinality({d \in listed : Row(a, d) # Row(b, d)})
                <= s.policy.churn_max_affected_demands

\* A plan that replaces the incumbent it was compared with scores better by at
\* least the policy's threshold on the objective itself, whatever the objective
\* says of churn and whatever table the comparison was given (compare_churn,
\* Engine::authorize), or by more than permille can scale.  An incumbent that
\* lists no demand is compared as if there were none.
ImprovesBy(threshold, old, new) ==
    (old - new) * 1000 >= threshold * old \/ (old - new) * 1000 > MaxInt
ReplacementImproves ==
    [][\A p \in Plans : Replaces(p) /\ DOMAIN incumbent.shares # {} =>
        ImprovesBy(snapshot.policy.churn_improvement_threshold_permille,
                   score_allocation(snapshot, incumbent),
                   score_allocation(snapshot, plans[p].allocation))]_vars

\* And it stays inside the policy's bounds on moved bandwidth, to less than one
\* permille, and on the demands affected; a bound below 1000 holds at any size.
ReplacementConfined ==
    [][\A p \in Plans : Replaces(p) /\ DOMAIN incumbent.shares # {} =>
        WithinPolicy(snapshot, incumbent, plans[p].allocation)]_vars

\* With a threshold above zero, the incumbent of a fabric that stays the same
\* cannot change for ever by plans whose publishers supplied the incumbent they
\* read, even if what they read is out of date when their plan is committed.
Unguarded == \E p \in Plans : Commit(p) /\ ~plans[p].has_incumbent
Settles ==
    []<><<TRUE>>_incumbent => []<><<TRUE>>_snapshot \/ []<><<Unguarded>>_vars

(***************************************************************************)
(* What the repository says and the code does not do                       *)
(***************************************************************************)
\* The incumbent is not displaced unless the policy's thresholds are crossed
\* (docs/systems-boundary.md), by any plan whose publisher supplied one.
DisplacedOnlyWithinPolicy ==
    [][\A p \in Plans :
        /\ plans[p].state = "authorized" /\ plans[p].has_incumbent /\ Commit(p)
        => WithinPolicy(snapshot, incumbent, plans[p].allocation)]_vars

\* permille is never used for authoritative ordering (numeric.hpp), so what is
\* accepted crosses the threshold exactly, at any size.
AcceptedCrossesThreshold ==
    \A p \in Plans :
        LET old == score_allocation(snapshot, plans[p].incumbent)
            new == Score(snapshot, plans[p].allocation, TRUE, plans[p].incumbent)
        IN  Compared(p) /\ plans[p].churn.decision = "accept" =>
                (old - new) * 1000 >= snapshot.policy.churn_improvement_threshold_permille * old

\* An accepted proposal improves the objective (the rationale compare_churn
\* gives for it).
AcceptedImproves ==
    \A p \in Plans :
        Compared(p) /\ plans[p].churn.decision = "accept" =>
            Score(snapshot, plans[p].allocation, TRUE, plans[p].incumbent)
                < score_allocation(snapshot, plans[p].incumbent)

\* Incumbent and proposal are scored on the same objective in the same way
\* (solver.hpp), so one that changes no share is no regression.
UnchangedIsNoRegression ==
    \A p \in Plans :
        Compared(p) /\ ChangedKeys(plans[p].incumbent, plans[p].allocation) = {} =>
            plans[p].churn.decision # "reject_regression"
=============================================================================
