-------------------------------- MODULE Solver --------------------------------
(***************************************************************************)
(* solve (solver.cpp): the search for the tightest utilisation ceiling,    *)
(* the placement of hard floors with its repair rounds, the search that    *)
(* widens the ceiling again, the soft targets, the consolidation of paths, *)
(* and the verdict.                                                        *)
(*                                                                         *)
(* One action is one iteration of one loop of the code, so the loads that  *)
(* a later iteration reads are the ones the earlier ones left.  A problem  *)
(* is what make_problem makes of a derivation; identities are numbers in   *)
(* canonical order.                                                        *)
(*                                                                         *)
(* certify is its min cut: a cut of the relaxed network keeps some demands *)
(* on the source side, and then every resource of their eligible paths.    *)
(* The iteration bound inside max_flow is not modelled; the bounds on nodes *)
(* and edges have the same effect, a certificate that is not built.        *)
(* Scores, notes and rejected alternatives are output and are left out.    *)
(***************************************************************************)
EXTENDS Derivation

CONSTANTS
    Problems,
    MaxProbes,              \* Limits::max_max_utilization_probes
    MaxCertificateNodes,    \* Limits::max_certificate_nodes
    MaxCertificateEdges     \* Limits::max_certificate_edges

ASSUME ProblemsAssumption == \A p \in Problems : IsProblem(p)
ASSUME LimitsAssumption ==
    MaxProbes \in Nat /\ MaxCertificateNodes \in Nat /\ MaxCertificateEdges \in Nat

VARIABLES
    problem,        \* the input
    pc, phase,      \* the loop solve is in, and the phase it belongs to
    search,         \* low, high, best and probes of either search
    ceiling,        \* Problem::ceiling_permille
    run,            \* which run_minimums: the first, a trial, the final one
    queue, who,     \* demands the phase has still to visit; the one it is at
    preferred,      \* order_paths of who
    todo, need,     \* paths left to a loop over paths; bandwidth still to place
    rounds, hops, progressed, iterations,
    movers, deficit, moving,        \* repair_resource and consolidate_paths
    shares, granted, allocated,     \* DemandState and ResourceState
    status                          \* SolveOutcome::status

ceilings == <<search, ceiling, run>>
visiting == <<phase, queue, who>>
placing == <<preferred, todo, need>>
repairing == <<rounds, hops, progressed, movers, deficit>>
load == <<shares, granted, allocated>>
vars == <<problem, pc, ceilings, visiting, placing, repairing, iterations, moving, load, status>>

Nobody == 0
NoMove == [moved |-> 0]
Smaller(a, b) == IF a <= b THEN a ELSE b
Larger(a, b) == IF a >= b THEN a ELSE b
Elements(q) == {q[i] : i \in DOMAIN q}
Has(term) == term \in problem.terms

(***************************************************************************)
(* Resources and placement                                                 *)
(***************************************************************************)
recompute_ceiling(r, permille) ==
    LET cap == (problem.usable[r] * permille) \div 1000
    IN  Smaller(problem.available[r], Larger(0, cap - problem.claimed[r]))

\* Mutant: one resource of the path is enough.
FitsSomewhere(p, amount) ==
    \/ amount = 0
    \/ \E r \in problem.through[p] : allocated[r] + amount <= recompute_ceiling(r, ceiling)
\* path_headroom is the largest amount that fits.
Fits(p, amount) ==
    \/ amount = 0
    \/ \A r \in problem.through[p] : allocated[r] + amount <= recompute_ceiling(r, ceiling)
Takes(p, wanted) ==
    {take \in 0 .. wanted : Fits(p, take) /\ (take < wanted => ~Fits(p, take + 1))}

grant(d, p, amount) ==
    /\ shares' = [shares EXCEPT ![d][p] = @ + amount]
    /\ granted' = [granted EXCEPT ![d] = @ + amount]
    /\ allocated' = [r \in problem.resources |->
                        IF r \in problem.through[p] THEN allocated[r] + amount ELSE allocated[r]]

revoke(d, p, amount) ==
    LET taken == Smaller(amount, shares[d][p])
    IN  /\ shares' = [shares EXCEPT ![d][p] = @ - taken]
        /\ granted' = [granted EXCEPT ![d] = Larger(0, @ - taken)]
        /\ allocated' = [r \in problem.resources |->
                            IF r \in problem.through[p]
                            THEN Larger(0, allocated[r] - taken) ELSE allocated[r]]

(***************************************************************************)
(* Orders                                                                  *)
(***************************************************************************)
Active == {d \in problem.demands : problem.active[d]}
Excluded(d) == problem.excluded[d]
Target(d) == Smaller(problem.desired[d], problem.maximum[d])

\* canonical_processing_order
Precedes(d, e) ==
    \/ problem.priority[d] > problem.priority[e]
    \/ problem.priority[d] = problem.priority[e] /\ d < e

\* With fairness_across_groups: one demand of each tenant per round.
Round(d) == Cardinality({e \in Active : problem.tenant[e] = problem.tenant[d] /\ Precedes(e, d)})
FilledBefore(d, e) ==
    IF Has("fairness_across_groups")
    THEN \/ Round(d) < Round(e)
         \/ Round(d) = Round(e) /\ problem.tenant[d] < problem.tenant[e]
    ELSE Precedes(d, e)

IsNext(d) ==
    /\ d \in queue
    /\ \A e \in queue \ {d} : IF phase = "fill" THEN FilledBefore(d, e) ELSE Precedes(d, e)

Pairs == problem.demands \X problem.paths
ShareOf == [pair \in Pairs |-> shares[pair[1]][pair[2]]]
failure_domain_load(f) ==
    SumOver(ShareOf, {pair \in Pairs : f \in problem.failure_domains[pair[2]]})
domain_score(p) ==
    SumOver([f \in problem.failure_domains[p] |-> failure_domain_load(f)], problem.failure_domains[p])

Prefers(d, p, q) ==
    LET used(x) == Has("minimize_churn") /\ x \in problem.incumbent[d]
        score(x) == IF Has("minimize_failure_domain_concentration") THEN domain_score(x) ELSE 0
    IN  \/ used(p) /\ ~used(q)
        \/ /\ used(p) = used(q)
           /\ \/ score(p) < score(q)
              \/ score(p) = score(q) /\ <<p, q>> \in problem.less

\* The eligible paths of d in the order of preference: one sequence, as the
\* preference is a strict total order.
order_paths(d) ==
    {q \in [DOMAIN problem.eligible[d] -> Elements(problem.eligible[d])] :
        \A i, j \in DOMAIN q : i < j => Prefers(d, q[i], q[j])}

(***************************************************************************)
(* certify                                                                 *)
(***************************************************************************)
Floored == {d \in Active : problem.floor[d] > 0}
Starved == {d \in Floored : problem.eligible[d] = <<>>}
Carried == Floored \ Starved
UsedPaths(ds) == UNION {Elements(problem.eligible[d]) : d \in ds}
UsedResources(ds) == UNION {problem.through[p] : p \in UsedPaths(ds)}

WithinLimits ==
    /\ 2 + Cardinality(Carried) + Cardinality(UsedPaths(Carried)) + Cardinality(problem.resources)
            <= MaxCertificateNodes
    /\ MapThenSumSet(LAMBDA d : 1 + Len(problem.eligible[d]), Carried)
            + MapThenSumSet(LAMBDA p : Cardinality(problem.through[p]), UsedPaths(Carried))
            <= MaxCertificateEdges
Built == Carried = {} \/ WithinLimits

\* Mutant: what is placed already is taken off the resources once more.
CutResidual(ds, permille) ==
    SumOver(problem.floor, Carried \ ds)
    + SumOver([r \in problem.resources |-> recompute_ceiling(r, permille) - allocated[r]],
              UsedResources(ds))
Cut(ds, permille) ==
    SumOver(problem.floor, Carried \ ds)
    + SumOver([r \in problem.resources |-> recompute_ceiling(r, permille)], UsedResources(ds))
\* The maximum flow, the least cut, carries what is required; the floors of
\* demands without a path are required too.
RelaxedFeasible(permille) ==
    /\ Starved = {}
    /\ \A ds \in SUBSET Carried : SumOver(problem.floor, Carried) <= Cut(ds, permille)

(***************************************************************************)
(* The start, and the search for the tightest ceiling                      *)
(***************************************************************************)
\* A fresh Problem under a ceiling, and run_minimums on it.
RunMinimums(permille, which) ==
    /\ ceiling' = permille /\ run' = which
    /\ phase' = "minimum" /\ pc' = "visit"
    /\ queue' = Active /\ who' = Nobody
    /\ shares' = [d \in problem.demands |-> [p \in problem.paths |-> 0]]
    /\ granted' = [d \in problem.demands |-> 0]
    /\ allocated' = [r \in problem.resources |-> 0]

Return(verdict) == pc' = "done" /\ status' = verdict

Begin ==
    /\ pc = "begin"
    /\ \/ /\ problem.negative_weight
          /\ Return("unsupported_objective")
          /\ UNCHANGED <<ceilings, visiting, load>>
       \/ /\ ~problem.negative_weight
          /\ ~problem.reservation_conflict /\ Has("minimize_max_utilization")
          /\ pc' = "search"
          /\ search' = [low |-> 1, high |-> problem.policy_ceiling, best |-> 0, probes |-> 0]
          /\ UNCHANGED <<ceiling, run, visiting, load, status>>
       \/ /\ ~problem.negative_weight
          /\ problem.reservation_conflict \/ ~Has("minimize_max_utilization")
          /\ RunMinimums(problem.policy_ceiling, "first")
          /\ UNCHANGED <<search, status>>
    /\ UNCHANGED <<problem, placing, repairing, iterations, moving>>

Middle == search.low + (search.high - search.low) \div 2
\* Mutant: an interval of one value is not searched.
SearchingOpen == search.low < search.high /\ search.probes < MaxProbes
Searching == search.low <= search.high /\ search.probes < MaxProbes
\* The interval after a probe of its middle.  The early breaks of both loops
\* leave an interval that is empty anyway.
Probed(success) ==
    IF success
    THEN [search EXCEPT !.best = Middle, !.high = Middle - 1, !.probes = @ + 1]
    ELSE [search EXCEPT !.low = Middle + 1, !.probes = @ + 1]

SearchProbe ==
    /\ pc = "search" /\ Searching /\ Built
    /\ search' = Probed(RelaxedFeasible(Middle))
    /\ UNCHANGED <<problem, pc, ceiling, run, visiting, placing, repairing, iterations, moving,
                   load, status>>

CapIsTheCause == problem.policy_ceiling < 1000 /\ Built /\ RelaxedFeasible(1000)

SearchEnd ==
    /\ pc = "search" /\ ~(Searching /\ Built)
    /\ \/ /\ search.best = 0
          /\ Return(IF CapIsTheCause /\ ~RelaxedFeasible(problem.policy_ceiling)
                    THEN "infeasible_policy" ELSE "infeasible_capacity")
          /\ UNCHANGED <<ceiling, run, visiting, load>>
       \/ /\ search.best # 0
          /\ RunMinimums(search.best, "first")
          /\ UNCHANGED status
    /\ UNCHANGED <<problem, search, placing, repairing, iterations, moving>>

(***************************************************************************)
(* run_minimums                                                            *)
(***************************************************************************)
\* Mutant: the last path is left out.
PlacingShort(d, order, wanted) ==
    /\ pc' = "place"
    /\ todo' = SubSeq(order, 1, Len(order) - 1)
    /\ need' = Smaller(wanted, Larger(0, problem.maximum[d] - granted[d]))
\* place: no more than the maximum allows, path by path.
Placing(d, order, wanted) ==
    /\ pc' = "place"
    /\ todo' = order
    /\ need' = Smaller(wanted, Larger(0, problem.maximum[d] - granted[d]))

VisitMinimum ==
    /\ phase = "minimum" /\ pc = "visit"
    /\ \E d \in queue :
        /\ IsNext(d)
        /\ queue' = queue \ {d}
        /\ \/ /\ Excluded(d)
              /\ UNCHANGED <<pc, who, placing, rounds>>
           \/ /\ ~Excluded(d)
              /\ who' = d /\ rounds' = 0
              /\ \E q \in order_paths(d) : preferred' = q /\ Placing(d, q, problem.floor[d])
    /\ UNCHANGED <<problem, ceilings, phase, hops, progressed, movers, deficit, iterations,
                   moving, load, status>>

PlaceOn ==
    /\ pc = "place" /\ todo # <<>> /\ need > 0
    /\ \E take \in Takes(Head(todo), need) :
        /\ grant(who, Head(todo), take)
        /\ need' = need - take
    /\ todo' = Tail(todo)
    /\ UNCHANGED <<problem, pc, ceilings, visiting, preferred, repairing, iterations, moving,
                   status>>

PlaceEnd ==
    /\ pc = "place" /\ (todo = <<>> \/ need = 0)
    /\ pc' = IF phase = "minimum" THEN "repair" ELSE "visit"
    /\ UNCHANGED <<problem, ceilings, visiting, placing, repairing, iterations, moving, load,
                   status>>

Short(d) == granted[d] < problem.floor[d]
MayRepair == Short(who) /\ rounds < 4 /\ iterations <= problem.max_iterations

\* Mutant: rounds are not counted.
RepairRoundUncounted ==
    /\ pc = "repair" /\ MayRepair
    /\ rounds' = rounds
    /\ need' = problem.floor[who] - granted[who]
    /\ progressed' = FALSE
    /\ todo' = preferred
    /\ hops' = IF preferred = <<>> THEN {} ELSE problem.through[Head(preferred)]
    /\ pc' = "scan"
    /\ UNCHANGED <<problem, ceilings, visiting, preferred, movers, deficit, iterations, moving,
                   load, status>>
\* A round of repair scans the preferred paths for a resource to relieve.
RepairRound ==
    /\ pc = "repair" /\ MayRepair
    /\ rounds' = rounds + 1
    /\ need' = problem.floor[who] - granted[who]
    /\ progressed' = FALSE
    /\ todo' = preferred
    /\ hops' = IF preferred = <<>> THEN {} ELSE problem.through[Head(preferred)]
    /\ pc' = "scan"
    /\ UNCHANGED <<problem, ceilings, visiting, preferred, movers, deficit, iterations, moving,
                   load, status>>

RepairEnd ==
    /\ pc = "repair" /\ ~MayRepair
    /\ pc' = "visit"
    /\ UNCHANGED <<problem, ceilings, visiting, placing, repairing, iterations, moving, load,
                   status>>

Hop == CHOOSE r \in hops : \A q \in hops : r <= q
Headroom(r) == recompute_ceiling(r, ceiling) - allocated[r]

\* The shares of other demands on a resource, as they are when the repair of
\* that resource begins.
MoversOn(r) ==
    {[demand |-> pair[1], path |-> pair[2], granted |-> shares[pair[1]][pair[2]]] :
        pair \in {x \in (problem.demands \ {who}) \X problem.paths :
                    shares[x[1]][x[2]] > 0 /\ r \in problem.through[x[2]]}}
MovesBefore(m, n) ==
    \/ problem.priority[m.demand] < problem.priority[n.demand]
    \/ /\ problem.priority[m.demand] = problem.priority[n.demand]
       /\ m.demand < n.demand \/ (m.demand = n.demand /\ m.path < n.path)

\* The next resource of the path: it has room, or it is relieved.
ScanHop ==
    /\ pc = "scan" /\ hops # {}
    /\ \/ /\ Headroom(Hop) >= need
          /\ progressed' = TRUE /\ hops' = {}
          /\ UNCHANGED <<pc, movers, deficit>>
       \/ /\ Headroom(Hop) < need
          /\ movers' = MoversOn(Hop)
          /\ deficit' = need - Headroom(Hop)
          /\ pc' = "movers"
          /\ UNCHANGED <<hops, progressed>>
    /\ UNCHANGED <<problem, ceilings, visiting, placing, rounds, iterations, moving, load,
                   status>>

\* At the end of a path: place again if something gave way, else the next
\* path, else give the demand up.
ScanPath ==
    /\ pc = "scan" /\ hops = {}
    /\ \/ /\ progressed
          /\ Placing(who, preferred, problem.floor[who] - granted[who])
          /\ UNCHANGED hops
       \/ /\ ~progressed /\ Len(todo) > 1
          /\ todo' = Tail(todo)
          /\ hops' = problem.through[Head(Tail(todo))]
          /\ UNCHANGED <<pc, need>>
       \/ /\ ~progressed /\ Len(todo) <= 1
          /\ pc' = "visit"
          /\ UNCHANGED <<todo, need, hops>>
    /\ UNCHANGED <<problem, ceilings, visiting, preferred, rounds, progressed, movers, deficit,
                   iterations, moving, load, status>>

(***************************************************************************)
(* Moving bandwidth: repair_resource and consolidate_paths                 *)
(***************************************************************************)
Wanted(m) == Smaller(deficit, m.granted)
NextMover ==
    /\ pc = "movers" /\ deficit > 0 /\ iterations <= problem.max_iterations
    /\ \E m \in movers :
        /\ \A n \in movers \ {m} : MovesBefore(m, n)
        /\ movers' = movers \ {m}
        /\ moving' = [demand |-> m.demand, from |-> m.path, targets |-> problem.eligible[m.demand],
                      wanted |-> Wanted(m), moved |-> 0]
    /\ pc' = "move"
    /\ UNCHANGED <<problem, ceilings, visiting, placing, rounds, hops, progressed, deficit,
                   iterations, load, status>>

MoversEnd ==
    /\ pc = "movers"
    /\ movers = {} \/ deficit <= 0 \/ iterations > problem.max_iterations
    /\ progressed' = (progressed \/ deficit <= 0)
    /\ hops' = hops \ {Hop}
    /\ pc' = "scan"
    /\ UNCHANGED <<problem, ceilings, visiting, placing, rounds, movers, deficit, iterations,
                   moving, load, status>>

\* A repair moves off the resource, onto paths that avoid it; a consolidation
\* onto paths that are preferred to the one it moves from.
Onto == Head(moving.targets)
MoreTargets ==
    /\ moving.moved < moving.wanted /\ moving.targets # <<>>
    /\ phase = "consolidate" => Onto # moving.from
Avoids == phase = "minimum" => (Onto # moving.from /\ Hop \notin problem.through[Onto])

MoveSkip ==
    /\ pc = "move" /\ MoreTargets /\ ~Avoids
    /\ moving' = [moving EXCEPT !.targets = Tail(@)]
    /\ UNCHANGED <<problem, pc, ceilings, visiting, placing, repairing, iterations, load, status>>

\* Granted on the new path before it is revoked on the old one.
MoveOnto ==
    /\ pc = "move" /\ MoreTargets /\ Avoids
    /\ iterations' = IF phase = "minimum" THEN iterations + 1 ELSE iterations
    /\ \E take \in Takes(Onto, moving.wanted - moving.moved) :
        /\ grant(moving.demand, Onto, take)
        /\ moving' = [moving EXCEPT !.targets = Tail(@), !.moved = @ + take]
    /\ UNCHANGED <<problem, pc, ceilings, visiting, placing, repairing, status>>

\* Mutant: what was wanted is revoked, not what found a place.
MoveEndWanted ==
    /\ pc = "move" /\ ~MoreTargets
    /\ revoke(moving.demand, moving.from, moving.wanted)
    /\ deficit' = IF phase = "minimum" THEN deficit - moving.moved ELSE deficit
    /\ moving' = NoMove
    /\ pc' = IF phase = "minimum" THEN "movers" ELSE "sources"
    /\ UNCHANGED <<problem, ceilings, visiting, placing, rounds, hops, progressed, movers,
                   iterations, status>>
MoveEnd ==
    /\ pc = "move" /\ ~MoreTargets
    /\ revoke(moving.demand, moving.from, moving.moved)
    /\ deficit' = IF phase = "minimum" THEN deficit - moving.moved ELSE deficit
    /\ moving' = NoMove
    /\ pc' = IF phase = "minimum" THEN "movers" ELSE "sources"
    /\ UNCHANGED <<problem, ceilings, visiting, placing, rounds, hops, progressed, movers,
                   iterations, status>>

(***************************************************************************)
(* The end of run_minimums, and the search that widens the ceiling         *)
(***************************************************************************)
Unmet == {d \in Active : ~Excluded(d) /\ Short(d)}

Phase(name) ==
    /\ phase' = name /\ pc' = "visit"
    /\ queue' = Active /\ who' = Nobody

MinimumsEnd ==
    /\ phase = "minimum" /\ pc = "visit" /\ queue = {}
    /\ \/ /\ run = "first"
          /\ Unmet # {} /\ Has("minimize_max_utilization") /\ ceiling < problem.policy_ceiling
          /\ search' = [low |-> ceiling + 1, high |-> problem.policy_ceiling, best |-> 0, probes |-> 0]
          /\ pc' = "widen"
          /\ UNCHANGED <<visiting>>
       \/ /\ run = "trial"
          /\ search' = Probed(Unmet = {})
          /\ pc' = "widen"
          /\ UNCHANGED <<visiting>>
       \/ /\ \/ run = "final"
             \/ run = "first" /\ ~(/\ Unmet # {} /\ Has("minimize_max_utilization")
                                   /\ ceiling < problem.policy_ceiling)
          /\ Phase("fill")
          /\ UNCHANGED search
    /\ UNCHANGED <<problem, ceiling, run, placing, repairing, iterations, moving, load, status>>

\* Mutant: the upper end the search left.
ChosenHigh == IF search.best = 0 THEN problem.policy_ceiling ELSE search.high
Chosen == IF search.best = 0 THEN problem.policy_ceiling ELSE search.best

\* iterations is not reset: the trials and the final run share one budget.
Widen ==
    /\ pc = "widen"
    /\ \/ Searching /\ RunMinimums(Middle, "trial")
       \/ ~Searching /\ RunMinimums(Chosen, "final")
    /\ UNCHANGED <<problem, search, placing, repairing, iterations, moving, status>>

(***************************************************************************)
(* Soft targets, consolidation                                             *)
(***************************************************************************)
VisitFill ==
    /\ phase = "fill" /\ pc = "visit"
    /\ \E d \in queue :
        /\ IsNext(d)
        /\ queue' = queue \ {d}
        /\ \/ /\ Excluded(d) \/ granted[d] >= Target(d)
              /\ UNCHANGED <<pc, who, placing>>
           \/ /\ ~Excluded(d) /\ granted[d] < Target(d)
              /\ who' = d
              /\ \E q \in order_paths(d) :
                    preferred' = q /\ Placing(d, q, Target(d) - granted[d])
    /\ UNCHANGED <<problem, ceilings, phase, repairing, iterations, moving, load, status>>

FillEnd ==
    /\ phase = "fill" /\ pc = "visit" /\ queue = {}
    /\ \/ Has("minimize_path_count") /\ Phase("consolidate")
       \/ ~Has("minimize_path_count") /\ pc' = "conclude" /\ UNCHANGED <<visiting>>
    /\ UNCHANGED <<problem, ceilings, placing, repairing, iterations, moving, load, status>>

VisitConsolidate ==
    /\ phase = "consolidate" /\ pc = "visit"
    /\ \E d \in queue :
        /\ IsNext(d)
        /\ queue' = queue \ {d}
        /\ \E q \in order_paths(d) :
            IF ~Excluded(d) /\ Cardinality({p \in problem.paths : shares[d][p] > 0}) >= 2
            THEN who' = d /\ preferred' = q /\ todo' = q /\ pc' = "sources"
            ELSE UNCHANGED <<pc, who, preferred, todo>>
    /\ UNCHANGED <<problem, ceilings, phase, need, repairing, iterations, moving, load, status>>

\* The least preferred path first.
ConsolidateFrom ==
    /\ pc = "sources" /\ todo # <<>>
    /\ LET from == todo[Len(todo)]
       IN  IF shares[who][from] > 0
           THEN /\ moving' = [demand |-> who, from |-> from, targets |-> preferred,
                              wanted |-> shares[who][from], moved |-> 0]
                /\ pc' = "move"
           ELSE UNCHANGED <<pc, moving>>
    /\ todo' = SubSeq(todo, 1, Len(todo) - 1)
    /\ UNCHANGED <<problem, ceilings, visiting, preferred, need, repairing, iterations, load,
                   status>>

ConsolidateEnd ==
    /\ \/ pc = "sources" /\ todo = <<>> /\ pc' = "visit"
       \/ phase = "consolidate" /\ pc = "visit" /\ queue = {} /\ pc' = "conclude"
    /\ UNCHANGED <<problem, ceilings, visiting, placing, repairing, iterations, moving, load,
                   status>>

(***************************************************************************)
(* The verdict                                                             *)
(***************************************************************************)
PolicyBlocked == \E d \in Active : Excluded(d) /\ problem.floor[d] > 0
\* Mutant: the floors of excluded demands do not count.
FloorsMetAdmitted == Unmet = {}
FloorsMet == Unmet = {} /\ ~PolicyBlocked

Verdict ==
    CASE problem.reservation_conflict -> "infeasible_reservation_conflict"
      [] ~problem.reservation_conflict /\ FloorsMet -> "feasible"
      [] OTHER ->
         IF PolicyBlocked THEN "infeasible_policy"
         ELSE IF Built /\ ~RelaxedFeasible(problem.policy_ceiling)
              THEN IF Starved # {} THEN "infeasible_path_set"
                   ELSE IF CapIsTheCause THEN "infeasible_policy" ELSE "infeasible_capacity"
              ELSE IF problem.allow_degraded /\ ~problem.require_minimums
                   THEN "feasible_degraded" ELSE "solver_limit_reached"
Degraded == Verdict \notin {"infeasible_reservation_conflict", "feasible"}

Total(d) == SumOver(shares[d], problem.paths)
Through(r) == SumOver(ShareOf, {pair \in Pairs : r \in problem.through[pair[2]]})

verify_allocation ==
    /\ \A d \in problem.demands :
        /\ \A p \in problem.paths : shares[d][p] > 0 => p \in Elements(problem.eligible[d]) /\ problem.authorized[p]
        /\ Total(d) = granted[d]
        /\ granted[d] <= problem.maximum[d]
        /\ (problem.active[d] /\ ~Degraded) => granted[d] >= problem.floor[d]
    /\ \A r \in problem.resources : Through(r) <= problem.available[r]

Conclude ==
    /\ pc = "conclude"
    /\ Return(IF verify_allocation THEN Verdict ELSE "conflicting_input")
    /\ UNCHANGED <<problem, ceilings, visiting, placing, repairing, iterations, moving, load>>

Init ==
    /\ problem \in Problems
    /\ pc = "begin" /\ phase = "begin"
    /\ search = [low |-> 1, high |-> 0, best |-> 0, probes |-> 0]
    /\ ceiling = problem.policy_ceiling /\ run = "first"
    /\ queue = {} /\ who = Nobody
    /\ preferred = <<>> /\ todo = <<>> /\ need = 0
    /\ rounds = 0 /\ hops = {} /\ progressed = FALSE /\ iterations = 0
    /\ movers = {} /\ deficit = 0 /\ moving = NoMove
    /\ shares = [d \in problem.demands |-> [p \in problem.paths |-> 0]]
    /\ granted = [d \in problem.demands |-> 0]
    /\ allocated = [r \in problem.resources |-> 0]
    /\ status = "none"

Next ==
    \/ Begin \/ SearchProbe \/ SearchEnd
    \/ VisitMinimum \/ PlaceOn \/ PlaceEnd
    \/ RepairRound \/ RepairEnd \/ ScanHop \/ ScanPath
    \/ NextMover \/ MoversEnd \/ MoveSkip \/ MoveOnto \/ MoveEnd
    \/ MinimumsEnd \/ Widen
    \/ VisitFill \/ FillEnd
    \/ VisitConsolidate \/ ConsolidateFrom \/ ConsolidateEnd
    \/ Conclude

Spec == Init /\ [][Next]_vars
FairSpec == Spec /\ WF_vars(Next)

(***************************************************************************)
(* Properties                                                              *)
(***************************************************************************)
\* What a demand holds, without what a move has granted twice for the moment.
Net(d) ==
    IF pc = "move" /\ moving.demand = d THEN granted[d] - moving.moved ELSE granted[d]

\* No step of placement, repair or consolidation loads a resource beyond its
\* ceiling or grants a demand more than its maximum, and the running totals those
\* steps decide by are the sums of the shares they stand for.
HardBounds ==
    /\ \A r \in problem.resources :
        allocated[r] = Through(r) /\ allocated[r] <= recompute_ceiling(r, ceiling)
    /\ \A d \in problem.demands :
        granted[d] = Total(d) /\ Net(d) <= problem.maximum[d]

\* A repair or a consolidation takes nothing away from the demand it moves: in
\* one construction no demand's bandwidth ever falls.
NoDemandLoses ==
    [][RunMinimums(ceiling', run') \/ \A d \in problem.demands : Net(d)' >= Net(d)]_vars

\* Once the soft targets have been filled for a demand, it has its target or
\* none of its paths has room left.
NothingWasted ==
    phase = "fill" =>
        \A d \in Active \ (queue \cup IF pc = "place" THEN {who} ELSE {}) :
            \/ Excluded(d) \/ granted[d] >= Target(d)
            \/ \A p \in Elements(problem.eligible[d]) : ~Fits(p, 1)

\* The ceiling the first search settles on admits the floors in the
\* relaxation, and the next tighter one does not.
TightestCeiling ==
    (phase = "minimum" /\ run = "first" /\ queue = Active
        /\ ~problem.reservation_conflict /\ Has("minimize_max_utilization")) =>
        /\ RelaxedFeasible(ceiling)
        /\ ceiling = 1 \/ ~RelaxedFeasible(ceiling - 1)

\* The final run at the ceiling a trial succeeded with succeeds too.
FinalRepeatsTrial ==
    (phase = "fill" /\ run = "final" /\ search.best # 0) => Unmet = {}

\* The verifier reads the snapshot anew.  A plan it lets through is legal: on
\* eligible paths, within the policy's utilisation cap on every resource, between
\* floor and maximum for every demand the policy admits, or declared degraded and
\* still within the bounds.  And it finds no fault in what the solver built, unless
\* reservations alone exceed a resource or a path is not authorized any more, which
\* only the verifier looks at.
IsLegal ==
    /\ \A r \in problem.resources : Through(r) <= recompute_ceiling(r, problem.policy_ceiling)
    /\ \A d \in problem.demands :
        /\ \A p \in problem.paths : shares[d][p] > 0 => p \in Elements(problem.eligible[d])
        /\ Total(d) <= problem.maximum[d]
        /\ Total(d) > 0 => problem.active[d] /\ ~problem.excluded[d]
        /\ (problem.active[d] /\ status = "feasible") => Total(d) >= problem.floor[d]
VerifierAgrees ==
    /\ status \in {"feasible", "feasible_degraded"} => IsLegal
    /\ status = "conflicting_input" =>
        \/ problem.reservation_conflict
        \/ \E d \in problem.demands, p \in problem.paths :
              shares[d][p] > 0 /\ ~problem.authorized[p]

\* Reference: an assignment of every active demand's floor to its eligible
\* paths that respects every resource's ceiling.
Splits(d) ==
    {f \in [Elements(problem.eligible[d]) -> 0 .. problem.floor[d]] :
        /\ SumOver(f, Elements(problem.eligible[d])) = problem.floor[d]
        /\ problem.floor[d] <= problem.maximum[d]}
Carriable(permille) ==
    \E f \in [Active -> UNION {Splits(d) : d \in Active}] :
        /\ \A d \in Active : f[d] \in Splits(d)
        /\ \A r \in problem.resources :
            LET crossing == {pair \in Active \X problem.paths :
                                pair[2] \in DOMAIN f[pair[1]] /\ r \in problem.through[pair[2]]}
            IN  SumOver([pair \in crossing |-> f[pair[1]][pair[2]]], crossing)
                    <= recompute_ceiling(r, permille)

\* "A minimum cut proves the declared hard minimums cannot all be carried": no
\* assignment of the floors exists.
CapacityVerdictSound == status = "infeasible_capacity" => ~Carriable(problem.policy_ceiling)

\* solve returns.
Terminates == <>(pc = "done")

(***************************************************************************)
(* What the documentation says and the code does not do                    *)
(***************************************************************************)
\* Repair relocates the bandwidth of lower-priority demands.
RepairMovesLower ==
    (phase = "minimum" /\ pc = "move") =>
        problem.priority[moving.demand] < problem.priority[who]

\* A round of repair that reports progress has freed room on some path.
RepairFreesRoom ==
    (pc = "scan" /\ hops = {} /\ progressed) =>
        \E p \in Elements(preferred) : Fits(p, 1)

\* Reservations that exceed a resource are reported as that.
ReservationConflictReported ==
    (pc = "done" /\ problem.reservation_conflict /\ ~problem.negative_weight) =>
        status = "infeasible_reservation_conflict"

\* A floor above the demand's own maximum is reported as a reservation conflict.
FloorAboveMaximumReported ==
    (/\ pc = "done" /\ ~problem.negative_weight
     /\ \E d \in Active : ~Excluded(d) /\ problem.floor[d] > problem.maximum[d]) =>
        status = "infeasible_reservation_conflict"

\* INFEASIBLE_POLICY: the floors could be carried without the policy.
PolicyVerdictSound == status = "infeasible_policy" => Carriable(1000)

\* A reservation that may not be displaced is held by someone in a plan that
\* is offered: a resource, or a demand that is granted at least as much.
ReservationsHeld ==
    status = "feasible" =>
        \A v \in DOMAIN problem.reservations : LET a == problem.reservations[v] IN
            (a.active /\ ~a.displaceable /\ a.charged_to # Nobody) =>
                granted[a.charged_to] >= a.bandwidth

\* Failure-domain diversity is a hard constraint.
DiversityKept ==
    status = "feasible" =>
        \A d \in Active : granted[d] > 0 =>
            Cardinality(UNION {problem.failure_domains[p] :
                                p \in {q \in problem.paths : shares[d][q] > 0}})
                >= problem.min_distinct[d]
=============================================================================
