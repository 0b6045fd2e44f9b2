----------------------------- MODULE SolverProofs -----------------------------
(***************************************************************************)
(* Proofs about Solver, for every problem: any number of demands, paths    *)
(* and resources, any capacities, floors and objectives.                   *)
(***************************************************************************)
EXTENDS Solver, DataInduction, SequenceTheorems

(***************************************************************************)
(* The inductive invariant                                                 *)
(***************************************************************************)
\* The demands the construction works for.
Served == {d \in Active : ~Excluded(d)}
EligibleFor(d) == Elements(problem.eligible[d])

TypeOK ==
    /\ problem \in Problems
    /\ shares \in [problem.demands -> [problem.paths -> Nat]]
    /\ granted \in [problem.demands -> Nat]
    /\ allocated \in [problem.resources -> Nat]
LoopTypes ==
    /\ preferred \in Seq(problem.paths) /\ todo \in Seq(problem.paths)
    /\ need \in Int /\ deficit \in Int
    /\ queue \subseteq Active /\ hops \subseteq problem.resources

\* Both searches stay between 1 and the policy's ceiling.
SearchOK ==
    /\ search.low \in Nat \ {0} /\ search.high \in 0 .. problem.policy_ceiling
    /\ search.best \in 0 .. problem.policy_ceiling /\ search.probes \in Nat
    /\ search = [low |-> search.low, high |-> search.high, best |-> search.best,
                 probes |-> search.probes]
    /\ ceiling \in 1 .. problem.policy_ceiling
    /\ (run = "trial" /\ pc \notin {"widen", "search", "done"}) => search.low <= search.high

\* The totals are the sums of the shares, and no resource is above its ceiling.
SumsOK ==
    /\ \A r \in problem.resources :
          allocated[r] = Through(r) /\ allocated[r] <= recompute_ceiling(r, ceiling)
    /\ \A d \in problem.demands : granted[d] = Total(d)

\* Only eligible paths carry anything, and only for demands that are served.
EligibleOK ==
    \A d \in problem.demands : \A p \in problem.paths :
        shares[d][p] > 0 => d \in Served /\ p \in EligibleFor(d)

\* The loops are about a demand that is served and its eligible paths.
Busy == pc \in {"place", "repair", "scan", "movers", "move", "sources"}
LoopsOK ==
    /\ (pc \in {"place", "sources"} \/ (pc = "move" /\ phase = "consolidate")) =>
          Elements(todo) \subseteq EligibleFor(who)
    /\ Busy => who \in Served /\ Elements(preferred) \subseteq EligibleFor(who)
    /\ pc \in {"repair", "scan", "movers"} => phase = "minimum"
    /\ pc = "sources" => phase = "consolidate"
    /\ pc = "place" => phase \in {"minimum", "fill"}
    /\ pc = "move" => phase \in {"minimum", "consolidate"}

\* Bandwidth to move is still where it was found, and what has found a new
\* place is part of it.
MoverOK(m) ==
    /\ m.demand \in Served /\ m.path \in problem.paths
    /\ m.granted \in Nat /\ m.granted <= shares[m.demand][m.path]
MovesOK ==
    /\ (pc = "movers" \/ (pc = "move" /\ phase = "minimum")) =>
          /\ \A m \in movers : MoverOK(m)
          /\ \A m, n \in movers : m.demand = n.demand /\ m.path = n.path => m = n
    /\ pc = "move" =>
          /\ moving = [demand |-> moving.demand, from |-> moving.from, targets |-> moving.targets,
                       wanted |-> moving.wanted, moved |-> moving.moved]
          /\ moving.demand \in Served /\ moving.from \in problem.paths
          /\ moving.targets \in Seq(problem.paths)
          /\ Elements(moving.targets) \subseteq EligibleFor(moving.demand)
          /\ moving.wanted \in Nat /\ moving.moved \in Nat
          /\ moving.moved <= moving.wanted
          /\ moving.wanted <= shares[moving.demand][moving.from]
          /\ phase = "minimum" =>
                \A m \in movers : ~(m.demand = moving.demand /\ m.path = moving.from)

\* No demand is above its maximum, nor will it be when what is needed is placed.
BoundsOK ==
    /\ \A d \in problem.demands : Net(d) <= problem.maximum[d]
    /\ pc = "place" => need <= problem.maximum[who] - granted[who]

Inv == TypeOK /\ LoopTypes /\ SearchOK /\ SumsOK /\ EligibleOK /\ LoopsOK /\ MovesOK /\ BoundsOK

(***************************************************************************)
(* Problems and ceilings                                                   *)
(***************************************************************************)
LEMMA ProblemFacts ==
    ASSUME problem \in Problems
    PROVE  /\ problem.demands \subseteq Nat \ {0} /\ problem.resources \subseteq Nat
           /\ IsFiniteSet(problem.demands) /\ IsFiniteSet(problem.paths)
           /\ IsFiniteSet(problem.resources)
           /\ problem.usable \in [problem.resources -> Nat]
           /\ problem.claimed \in [problem.resources -> Nat]
           /\ problem.available \in [problem.resources -> Nat]
           /\ problem.floor \in [problem.demands -> Nat]
           /\ problem.desired \in [problem.demands -> Nat]
           /\ problem.maximum \in [problem.demands -> Nat]
           /\ problem.eligible \in [problem.demands -> Seq(problem.paths)]
           /\ problem.through \in [problem.paths -> SUBSET problem.resources]
           /\ problem.policy_ceiling \in 1 .. 1000
<1>1. IsProblem(problem)
  BY ProblemsAssumption
<1>2. QED
  BY <1>1 DEF IsProblem

\* A ceiling is what is available at most, and grows with the permille.
LEMMA CeilingFacts ==
    ASSUME problem \in Problems, NEW r \in problem.resources, NEW low \in Nat, NEW high \in Nat,
           low <= high
    PROVE  /\ recompute_ceiling(r, low) \in Nat
           /\ recompute_ceiling(r, low) <= problem.available[r]
           /\ recompute_ceiling(r, low) <= recompute_ceiling(r, high)
<1> DEFINE u == problem.usable[r]
           a == problem.available[r]
           c == problem.claimed[r]
           x == u * low
           y == u * high
<1>1. u \in Nat /\ a \in Nat /\ c \in Nat
  BY ProblemFacts
<1>2. x \in Nat /\ y \in Nat
  BY <1>1
<1>3. x <= y
  <2>1. u * (high - low) \in Nat /\ high - low \in Nat
    BY <1>1
  <2>2. y = x + u * (high - low)
    BY <1>1
  <2>3. QED
    BY <1>2, <2>1, <2>2
<1>4. /\ recompute_ceiling(r, low) = Smaller(a, Larger(0, (x \div 1000) - c))
      /\ recompute_ceiling(r, high) = Smaller(a, Larger(0, (y \div 1000) - c))
  BY DEF recompute_ceiling
<1> HIDE DEF u, a, c, x, y
<1>5. x \div 1000 \in Nat /\ y \div 1000 \in Nat /\ x \div 1000 <= y \div 1000
  BY <1>2, <1>3
<1> DEFINE k == x \div 1000
           l == y \div 1000
<1> HIDE DEF k, l
<1>6. k \in Nat /\ l \in Nat /\ k <= l
  BY <1>5 DEF k, l
<1>7. /\ recompute_ceiling(r, low) = Smaller(a, Larger(0, k - c))
      /\ recompute_ceiling(r, high) = Smaller(a, Larger(0, l - c))
  BY <1>4 DEF k, l
<1>8. QED
  BY <1>1, <1>6, <1>7 DEF Smaller, Larger, a

\* What only the problem decides stays as it is.
LEMMA SameProblem ==
    ASSUME UNCHANGED problem
    PROVE  /\ Active' = Active /\ Served' = Served
           /\ \A d : EligibleFor(d)' = EligibleFor(d) /\ Excluded(d)' = Excluded(d)
           /\ \A r, x : recompute_ceiling(r, x)' = recompute_ceiling(r, x)
<1>1. Active' = Active /\ Served' = Served
  BY DEF Active, Served, Excluded
<1>2. \A d : EligibleFor(d)' = EligibleFor(d) /\ Excluded(d)' = Excluded(d)
  BY DEF EligibleFor, Elements, Excluded
<1>3. \A r, x : recompute_ceiling(r, x)' = recompute_ceiling(r, x)
  BY DEF recompute_ceiling, Smaller, Larger
<1>4. QED
  BY <1>1, <1>2, <1>3

(***************************************************************************)
(* The load                                                                *)
(***************************************************************************)
\* One share changes by delta, and so do the sums it is part of.
LEMMA ShareChanges ==
    ASSUME problem \in Problems, UNCHANGED problem,
           shares \in [problem.demands -> [problem.paths -> Nat]],
           shares' \in [problem.demands -> [problem.paths -> Nat]],
           NEW d \in problem.demands, NEW p \in problem.paths, NEW delta \in Int,
           shares'[d][p] = shares[d][p] + delta,
           \A e \in problem.demands : \A q \in problem.paths :
              e # d \/ q # p => shares'[e][q] = shares[e][q]
    PROVE  /\ \A r \in problem.resources : /\ Through(r) \in Nat
                                           /\ Through(r)' = Through(r) + (IF r \in problem.through[p]
                                                                          THEN delta ELSE 0)
                                           /\ r \in problem.through[p] => shares[d][p] <= Through(r)
           /\ \A e \in problem.demands : /\ Total(e) \in Nat
                                         /\ Total(e)' = Total(e) + (IF e = d THEN delta ELSE 0)
           /\ shares[d][p] <= Total(d)
<1> USE ProblemFacts
<1>1. IsFiniteSet(Pairs)
  BY FS_Product DEF Pairs
<1>2. Pairs' = Pairs
  BY DEF Pairs
<1> DEFINE f == ShareOf
           g == ShareOf'
           x == <<d, p>>
<1>3. \A y \in Pairs : f[y] = shares[y[1]][y[2]] /\ y[1] \in problem.demands /\ y[2] \in problem.paths
  BY DEF ShareOf, Pairs
<1>4. \A y \in Pairs : g[y] = shares'[y[1]][y[2]]
  BY <1>2 DEF ShareOf
<1>5. \A y \in Pairs : y # x => y[1] # d \/ y[2] # p
  BY DEF Pairs
<1>6. x \in Pairs /\ f[x] = shares[d][p] /\ g[x] = f[x] + delta
  BY <1>3, <1>4 DEF Pairs
<1>7. \A y \in Pairs : f[y] \in Nat /\ g[y] \in Nat /\ (y # x => g[y] = f[y])
  <2> SUFFICES ASSUME NEW y \in Pairs
               PROVE  f[y] \in Nat /\ g[y] \in Nat /\ (y # x => g[y] = f[y])
    OBVIOUS
  <2> DEFINE e == y[1]
             q == y[2]
  <2>1. e \in problem.demands /\ q \in problem.paths /\ f[y] = shares[e][q] /\ g[y] = shares'[e][q]
    BY <1>3, <1>4
  <2>2. y # x => e # d \/ q # p
    BY <1>5
  <2> HIDE DEF e, q, f, g, x
  <2>3. shares[e][q] \in Nat /\ shares'[e][q] \in Nat
    BY <2>1
  <2>4. y # x => shares'[e][q] = shares[e][q]
    BY <2>1, <2>2
  <2>5. QED
    BY <2>1, <2>3, <2>4
<1> HIDE DEF f, g, x
<1>8. ASSUME NEW r \in problem.resources
      PROVE  /\ Through(r) \in Nat
             /\ Through(r)' = Through(r) + (IF r \in problem.through[p] THEN delta ELSE 0)
             /\ r \in problem.through[p] => shares[d][p] <= Through(r)
  <2> DEFINE S == {pair \in Pairs : r \in problem.through[pair[2]]}
  <2>1. Through(r) = SumOver(f, S) /\ Through(r)' = SumOver(g, S)
    BY <1>2 DEF Through, f, g
  <2>2. IsFiniteSet(S)
    BY <1>1, FS_Subset
  <2>3. x \in S <=> r \in problem.through[p]
    BY <1>6 DEF x
  <2>4. \A y \in S : f[y] \in Nat /\ g[y] \in Nat /\ (y # x => g[y] = f[y])
    BY <1>7
  <2> HIDE DEF S
  <2>5. SumOver(f, S) \in Nat /\ \A y \in S : f[y] <= SumOver(f, S)
    BY <2>2, <2>4, SumNat
  <2>6. SumOver(g, S) = IF x \in S THEN SumOver(f, S) + (g[x] - f[x]) ELSE SumOver(f, S)
    <3>1. \A y \in S : f[y] \in Int /\ g[y] \in Int
      BY <2>4
    <3>2. \A y \in S : y # x => g[y] = f[y]
      BY <2>4
    <3> HIDE ProblemFacts
    <3>3. QED
      BY <2>2, <3>1, <3>2, SumChange
  <2>7. f[x] \in Nat /\ g[x] - f[x] = delta
    BY <1>6, <1>7
  <2>8. QED
    BY <1>6, <2>1, <2>3, <2>5, <2>6, <2>7
<1>9. ASSUME NEW e \in problem.demands
      PROVE  /\ Total(e) \in Nat
             /\ Total(e)' = Total(e) + (IF e = d THEN delta ELSE 0)
             /\ e = d => shares[d][p] <= Total(e)
  <2> DEFINE P == problem.paths
             u == shares[e]
             v == shares'[e]
  <2>1. Total(e) = SumOver(u, P) /\ Total(e)' = SumOver(v, P)
    BY DEF Total
  <2>2. \A q \in P : u[q] \in Nat /\ v[q] \in Nat /\ (e # d \/ q # p => v[q] = u[q])
    OBVIOUS
  <2>3. IsFiniteSet(P)
    OBVIOUS
  <2>4. SumOver(u, P) \in Nat /\ \A q \in P : u[q] <= SumOver(u, P)
    BY <2>2, <2>3, SumNat
  <2>5. CASE e = d
    <3>1. SumOver(v, P) = SumOver(u, P) + (v[p] - u[p])
      <4> HIDE DEF u, v, P
      <4> HIDE ProblemFacts
      <4>1. p \in P
        BY DEF P
      <4>2. \A q \in P : u[q] \in Int /\ v[q] \in Int
        BY <2>2
      <4>3. \A q \in P : q # p => v[q] = u[q]
        BY <2>2
      <4>4. SumOver(v, P) = IF p \in P THEN SumOver(u, P) + (v[p] - u[p]) ELSE SumOver(u, P)
        BY <2>3, <4>2, <4>3, SumChange
      <4>5. QED
        BY <4>1, <4>4
    <3>2. v[p] - u[p] = delta
      BY <2>5
    <3>3. QED
      BY <2>1, <2>4, <2>5, <3>1, <3>2
  <2>6. CASE e # d
    <3>1. SumOver(u, P) = SumOver(v, P)
      <4> HIDE DEF u, v, P
      <4>1. QED
        BY <2>2, <2>3, <2>6, SumCongruence, ZenonT(60)
    <3>2. QED
      BY <2>1, <2>4, <2>6, <3>1
  <2>7. QED
    BY <2>5, <2>6
<1>10. QED
  BY <1>8, <1>9


\* What the load owes to the problem and the ceiling, whatever loop is running.
LoadOK ==
    /\ problem \in Problems /\ ceiling \in Nat
    /\ shares \in [problem.demands -> [problem.paths -> Nat]]
    /\ granted \in [problem.demands -> Nat]
    /\ allocated \in [problem.resources -> Nat]
    /\ SumsOK /\ EligibleOK

LEMMA PathFacts ==
    ASSUME problem \in Problems, NEW d \in Served
    PROVE  /\ d \in problem.demands /\ d \in Active
           /\ EligibleFor(d) \subseteq problem.paths
           /\ problem.floor[d] \in Nat /\ problem.maximum[d] \in Nat /\ problem.desired[d] \in Nat
<1>1. d \in problem.demands /\ d \in Active
  BY DEF Served, Active
<1>2. problem.eligible[d] \in Seq(problem.paths)
  BY <1>1, ProblemFacts
<1>3. EligibleFor(d) \subseteq problem.paths
  BY <1>2 DEF EligibleFor, Elements
<1>4. QED
  BY <1>1, <1>3, ProblemFacts

LEMMA SameLoad ==
    ASSUME LoadOK, UNCHANGED <<problem, ceiling, load>>
    PROVE  LoadOK'
<1>1. /\ problem' = problem /\ ceiling' = ceiling
      /\ shares' = shares /\ granted' = granted /\ allocated' = allocated
  BY DEF load
<1>2. Pairs' = Pairs /\ ShareOf' = ShareOf
  BY <1>1 DEF Pairs, ShareOf
<1>3. \A r : Through(r)' = Through(r)
  BY <1>1, <1>2 DEF Through
<1>4. \A d : Total(d)' = Total(d)
  BY <1>1 DEF Total
<1>5. \A r : recompute_ceiling(r, ceiling)' = recompute_ceiling(r, ceiling)
  BY <1>1 DEF recompute_ceiling, Smaller, Larger
<1>6. SumsOK'
  BY <1>1, <1>3, <1>4, <1>5 DEF LoadOK, SumsOK
<1>7. EligibleOK'
  BY <1>1, SameProblem DEF LoadOK, EligibleOK
<1>8. QED
  BY <1>1, <1>6, <1>7 DEF LoadOK

\* A grant of what fits on an eligible path.
LEMMA GrantLoad ==
    ASSUME LoadOK, UNCHANGED <<problem, ceiling>>, NEW d \in Served, NEW p \in EligibleFor(d),
           NEW take \in Nat, Fits(p, take), grant(d, p, take)
    PROVE  /\ LoadOK'
           /\ granted'[d] = granted[d] + take
           /\ \A e \in problem.demands : e # d => granted'[e] = granted[e]
           /\ \A e \in problem.demands : \A q \in problem.paths : shares'[e][q] >= shares[e][q]
<1>1. d \in problem.demands /\ p \in problem.paths
  BY PathFacts DEF LoadOK
<1>2. /\ problem' = problem /\ ceiling' = ceiling /\ problem \in Problems
      /\ shares \in [problem.demands -> [problem.paths -> Nat]]
      /\ granted \in [problem.demands -> Nat] /\ allocated \in [problem.resources -> Nat]
  BY DEF LoadOK
<1>3. /\ shares' \in [problem.demands -> [problem.paths -> Nat]]
      /\ shares'[d][p] = shares[d][p] + take
      /\ \A e \in problem.demands : \A q \in problem.paths :
            e # d \/ q # p => shares'[e][q] = shares[e][q]
  BY <1>1, <1>2 DEF grant
<1>4. /\ granted' \in [problem.demands -> Nat] /\ granted'[d] = granted[d] + take
      /\ \A e \in problem.demands : e # d => granted'[e] = granted[e]
  BY <1>1, <1>2 DEF grant
<1>5. /\ allocated' \in [problem.resources -> Nat]
      /\ \A r \in problem.resources :
            allocated'[r] = allocated[r] + (IF r \in problem.through[p] THEN take ELSE 0)
  BY <1>1, <1>2 DEF grant
<1>6. /\ \A r \in problem.resources :
            /\ Through(r) \in Nat
            /\ Through(r)' = Through(r) + (IF r \in problem.through[p] THEN take ELSE 0)
      /\ \A e \in problem.demands :
            Total(e) \in Nat /\ Total(e)' = Total(e) + (IF e = d THEN take ELSE 0)
  BY <1>1, <1>2, <1>3, ShareChanges
<1>7. SumsOK'
  <2>1. ASSUME NEW r \in problem.resources
        PROVE  allocated'[r] = Through(r)' /\ allocated'[r] <= recompute_ceiling(r, ceiling)'
    <3>1. allocated[r] = Through(r) /\ allocated[r] <= recompute_ceiling(r, ceiling)
      BY DEF LoadOK, SumsOK
    <3>2. allocated[r] \in Nat /\ recompute_ceiling(r, ceiling) \in Nat
      BY <1>2, CeilingFacts DEF LoadOK
    <3>3. r \in problem.through[p] => allocated[r] + take <= recompute_ceiling(r, ceiling)
      BY <3>1, <3>2 DEF Fits
    <3>4. recompute_ceiling(r, ceiling)' = recompute_ceiling(r, ceiling)
      BY <1>2 DEF recompute_ceiling, Smaller, Larger
    <3>5. QED
      BY <1>5, <1>6, <3>1, <3>2, <3>3, <3>4
  <2>2. ASSUME NEW e \in problem.demands PROVE granted'[e] = Total(e)'
    <3>1. granted[e] = Total(e)
      BY DEF LoadOK, SumsOK
    <3>2. QED
      BY <1>2, <1>4, <1>6, <3>1
  <2>3. QED
    BY <1>2, <2>1, <2>2 DEF SumsOK
<1>8. EligibleOK'
  <2> SUFFICES ASSUME NEW e \in problem.demands, NEW q \in problem.paths, shares'[e][q] > 0
               PROVE  e \in Served /\ q \in EligibleFor(e)
    BY <1>2, SameProblem DEF EligibleOK
  <2>1. CASE e = d /\ q = p
    BY <2>1
  <2>2. CASE e # d \/ q # p
    BY <1>3, <2>2 DEF LoadOK, EligibleOK
  <2>3. QED
    BY <2>1, <2>2
<1>9. ASSUME NEW e \in problem.demands, NEW q \in problem.paths PROVE shares'[e][q] >= shares[e][q]
  <2>1. shares[e][q] \in Nat
    BY <1>2
  <2>2. CASE e = d /\ q = p
    BY <1>3, <2>1, <2>2
  <2>3. CASE e # d \/ q # p
    BY <1>3, <2>1, <2>3
  <2>4. QED
    BY <2>2, <2>3
<1>10. QED
  BY <1>2, <1>3, <1>4, <1>5, <1>7, <1>8, <1>9 DEF LoadOK

\* What is taken back is all there: nothing is cut off at zero.
LEMMA RevokeLoad ==
    ASSUME LoadOK, UNCHANGED <<problem, ceiling>>, NEW d \in problem.demands, NEW p \in problem.paths,
           NEW amount \in Nat, amount <= shares[d][p], revoke(d, p, amount)
    PROVE  /\ LoadOK'
           /\ granted'[d] = granted[d] - amount
           /\ \A e \in problem.demands : e # d => granted'[e] = granted[e]
           /\ \A e \in problem.demands : \A q \in problem.paths :
                 e # d \/ q # p => shares'[e][q] = shares[e][q]
<1>1. /\ problem' = problem /\ ceiling' = ceiling /\ problem \in Problems
      /\ shares \in [problem.demands -> [problem.paths -> Nat]]
      /\ granted \in [problem.demands -> Nat] /\ allocated \in [problem.resources -> Nat]
  BY DEF LoadOK
<1>2. shares[d][p] \in Nat /\ Smaller(amount, shares[d][p]) = amount
  BY <1>1 DEF Smaller
<1>3. /\ shares' \in [problem.demands -> [problem.paths -> Nat]]
      /\ shares'[d][p] = shares[d][p] + (0 - amount)
      /\ \A e \in problem.demands : \A q \in problem.paths :
            e # d \/ q # p => shares'[e][q] = shares[e][q]
  BY <1>1, <1>2 DEF revoke
<1>4. /\ \A r \in problem.resources :
            /\ Through(r) \in Nat
            /\ Through(r)' = Through(r) + (IF r \in problem.through[p] THEN 0 - amount ELSE 0)
            /\ r \in problem.through[p] => shares[d][p] <= Through(r)
      /\ \A e \in problem.demands :
            Total(e) \in Nat /\ Total(e)' = Total(e) + (IF e = d THEN 0 - amount ELSE 0)
      /\ shares[d][p] <= Total(d)
  <2>1. 0 - amount \in Int
    OBVIOUS
  <2>2. QED
    BY <1>1, <1>3, <2>1, ShareChanges
<1>5. /\ \A r \in problem.resources :
            allocated[r] = Through(r) /\ allocated[r] <= recompute_ceiling(r, ceiling)
      /\ \A e \in problem.demands : granted[e] = Total(e)
  BY DEF LoadOK, SumsOK
<1>6. /\ granted' \in [problem.demands -> Nat] /\ granted'[d] = granted[d] - amount
      /\ \A e \in problem.demands : e # d => granted'[e] = granted[e]
  <2>1. granted[d] \in Nat /\ amount <= granted[d]
    BY <1>1, <1>2, <1>4, <1>5
  <2>2. Larger(0, granted[d] - amount) = granted[d] - amount /\ granted[d] - amount \in Nat
    BY <2>1 DEF Larger
  <2>3. QED
    BY <1>1, <1>2, <2>2 DEF revoke
<1>7. /\ allocated' \in [problem.resources -> Nat]
      /\ \A r \in problem.resources :
            allocated'[r] = allocated[r] + (IF r \in problem.through[p] THEN 0 - amount ELSE 0)
  <2>1. \A r \in problem.resources : r \in problem.through[p] =>
            Larger(0, allocated[r] - amount) = allocated[r] + (0 - amount)
    <3> SUFFICES ASSUME NEW r \in problem.resources, r \in problem.through[p]
                 PROVE  Larger(0, allocated[r] - amount) = allocated[r] + (0 - amount)
      OBVIOUS
    <3>1. allocated[r] \in Nat /\ amount <= allocated[r]
      BY <1>1, <1>2, <1>4, <1>5
    <3>2. QED
      BY <3>1 DEF Larger
  <2>2. \A r \in problem.resources : r \in problem.through[p] => allocated[r] + (0 - amount) \in Nat
    BY <1>1, <1>2, <1>4, <1>5
  <2>3. QED
    BY <1>1, <1>2, <2>1, <2>2 DEF revoke
<1>8. SumsOK'
  <2>1. ASSUME NEW r \in problem.resources
        PROVE  allocated'[r] = Through(r)' /\ allocated'[r] <= recompute_ceiling(r, ceiling)'
    <3>1. allocated[r] \in Nat /\ recompute_ceiling(r, ceiling) \in Nat
      BY <1>1, CeilingFacts DEF LoadOK
    <3>2. recompute_ceiling(r, ceiling)' = recompute_ceiling(r, ceiling)
      BY <1>1 DEF recompute_ceiling, Smaller, Larger
    <3>3. QED
      BY <1>4, <1>5, <1>7, <3>1, <3>2
  <2>2. ASSUME NEW e \in problem.demands PROVE granted'[e] = Total(e)'
    <3>1. granted[e] \in Nat /\ granted[e] = Total(e)
      BY <1>1, <1>5
    <3>2. CASE e = d
      BY <1>4, <1>6, <3>1, <3>2
    <3>3. CASE e # d
      BY <1>4, <1>6, <3>1, <3>3
    <3>4. QED
      BY <3>2, <3>3
  <2>3. QED
    BY <1>1, <2>1, <2>2 DEF SumsOK
<1>9. EligibleOK'
  <2> SUFFICES ASSUME NEW e \in problem.demands, NEW q \in problem.paths, shares'[e][q] > 0
               PROVE  e \in Served /\ q \in EligibleFor(e)
    BY <1>1, SameProblem DEF EligibleOK
  <2>1. shares[e][q] > 0
    <3>1. CASE e = d /\ q = p
      BY <1>2, <1>3, <3>1
    <3>2. CASE e # d \/ q # p
      BY <1>3, <3>2
    <3>3. QED
      BY <3>1, <3>2
  <2>2. QED
    BY <2>1 DEF LoadOK, EligibleOK
<1>10. QED
  BY <1>1, <1>3, <1>6, <1>7, <1>8, <1>9 DEF LoadOK

\* A fresh Problem carries nothing.
LEMMA ResetLoad ==
    ASSUME problem \in Problems, UNCHANGED problem, ceiling' \in Nat,
           shares' = [d \in problem.demands |-> [p \in problem.paths |-> 0]],
           granted' = [d \in problem.demands |-> 0],
           allocated' = [r \in problem.resources |-> 0]
    PROVE  LoadOK'
<1> USE ProblemFacts
<1>1. Pairs' = Pairs /\ IsFiniteSet(Pairs)
  BY FS_Product DEF Pairs
<1>2. ASSUME NEW r \in problem.resources
      PROVE  allocated'[r] = Through(r)' /\ allocated'[r] <= recompute_ceiling(r, ceiling)'
  <2> DEFINE S == {pair \in Pairs : r \in problem.through[pair[2]]}
             g == ShareOf'
  <2>1. IsFiniteSet(S)
    BY <1>1, FS_Subset
  <2>2. \A y \in S : g[y] = 0
    BY <1>1 DEF ShareOf, Pairs
  <2>3. Through(r)' = SumOver(g, S)
    BY <1>1 DEF Through
  <2> HIDE DEF S, g
  <2>4. SumOver(g, S) = 0
    BY <2>1, <2>2, SumZero
  <2>5. recompute_ceiling(r, ceiling') \in Nat
    BY CeilingFacts
  <2>6. recompute_ceiling(r, ceiling)' = recompute_ceiling(r, ceiling')
    BY DEF recompute_ceiling, Smaller, Larger
  <2>7. QED
    BY <2>3, <2>4, <2>5, <2>6
<1>3. ASSUME NEW d \in problem.demands PROVE granted'[d] = Total(d)'
  <2> DEFINE v == shares'[d]
  <2>1. Total(d)' = SumOver(v, problem.paths)
    BY DEF Total
  <2>2. \A q \in problem.paths : v[q] = 0
    OBVIOUS
  <2>3. IsFiniteSet(problem.paths)
    OBVIOUS
  <2> HIDE DEF v
  <2>4. SumOver(v, problem.paths) = 0
    BY <2>2, <2>3, SumZero
  <2>5. QED
    BY <2>1, <2>4
<1>4. SumsOK'
  BY <1>2, <1>3 DEF SumsOK
<1>5. EligibleOK'
  BY DEF EligibleOK
<1>6. QED
  BY <1>4, <1>5 DEF LoadOK

(***************************************************************************)
(* The steps                                                               *)
(***************************************************************************)
\* What NoDemandLoses says of a step.
Keeps == RunMinimums(ceiling', run') \/ \A d \in problem.demands : Net(d)' >= Net(d)

LEMMA InvLoad == ASSUME Inv PROVE LoadOK
<1>1. problem.policy_ceiling \in 1 .. 1000
  BY ProblemFacts DEF Inv, TypeOK
<1>2. ceiling \in Nat
  BY <1>1 DEF Inv, SearchOK
<1>3. QED
  BY <1>2 DEF Inv, TypeOK, LoadOK

LEMMA NextLoadInv ==
    ASSUME LoadOK', LoopTypes', SearchOK', LoopsOK', MovesOK', BoundsOK'
    PROVE  Inv'
<1>1. QED
  BY DEF Inv, TypeOK, LoadOK

\* What is granted, outside a move and in it.
LEMMA NetFacts ==
    ASSUME Inv
    PROVE  /\ \A d \in problem.demands :
                /\ granted[d] \in Nat /\ Net(d) \in Int /\ problem.maximum[d] \in Nat
                /\ Net(d) <= problem.maximum[d]
                /\ pc # "move" => Net(d) = granted[d]
                /\ pc = "move" => Net(d) = IF d = moving.demand THEN granted[d] - moving.moved
                                           ELSE granted[d]
<1> SUFFICES ASSUME NEW d \in problem.demands
             PROVE  /\ granted[d] \in Nat /\ Net(d) \in Int /\ problem.maximum[d] \in Nat
                    /\ Net(d) <= problem.maximum[d]
                    /\ pc # "move" => Net(d) = granted[d]
                    /\ pc = "move" => Net(d) = IF d = moving.demand THEN granted[d] - moving.moved
                                               ELSE granted[d]
  OBVIOUS
<1>1. granted[d] \in Nat /\ problem.maximum[d] \in Nat
  BY ProblemFacts DEF Inv, TypeOK
<1>2. pc = "move" => moving.moved \in Nat
  BY DEF Inv, MovesOK
<1>3. Net(d) <= problem.maximum[d]
  BY DEF Inv, BoundsOK
<1>4. QED
  BY <1>1, <1>2, <1>3 DEF Net

\* A step that leaves the load alone and does not start or end in a move
\* that has moved something.
LEMMA QuietNet ==
    ASSUME Inv, UNCHANGED <<problem, load>>, pc # "move", pc' = "move" => moving'.moved = 0
    PROVE  /\ \A d \in problem.demands : Net(d)' = granted[d] /\ Net(d) = granted[d]
           /\ \A d \in problem.demands : Net(d)' <= problem'.maximum[d]
           /\ Keeps
<1>1. ASSUME NEW d \in problem.demands
      PROVE  Net(d)' = granted[d] /\ Net(d) = granted[d] /\ granted[d] \in Nat
             /\ granted[d] <= problem.maximum[d]
  <2>1. granted'[d] = granted[d]
    BY DEF load
  <2>2. Net(d) = granted[d] /\ granted[d] \in Nat /\ Net(d) <= problem.maximum[d]
    BY NetFacts
  <2>3. Net(d)' = granted[d]
    BY <2>1, <2>2 DEF Net
  <2>4. QED
    BY <2>2, <2>3
<1>2. QED
  BY <1>1 DEF Keeps

\* The same for the whole invariant: the load and the search are left alone.
LEMMA QuietStep ==
    ASSUME Inv, UNCHANGED <<problem, ceilings, load>>, pc \notin {"move", "widen", "search", "done"},
           pc' = "move" => moving'.moved = 0, LoopTypes', LoopsOK', MovesOK',
           pc' = "place" => need' <= problem'.maximum[who'] - granted'[who']
    PROVE  Inv' /\ Keeps
<1>1. LoadOK'
  BY InvLoad, SameLoad DEF ceilings
<1>2. BoundsOK' /\ Keeps
  BY QuietNet DEF BoundsOK
<1>3. SearchOK'
  BY DEF Inv, SearchOK, ceilings
<1>4. QED
  BY <1>1, <1>2, <1>3, NextLoadInv

\* The order of preference lists eligible paths.
LEMMA OrderFacts ==
    ASSUME problem \in Problems, NEW d \in problem.demands, NEW q \in order_paths(d)
    PROVE  q \in Seq(problem.paths) /\ Elements(q) \subseteq EligibleFor(d)
<1>1. problem.eligible[d] \in Seq(problem.paths)
  BY ProblemFacts
<1>2. q \in [1 .. Len(problem.eligible[d]) -> EligibleFor(d)]
  BY <1>1 DEF order_paths, EligibleFor
<1>3. EligibleFor(d) \subseteq problem.paths
  BY <1>1 DEF EligibleFor, Elements
<1>4. Len(problem.eligible[d]) \in Nat
  BY <1>1
<1>5. q \in Seq(problem.paths)
  BY <1>2, <1>3, <1>4
<1>6. QED
  BY <1>2, <1>5 DEF Elements

\* place asks for no more than the maximum leaves.
LEMMA PlacingFacts ==
    ASSUME Inv, pc # "move", NEW d \in problem.demands, NEW order, NEW wanted \in Int,
           Placing(d, order, wanted)
    PROVE  /\ pc' = "place" /\ todo' = order /\ need' \in Int
           /\ need' <= problem.maximum[d] - granted[d] /\ need' <= wanted
           /\ wanted <= problem.maximum[d] - granted[d] => need' = wanted
<1>1. granted[d] \in Nat /\ problem.maximum[d] \in Nat /\ granted[d] <= problem.maximum[d]
  BY NetFacts
<1>2. Larger(0, problem.maximum[d] - granted[d]) = problem.maximum[d] - granted[d]
  BY <1>1 DEF Larger
<1>3. need' = Smaller(wanted, problem.maximum[d] - granted[d])
  BY <1>2 DEF Placing
<1>4. QED
  BY <1>1, <1>3 DEF Placing, Smaller

LEMMA VisitMinimumStep == ASSUME Inv, VisitMinimum PROVE Inv' /\ Keeps
<1>1. PICK d \in queue :
        /\ queue' = queue \ {d}
        /\ \/ /\ Excluded(d)
              /\ UNCHANGED <<pc, who, placing, rounds>>
           \/ /\ ~Excluded(d)
              /\ who' = d /\ rounds' = 0
              /\ \E q \in order_paths(d) : preferred' = q /\ Placing(d, q, problem.floor[d])
  BY DEF VisitMinimum
<1>2. /\ phase = "minimum" /\ pc = "visit" /\ phase' = phase /\ deficit' = deficit
      /\ UNCHANGED <<problem, ceilings, load>> /\ problem' = problem /\ hops' = hops
      /\ granted' = granted
  BY DEF VisitMinimum, load
<1>3. d \in Active /\ d \in problem.demands /\ queue' \subseteq Active /\ problem \in Problems
  BY <1>1 DEF Inv, TypeOK, LoopTypes, Active
<1>4. CASE /\ Excluded(d)
           /\ UNCHANGED <<pc, who, placing, rounds>>
  <2>1. LoopTypes'
    BY <1>2, <1>3, <1>4, SameProblem DEF Inv, LoopTypes, placing
  <2>2. pc' = "visit"
    BY <1>2, <1>4
  <2>3. LoopsOK' /\ MovesOK'
    BY <2>2 DEF LoopsOK, MovesOK, Busy
  <2>4. QED
    BY <1>2, <2>1, <2>2, <2>3, QuietStep
<1>5. CASE /\ ~Excluded(d)
           /\ who' = d /\ rounds' = 0
           /\ \E q \in order_paths(d) : preferred' = q /\ Placing(d, q, problem.floor[d])
  <2>1. PICK q \in order_paths(d) : preferred' = q /\ Placing(d, q, problem.floor[d])
    BY <1>5
  <2>2. q \in Seq(problem.paths) /\ Elements(q) \subseteq EligibleFor(d)
    BY <1>3, OrderFacts
  <2>3. problem.floor[d] \in Int
    BY <1>3, ProblemFacts
  <2>4. pc' = "place" /\ todo' = q /\ need' \in Int /\ need' <= problem.maximum[d] - granted[d]
    BY <1>2, <1>3, <2>1, <2>3, PlacingFacts
  <2>5. LoopTypes'
    BY <1>2, <1>3, <2>1, <2>2, <2>4, SameProblem DEF Inv, LoopTypes
  <2>6. d \in Served
    BY <1>3, <1>5 DEF Served
  <2>7. LoopsOK' /\ MovesOK'
    BY <1>2, <1>5, <2>1, <2>2, <2>4, <2>6, SameProblem DEF LoopsOK, MovesOK, Busy
  <2>8. QED
    BY <1>2, <1>5, <2>4, <2>5, <2>7, QuietStep
<1>6. QED
  BY <1>1, <1>4, <1>5

\* Sequences without their first or last element.
LEMMA TailFacts ==
    ASSUME NEW S, NEW q \in Seq(S), q # <<>>
    PROVE  /\ Head(q) \in Elements(q) /\ Tail(q) \in Seq(S) /\ Elements(Tail(q)) \subseteq Elements(q)
           /\ Elements(q) \subseteq Elements(Tail(q)) \cup {Head(q)}
           /\ q[Len(q)] \in Elements(q)
           /\ SubSeq(q, 1, Len(q) - 1) \in Seq(S)
           /\ Elements(SubSeq(q, 1, Len(q) - 1)) \subseteq Elements(q)
<1>1. Len(q) \in Nat /\ Len(q) > 0 /\ DOMAIN q = 1 .. Len(q)
  BY EmptySeq
<1>2. Head(q) = q[1] /\ 1 \in DOMAIN q /\ Len(q) \in DOMAIN q
  BY <1>1
<1>3. /\ Tail(q) \in Seq(S) /\ DOMAIN Tail(q) = 1 .. Len(q) - 1
      /\ \A i \in 1 .. Len(q) - 1 : Tail(q)[i] = q[i + 1]
  BY <1>1
<1>4. Elements(Tail(q)) \subseteq Elements(q)
  BY <1>1, <1>3 DEF Elements
<1>5. Elements(q) \subseteq Elements(Tail(q)) \cup {Head(q)}
  <2> SUFFICES ASSUME NEW i \in 1 .. Len(q), i # 1 PROVE q[i] \in Elements(Tail(q))
    BY <1>1, <1>2 DEF Elements
  <2>1. i - 1 \in 1 .. Len(q) - 1 /\ Tail(q)[i - 1] = q[i]
    BY <1>1, <1>3
  <2>2. QED
    BY <1>3, <2>1 DEF Elements
<1>6. \A i \in 1 .. Len(q) : q[i] \in S
  BY <1>1
<1> DEFINE s == SubSeq(q, 1, Len(q) - 1)
<1>7. DOMAIN s = 1 .. Len(q) - 1 /\ s \in Seq(S) /\ \A i \in 1 .. Len(q) - 1 : s[i] = q[i]
  BY <1>1, <1>6
<1>8. Elements(s) \subseteq Elements(q)
  BY <1>1, <1>7 DEF Elements
<1>9. QED
  BY <1>1, <1>2, <1>3, <1>4, <1>5, <1>7, <1>8 DEF Elements

LEMMA PlaceOnStep == ASSUME Inv, PlaceOn PROVE Inv' /\ Keeps
<1>1. PICK take \in Takes(Head(todo), need) : grant(who, Head(todo), take) /\ need' = need - take
  BY DEF PlaceOn
<1>2. /\ pc = "place" /\ pc' = pc /\ todo # <<>> /\ need > 0 /\ todo' = Tail(todo)
      /\ UNCHANGED <<problem, ceilings, preferred, visiting, repairing, moving, status>>
      /\ problem' = problem /\ ceiling' = ceiling /\ preferred' = preferred
      /\ phase' = phase /\ queue' = queue /\ who' = who /\ deficit' = deficit /\ run' = run
      /\ search' = search /\ hops' = hops
  BY DEF PlaceOn, visiting, ceilings, repairing
<1>3. who \in Served /\ Elements(todo) \subseteq EligibleFor(who) /\ problem \in Problems
      /\ need <= problem.maximum[who] - granted[who] /\ need \in Int /\ who \in problem.demands
      /\ todo \in Seq(problem.paths)
  BY <1>2, PathFacts DEF Inv, TypeOK, LoopTypes, LoopsOK, BoundsOK, Busy
<1>4. /\ Head(todo) \in EligibleFor(who)
      /\ Tail(todo) \in Seq(problem.paths) /\ Elements(Tail(todo)) \subseteq EligibleFor(who)
  BY <1>2, <1>3, TailFacts
<1>5. take \in Nat /\ take <= need /\ Fits(Head(todo), take)
  BY <1>3 DEF Takes
<1>6. /\ LoadOK' /\ granted'[who] = granted[who] + take
      /\ \A e \in problem.demands : e # who => granted'[e] = granted[e]
  BY <1>1, <1>2, <1>3, <1>4, <1>5, InvLoad, GrantLoad
<1>7. ASSUME NEW e \in problem.demands
      PROVE  Net(e)' = granted'[e] /\ Net(e)' >= Net(e) /\ Net(e)' <= problem.maximum[e]
  <2>1. /\ granted[e] \in Nat /\ problem.maximum[e] \in Nat /\ granted[e] <= problem.maximum[e]
        /\ Net(e) = granted[e]
    BY <1>2, NetFacts
  <2>2. Net(e)' = granted'[e]
    BY <1>2 DEF Net
  <2>3. CASE e = who
    BY <1>3, <1>5, <1>6, <2>1, <2>2, <2>3
  <2>4. CASE e # who
    BY <1>6, <2>1, <2>2, <2>4
  <2>5. QED
    BY <2>2, <2>3, <2>4
<1>8. need' \in Int /\ need' <= problem.maximum[who] - granted'[who]
  <2>1. granted[who] \in Nat /\ problem.maximum[who] \in Nat
    BY <1>3, NetFacts
  <2>2. QED
    BY <1>1, <1>3, <1>5, <1>6, <2>1
<1>9. LoopTypes'
  BY <1>2, <1>4, <1>8, SameProblem DEF Inv, LoopTypes
<1>10. SearchOK'
  BY <1>2 DEF Inv, SearchOK
<1>11. LoopsOK' /\ MovesOK'
  BY <1>2, <1>3, <1>4, SameProblem DEF Inv, LoopsOK, MovesOK, Busy
<1>12. BoundsOK' /\ Keeps
  BY <1>2, <1>7, <1>8 DEF BoundsOK, Keeps
<1>13. QED
  BY <1>6, <1>9, <1>10, <1>11, <1>12, NextLoadInv

\* The steps of the loops that only move on.
LEMMA PlaceEndStep == ASSUME Inv, PlaceEnd PROVE Inv' /\ Keeps
<1>1. /\ pc = "place" /\ UNCHANGED <<problem, ceilings, visiting, placing, repairing, load>>
      /\ pc' = IF phase = "minimum" THEN "repair" ELSE "visit"
      /\ problem' = problem
  BY DEF PlaceEnd
<1>2. LoopTypes'
  BY <1>1, SameProblem DEF Inv, LoopTypes, visiting, placing, repairing
<1>3. pc' \in {"repair", "visit"}
  BY <1>1
<1>4. LoopsOK'
  BY <1>1, <1>3, SameProblem DEF Inv, LoopsOK, visiting, placing, Busy
<1>5. MovesOK'
  BY <1>3 DEF MovesOK
<1>6. QED
  BY <1>1, <1>2, <1>3, <1>4, <1>5, QuietStep

LEMMA RepairStep == ASSUME Inv, RepairRound \/ RepairEnd PROVE Inv' /\ Keeps
<1>1. /\ pc = "repair" /\ UNCHANGED <<problem, ceilings, visiting, load>> /\ problem' = problem
      /\ pc' \in {"scan", "visit"} /\ preferred' = preferred /\ deficit' = deficit
      /\ todo' \in {todo, preferred} /\ need' \in {need, problem.floor[who] - granted[who]}
  BY DEF RepairRound, RepairEnd, placing, repairing
<1>2. who \in Served /\ problem \in Problems
  BY <1>1 DEF Inv, TypeOK, LoopsOK, Busy
<1>3. who \in problem.demands /\ problem.floor[who] \in Nat /\ granted[who] \in Nat
  BY <1>2, PathFacts, NetFacts
<1>4. LoopTypes'
  <2>1. need' \in Int
    BY <1>1, <1>3 DEF Inv, LoopTypes
  <2>2. hops' \subseteq problem.resources
    <3>1. preferred # <<>> => problem.through[Head(preferred)] \subseteq problem.resources
      BY <1>2, ProblemFacts DEF Inv, LoopTypes
    <3>2. QED
      BY <3>1 DEF Inv, LoopTypes, RepairRound, RepairEnd, repairing
  <2>3. QED
    BY <1>1, <2>1, <2>2, SameProblem DEF Inv, LoopTypes, visiting
<1>5. LoopsOK'
  BY <1>1, SameProblem DEF Inv, LoopsOK, visiting, Busy
<1>6. MovesOK'
  BY <1>1 DEF MovesOK
<1>7. QED
  BY <1>1, <1>4, <1>5, <1>6, QuietStep

LEMMA ScanPathStep == ASSUME Inv, ScanPath PROVE Inv' /\ Keeps
<1>1. /\ pc = "scan" /\ UNCHANGED <<problem, ceilings, visiting, load>> /\ problem' = problem
      /\ preferred' = preferred /\ deficit' = deficit /\ who' = who /\ phase' = phase
      /\ queue' = queue /\ granted' = granted
  BY DEF ScanPath, visiting, load
<1>2. who \in Served /\ problem \in Problems /\ Elements(preferred) \subseteq EligibleFor(who)
      /\ phase = "minimum" /\ who \in problem.demands
      /\ preferred \in Seq(problem.paths) /\ todo \in Seq(problem.paths) /\ need \in Int
  BY <1>1, PathFacts DEF Inv, TypeOK, LoopTypes, LoopsOK, Busy
<1>3. problem.floor[who] \in Nat /\ granted[who] \in Nat
  BY <1>2, PathFacts, NetFacts
<1>4. CASE Placing(who, preferred, problem.floor[who] - granted[who]) /\ UNCHANGED hops
  <2>1. problem.floor[who] - granted[who] \in Int
    BY <1>3
  <2>2. /\ pc' = "place" /\ todo' = preferred /\ need' \in Int
        /\ need' <= problem.maximum[who] - granted[who]
    BY <1>1, <1>2, <1>4, <2>1, PlacingFacts
  <2>3. LoopTypes'
    BY <1>1, <1>2, <1>4, <2>2, SameProblem DEF Inv, LoopTypes
  <2>4. LoopsOK' /\ MovesOK'
    BY <1>1, <1>2, <2>2, SameProblem DEF Inv, LoopsOK, MovesOK, Busy
  <2>5. QED
    BY <1>1, <2>2, <2>3, <2>4, QuietStep
<1>5. CASE /\ Len(todo) > 1 /\ todo' = Tail(todo) /\ UNCHANGED <<pc, need>>
           /\ hops' = problem.through[Head(Tail(todo))]
  <2>1. Tail(todo) \in Seq(problem.paths) /\ Head(Tail(todo)) \in problem.paths
    BY <1>2, <1>5
  <2> USE ProblemFacts
  <2>2. LoopTypes'
    BY <1>1, <1>2, <1>5, <2>1, SameProblem DEF Inv, LoopTypes
  <2>3. LoopsOK' /\ MovesOK'
    BY <1>1, <1>2, <1>5, SameProblem DEF Inv, LoopsOK, MovesOK, Busy
  <2>4. QED
    BY <1>1, <1>5, <2>2, <2>3, QuietStep
<1>6. CASE pc' = "visit" /\ UNCHANGED <<todo, need, hops>>
  <2>1. LoopTypes'
    BY <1>1, <1>2, <1>6, SameProblem DEF Inv, LoopTypes
  <2>2. LoopsOK' /\ MovesOK'
    BY <1>6 DEF LoopsOK, MovesOK, Busy
  <2>3. QED
    BY <1>1, <1>6, <2>1, <2>2, QuietStep
<1>7. QED
  BY <1>4, <1>5, <1>6 DEF ScanPath

LEMMA HopFacts ==
    ASSUME Inv, hops # {}
    PROVE  Hop \in hops /\ Headroom(Hop) \in Int
<1>1. hops \in SUBSET Nat /\ hops \subseteq problem.resources /\ problem \in Problems
  BY ProblemFacts DEF Inv, TypeOK, LoopTypes
<1>2. \E m \in hops : \A k \in hops : m <= k
  BY <1>1, LeastElement
<1>3. Hop \in hops
  BY <1>2 DEF Hop
<1>4. ceiling \in Nat /\ allocated[Hop] \in Nat
  BY <1>1, <1>3, InvLoad DEF LoadOK
<1>5. recompute_ceiling(Hop, ceiling) \in Nat
  BY <1>1, <1>3, <1>4, CeilingFacts
<1>6. QED
  BY <1>3, <1>4, <1>5 DEF Headroom

LEMMA ScanHopStep == ASSUME Inv, ScanHop PROVE Inv' /\ Keeps
<1>1. /\ pc = "scan" /\ UNCHANGED <<problem, ceilings, visiting, placing, load>> /\ problem' = problem
      /\ shares' = shares /\ hops # {} /\ phase' = phase
  BY DEF ScanHop, load, visiting
<1>2. /\ who \in Served /\ problem \in Problems /\ phase = "minimum" /\ need \in Int
      /\ deficit \in Int /\ hops \subseteq problem.resources
      /\ shares \in [problem.demands -> [problem.paths -> Nat]]
  BY <1>1 DEF Inv, TypeOK, LoopTypes, LoopsOK, Busy
<1>3. CASE UNCHANGED <<pc, movers, deficit>> /\ hops' = {}
  <2>1. LoopTypes' /\ LoopsOK' /\ MovesOK'
    BY <1>1, <1>3, SameProblem DEF Inv, LoopTypes, LoopsOK, MovesOK, visiting, placing, Busy
  <2>2. QED
    BY <1>1, <1>3, <2>1, QuietStep
<1>4. CASE /\ movers' = MoversOn(Hop) /\ deficit' = need - Headroom(Hop) /\ pc' = "movers"
           /\ hops' = hops
  <2>1. LoopTypes'
    <3>1. deficit' \in Int
      BY <1>1, <1>2, <1>4, HopFacts
    <3>2. QED
      BY <1>1, <1>4, <3>1, SameProblem DEF Inv, LoopTypes, visiting, placing
  <2>2. LoopsOK'
    BY <1>1, <1>4, SameProblem DEF Inv, LoopsOK, visiting, placing, Busy
  <2>3. ASSUME NEW m \in MoversOn(Hop) PROVE MoverOK(m)'
    <3>1. PICK pair \in problem.demands \X problem.paths :
            /\ m = [demand |-> pair[1], path |-> pair[2], granted |-> shares[pair[1]][pair[2]]]
            /\ shares[pair[1]][pair[2]] > 0
      BY DEF MoversOn
    <3>2. pair[1] \in problem.demands /\ pair[2] \in problem.paths
      BY <3>1
    <3>3. pair[1] \in Served
      BY <3>1, <3>2 DEF Inv, EligibleOK
    <3>4. QED
      BY <1>1, <1>2, <3>1, <3>2, <3>3, SameProblem DEF MoverOK
  <2>4. ASSUME NEW m \in MoversOn(Hop), NEW n \in MoversOn(Hop), m.demand = n.demand, m.path = n.path
        PROVE  m = n
    BY <2>4 DEF MoversOn
  <2>5. MovesOK'
    BY <1>4, <2>3, <2>4 DEF MovesOK
  <2>6. QED
    BY <1>1, <1>4, <2>1, <2>2, <2>5, QuietStep
<1>5. QED
  BY <1>3, <1>4 DEF ScanHop

LEMMA NextMoverStep == ASSUME Inv, NextMover PROVE Inv' /\ Keeps
<1>1. PICK m \in movers :
        /\ movers' = movers \ {m}
        /\ moving' = [demand |-> m.demand, from |-> m.path, targets |-> problem.eligible[m.demand],
                      wanted |-> Wanted(m), moved |-> 0]
  BY DEF NextMover
<1>2. /\ pc = "movers" /\ pc' = "move" /\ deficit > 0
      /\ UNCHANGED <<problem, ceilings, visiting, placing, load>> /\ problem' = problem
      /\ shares' = shares /\ phase' = phase /\ deficit' = deficit /\ hops' = hops
      /\ preferred' = preferred /\ who' = who
  BY DEF NextMover, load, visiting, placing
<1>3. /\ phase = "minimum" /\ problem \in Problems /\ deficit \in Int
      /\ \A n \in movers : MoverOK(n)
      /\ \A n, l \in movers : n.demand = l.demand /\ n.path = l.path => n = l
      /\ who \in Served /\ Elements(preferred) \subseteq EligibleFor(who)
  BY <1>2 DEF Inv, TypeOK, LoopTypes, LoopsOK, MovesOK, Busy
<1>4. /\ m.demand \in Served /\ m.path \in problem.paths
      /\ m.granted \in Nat /\ m.granted <= shares[m.demand][m.path]
  BY <1>3 DEF MoverOK
<1>5. m.demand \in problem.demands /\ shares[m.demand][m.path] \in Nat
  BY <1>3, <1>4, PathFacts DEF Inv, TypeOK
<1>6. Wanted(m) \in Nat /\ Wanted(m) <= shares[m.demand][m.path]
  BY <1>2, <1>3, <1>4, <1>5 DEF Wanted, Smaller
<1>7. problem.eligible[m.demand] \in Seq(problem.paths)
  BY <1>3, <1>5, ProblemFacts
<1>8. LoopTypes'
  BY <1>2, SameProblem DEF Inv, LoopTypes, visiting, placing
<1>9. LoopsOK'
  BY <1>2, <1>3, SameProblem DEF LoopsOK, Busy
<1>10. /\ moving'.demand = m.demand /\ moving'.from = m.path /\ moving'.wanted = Wanted(m)
       /\ moving'.targets = problem.eligible[m.demand] /\ moving'.moved = 0
       /\ moving' = [demand |-> moving'.demand, from |-> moving'.from, targets |-> moving'.targets,
                     wanted |-> moving'.wanted, moved |-> moving'.moved]
  BY <1>1
<1>11. MovesOK'
  <2>1. \A n \in movers' : MoverOK(n)'
    BY <1>1, <1>2, <1>3, SameProblem DEF MoverOK
  <2>2. \A n \in movers' : ~(n.demand = moving'.demand /\ n.path = moving'.from)
    BY <1>1, <1>3, <1>10
  <2>3. Elements(moving'.targets) \subseteq EligibleFor(moving'.demand)
    BY <1>10 DEF EligibleFor
  <2>4. moving'.wanted \in Nat /\ moving'.moved \in Nat /\ moving'.moved <= moving'.wanted
    BY <1>6, <1>10
  <2>5. \A n, l \in movers' : n.demand = l.demand /\ n.path = l.path => n = l
    BY <1>1, <1>3
  <2>6. moving'.wanted <= shares'[moving'.demand][moving'.from]
    BY <1>2, <1>6, <1>10
  <2>7. moving'.demand \in Served /\ moving'.from \in problem.paths
        /\ moving'.targets \in Seq(problem.paths)
    BY <1>4, <1>7, <1>10
  <2>8. QED
    BY <1>2, <1>10, <2>1, <2>2, <2>3, <2>4, <2>5, <2>6, <2>7, SameProblem DEF MovesOK
<1>12. QED
  BY <1>2, <1>8, <1>9, <1>10, <1>11, QuietStep

LEMMA MoversEndStep == ASSUME Inv, MoversEnd PROVE Inv' /\ Keeps
<1>1. /\ pc = "movers" /\ pc' = "scan" /\ hops' = hops \ {Hop}
      /\ UNCHANGED <<problem, ceilings, visiting, placing, load>> /\ problem' = problem
      /\ deficit' = deficit
  BY DEF MoversEnd
<1>2. LoopTypes'
  BY <1>1, SameProblem DEF Inv, LoopTypes, visiting, placing
<1>3. LoopsOK' /\ MovesOK'
  BY <1>1, SameProblem DEF Inv, LoopsOK, MovesOK, visiting, placing, Busy
<1>4. QED
  BY <1>1, <1>2, <1>3, QuietStep

\* What is known in a move.
LEMMA MoveFacts ==
    ASSUME Inv, pc = "move"
    PROVE  /\ moving = [demand |-> moving.demand, from |-> moving.from, targets |-> moving.targets,
                        wanted |-> moving.wanted, moved |-> moving.moved]
           /\ moving.demand \in Served /\ moving.from \in problem.paths
           /\ moving.targets \in Seq(problem.paths)
           /\ Elements(moving.targets) \subseteq EligibleFor(moving.demand)
           /\ moving.wanted \in Nat /\ moving.moved \in Nat
           /\ moving.moved <= moving.wanted
           /\ moving.wanted <= shares[moving.demand][moving.from]
           /\ moving.demand \in problem.demands /\ problem \in Problems
           /\ phase \in {"minimum", "consolidate"}
           /\ phase = "minimum" =>
                 /\ \A m \in movers : MoverOK(m)
                 /\ \A m \in movers : ~(m.demand = moving.demand /\ m.path = moving.from)
                 /\ \A m, n \in movers : m.demand = n.demand /\ m.path = n.path => m = n
<1>1. problem \in Problems /\ MovesOK /\ LoopsOK
  BY DEF Inv, TypeOK
<1>2. moving.demand \in Served
  BY <1>1 DEF MovesOK
<1>3. moving.demand \in problem.demands
  BY <1>1, <1>2, PathFacts
<1>4. QED
  BY <1>1, <1>3 DEF MovesOK, LoopsOK

LEMMA MoveSkipStep == ASSUME Inv, MoveSkip PROVE Inv' /\ Keeps
<1>1. /\ pc = "move" /\ pc' = pc /\ moving.targets # <<>>
      /\ moving' = [moving EXCEPT !.targets = Tail(moving.targets)]
      /\ UNCHANGED <<problem, ceilings, visiting, placing, repairing, load>> /\ problem' = problem
      /\ phase' = phase /\ shares' = shares /\ granted' = granted /\ movers' = movers
  BY DEF MoveSkip, MoreTargets, load, visiting, repairing
<1>2. /\ moving'.demand = moving.demand /\ moving'.from = moving.from
      /\ moving'.wanted = moving.wanted /\ moving'.moved = moving.moved
      /\ moving'.targets = Tail(moving.targets)
      /\ moving' = [demand |-> moving'.demand, from |-> moving'.from, targets |-> moving'.targets,
                    wanted |-> moving'.wanted, moved |-> moving'.moved]
  BY <1>1, MoveFacts
<1>3. /\ Tail(moving.targets) \in Seq(problem.paths)
      /\ Elements(Tail(moving.targets)) \subseteq EligibleFor(moving.demand)
  BY <1>1, MoveFacts, TailFacts
<1>4. MovesOK'
  <2>1. phase = "minimum" => \A m \in movers : MoverOK(m)'
    BY <1>1, MoveFacts, SameProblem DEF MoverOK
  <2>2. QED
    BY <1>1, <1>2, <1>3, <2>1, MoveFacts, SameProblem DEF MovesOK
<1>5. LoopTypes' /\ LoopsOK'
  BY <1>1, SameProblem DEF Inv, LoopTypes, LoopsOK, visiting, placing, repairing, Busy
<1>6. SearchOK'
  BY <1>1 DEF Inv, SearchOK, ceilings
<1>7. \A d \in problem.demands : Net(d)' = Net(d)
  BY <1>1, <1>2 DEF Net
<1>8. BoundsOK' /\ Keeps
  <2>1. \A d \in problem.demands : Net(d) \in Int /\ Net(d) <= problem.maximum[d]
    BY NetFacts
  <2>2. QED
    BY <1>1, <1>7, <2>1 DEF BoundsOK, Keeps
<1>9. LoadOK'
  BY <1>1, InvLoad, SameLoad DEF ceilings
<1>10. QED
  BY <1>4, <1>5, <1>6, <1>8, <1>9, NextLoadInv

LEMMA MoveOntoStep == ASSUME Inv, MoveOnto PROVE Inv' /\ Keeps
<1> DEFINE d == moving.demand
           p == Onto
<1>1. PICK take \in Takes(p, moving.wanted - moving.moved) :
        /\ grant(d, p, take)
        /\ moving' = [moving EXCEPT !.targets = Tail(moving.targets), !.moved = moving.moved + take]
  BY DEF MoveOnto
<1>2. /\ pc = "move" /\ pc' = pc /\ moving.targets # <<>>
      /\ UNCHANGED <<problem, ceilings, visiting, placing, repairing>> /\ problem' = problem
      /\ ceiling' = ceiling /\ phase' = phase /\ movers' = movers
  BY DEF MoveOnto, MoreTargets, visiting, repairing, ceilings
<1>3. take \in Nat /\ take <= moving.wanted - moving.moved /\ Fits(p, take)
  BY <1>2, MoveFacts DEF Takes
<1>4. /\ moving'.demand = d /\ moving'.from = moving.from
      /\ moving'.wanted = moving.wanted /\ moving'.moved = moving.moved + take
      /\ moving'.targets = Tail(moving.targets)
      /\ moving' = [demand |-> moving'.demand, from |-> moving'.from, targets |-> moving'.targets,
                    wanted |-> moving'.wanted, moved |-> moving'.moved]
  BY <1>1, <1>2, MoveFacts
<1>5. /\ p \in EligibleFor(d) /\ Tail(moving.targets) \in Seq(problem.paths)
      /\ Elements(Tail(moving.targets)) \subseteq EligibleFor(d)
  BY <1>2, MoveFacts, TailFacts DEF Onto
<1>6. d \in Served /\ d \in problem.demands /\ moving.from \in problem.paths
  BY <1>2, MoveFacts
<1> HIDE DEF d, p
<1>7. /\ LoadOK' /\ granted'[d] = granted[d] + take
      /\ \A e \in problem.demands : e # d => granted'[e] = granted[e]
      /\ \A e \in problem.demands : \A q \in problem.paths : shares'[e][q] >= shares[e][q]
  BY <1>1, <1>2, <1>3, <1>5, <1>6, InvLoad, GrantLoad
<1>8. /\ shares \in [problem.demands -> [problem.paths -> Nat]]
      /\ shares' \in [problem.demands -> [problem.paths -> Nat]]
  BY <1>2, <1>7 DEF Inv, TypeOK, LoadOK
<1>9. MovesOK'
  <2>1. ASSUME phase = "minimum", NEW m \in movers PROVE MoverOK(m)'
    <3>1. MoverOK(m)
      BY <1>2, <2>1, MoveFacts
    <3>2. m.demand \in problem.demands
      BY <1>2, <3>1, MoveFacts, PathFacts DEF MoverOK
    <3>3. /\ shares'[m.demand][m.path] >= shares[m.demand][m.path]
          /\ shares[m.demand][m.path] \in Nat /\ shares'[m.demand][m.path] \in Nat
      BY <1>7, <1>8, <3>1, <3>2 DEF MoverOK
    <3>4. QED
      BY <1>2, <3>1, <3>3, SameProblem DEF MoverOK
  <2>2. /\ moving'.wanted <= shares'[moving'.demand][moving'.from]
        /\ moving'.wanted \in Nat /\ moving'.moved \in Nat /\ moving'.moved <= moving'.wanted
    <3>1. /\ moving.wanted \in Nat /\ moving.moved \in Nat /\ moving.wanted <= shares[d][moving.from]
      BY <1>2, MoveFacts DEF d
    <3>2. shares'[d][moving.from] >= shares[d][moving.from]
          /\ shares[d][moving.from] \in Nat /\ shares'[d][moving.from] \in Nat
      BY <1>6, <1>7, <1>8
    <3>3. QED
      BY <1>3, <1>4, <3>1, <3>2
  <2>3. QED
    BY <1>2, <1>4, <1>5, <1>6, <2>1, <2>2, MoveFacts, SameProblem DEF MovesOK, d
<1>10. LoopTypes' /\ LoopsOK'
  BY <1>2, SameProblem DEF Inv, LoopTypes, LoopsOK, visiting, placing, repairing, Busy
<1>11. SearchOK'
  BY <1>2 DEF Inv, SearchOK, ceilings
<1>12. ASSUME NEW e \in problem.demands PROVE Net(e)' = Net(e)
  <2>1. /\ Net(e) = IF e = d THEN granted[e] - moving.moved ELSE granted[e]
        /\ granted[e] \in Nat /\ moving.moved \in Nat
    BY <1>2, NetFacts, MoveFacts DEF d
  <2>2. Net(e)' = IF e = d THEN granted'[e] - (moving.moved + take) ELSE granted'[e]
    BY <1>2, <1>4 DEF Net
  <2>3. CASE e = d
    BY <1>3, <1>7, <2>1, <2>2, <2>3
  <2>4. CASE e # d
    BY <1>7, <2>1, <2>2, <2>4
  <2>5. QED
    BY <2>3, <2>4
<1>13. BoundsOK' /\ Keeps
  <2>1. \A e \in problem.demands : Net(e) \in Int /\ Net(e) <= problem.maximum[e]
    BY NetFacts
  <2>2. QED
    BY <1>2, <1>12, <2>1 DEF BoundsOK, Keeps
<1>14. QED
  BY <1>7, <1>9, <1>10, <1>11, <1>13, NextLoadInv

LEMMA MoveEndStep == ASSUME Inv, MoveEnd PROVE Inv' /\ Keeps
<1> DEFINE d == moving.demand
           p == moving.from
<1>1. /\ pc = "move" /\ revoke(d, p, moving.moved)
      /\ UNCHANGED <<problem, ceilings, visiting, placing>> /\ problem' = problem
      /\ ceiling' = ceiling /\ phase' = phase /\ movers' = movers /\ hops' = hops
      /\ deficit' \in {deficit, deficit - moving.moved}
      /\ pc' = IF phase = "minimum" THEN "movers" ELSE "sources"
  BY DEF MoveEnd, visiting, ceilings
<1>2. /\ d \in problem.demands /\ p \in problem.paths /\ moving.moved \in Nat
      /\ shares[d][p] \in Nat /\ moving.moved <= shares[d][p]
      /\ phase \in {"minimum", "consolidate"} /\ problem \in Problems
  <2>1. /\ d \in problem.demands /\ p \in problem.paths /\ moving.moved \in Nat
        /\ moving.wanted \in Nat /\ moving.moved <= moving.wanted /\ moving.wanted <= shares[d][p]
        /\ phase \in {"minimum", "consolidate"} /\ problem \in Problems
    BY <1>1, MoveFacts
  <2>2. shares[d][p] \in Nat
    BY <2>1 DEF Inv, TypeOK
  <2>3. QED
    BY <2>1, <2>2
<1> HIDE DEF d, p
<1>3. /\ LoadOK' /\ granted'[d] = granted[d] - moving.moved
      /\ \A e \in problem.demands : e # d => granted'[e] = granted[e]
      /\ \A e \in problem.demands : \A q \in problem.paths :
            e # d \/ q # p => shares'[e][q] = shares[e][q]
  BY <1>1, <1>2, InvLoad, RevokeLoad
<1>4. MovesOK'
  <2>1. ASSUME phase = "minimum", NEW m \in movers PROVE MoverOK(m)'
    <3>1. MoverOK(m) /\ ~(m.demand = d /\ m.path = p)
      BY <1>1, <2>1, MoveFacts DEF d, p
    <3>2. m.demand \in problem.demands /\ m.path \in problem.paths
      BY <1>1, <3>1, MoveFacts, PathFacts DEF MoverOK
    <3>3. shares'[m.demand][m.path] = shares[m.demand][m.path]
      BY <1>3, <3>1, <3>2
    <3>4. QED
      BY <1>1, <3>1, <3>3, SameProblem DEF MoverOK
  <2>2. pc' # "move" /\ (pc' = "movers" => phase = "minimum")
    BY <1>1
  <2>3. \A m, n \in movers : phase = "minimum" => (m.demand = n.demand /\ m.path = n.path => m = n)
    BY <1>1, MoveFacts
  <2>4. QED
    BY <1>1, <2>1, <2>2, <2>3 DEF MovesOK
<1>5. LoopTypes'
  <2>1. deficit' \in Int
    BY <1>1, <1>2 DEF Inv, LoopTypes
  <2>2. QED
    BY <1>1, <2>1, SameProblem DEF Inv, LoopTypes, visiting, placing
<1>6. LoopsOK'
  BY <1>1, <1>2, SameProblem DEF Inv, LoopsOK, visiting, placing, Busy
<1>7. SearchOK'
  BY <1>1 DEF Inv, SearchOK, ceilings
<1>8. ASSUME NEW e \in problem.demands PROVE Net(e)' = Net(e)
  <2>1. Net(e) = IF e = d THEN granted[e] - moving.moved ELSE granted[e]
    BY <1>1, NetFacts DEF d
  <2>2. Net(e)' = granted'[e]
    BY <1>1 DEF Net
  <2>3. QED
    BY <1>3, <2>1, <2>2
<1>9. BoundsOK' /\ Keeps
  <2>1. \A e \in problem.demands : Net(e) \in Int /\ Net(e) <= problem.maximum[e]
    BY NetFacts
  <2>2. pc' # "place"
    BY <1>1
  <2>3. QED
    BY <1>1, <1>8, <2>1, <2>2 DEF BoundsOK, Keeps
<1>10. QED
  BY <1>3, <1>4, <1>5, <1>6, <1>7, <1>9, NextLoadInv

LEMMA VisitFillStep == ASSUME Inv, VisitFill PROVE Inv' /\ Keeps
<1>1. PICK d \in queue :
        /\ queue' = queue \ {d}
        /\ \/ UNCHANGED <<pc, who, placing>>
           \/ /\ ~Excluded(d) /\ who' = d
              /\ \E q \in order_paths(d) : preferred' = q /\ Placing(d, q, Target(d) - granted[d])
  BY DEF VisitFill
<1>2. /\ phase = "fill" /\ pc = "visit" /\ phase' = phase /\ deficit' = deficit /\ hops' = hops
      /\ UNCHANGED <<problem, ceilings, load>> /\ problem' = problem /\ granted' = granted
  BY DEF VisitFill, load, repairing
<1>3. d \in Active /\ d \in problem.demands /\ queue' \subseteq Active /\ problem \in Problems
  BY <1>1 DEF Inv, TypeOK, LoopTypes, Active
<1>4. CASE UNCHANGED <<pc, who, placing>>
  <2>1. LoopTypes'
    BY <1>2, <1>3, <1>4, SameProblem DEF Inv, LoopTypes, placing
  <2>2. pc' = "visit"
    BY <1>2, <1>4
  <2>3. LoopsOK' /\ MovesOK'
    BY <2>2 DEF LoopsOK, MovesOK, Busy
  <2>4. QED
    BY <1>2, <2>1, <2>2, <2>3, QuietStep
<1>5. CASE /\ ~Excluded(d) /\ who' = d
           /\ \E q \in order_paths(d) : preferred' = q /\ Placing(d, q, Target(d) - granted[d])
  <2>1. PICK q \in order_paths(d) : preferred' = q /\ Placing(d, q, Target(d) - granted[d])
    BY <1>5
  <2>2. q \in Seq(problem.paths) /\ Elements(q) \subseteq EligibleFor(d)
    BY <1>3, OrderFacts
  <2>3. Target(d) - granted[d] \in Int
    BY <1>3, ProblemFacts, NetFacts DEF Target, Smaller
  <2>4. pc' = "place" /\ todo' = q /\ need' \in Int /\ need' <= problem.maximum[d] - granted[d]
    BY <1>2, <1>3, <2>1, <2>3, PlacingFacts
  <2>5. LoopTypes'
    BY <1>2, <1>3, <2>1, <2>2, <2>4, SameProblem DEF Inv, LoopTypes
  <2>6. d \in Served
    BY <1>3, <1>5 DEF Served
  <2>7. LoopsOK' /\ MovesOK'
    BY <1>2, <1>5, <2>1, <2>2, <2>4, <2>6, SameProblem DEF LoopsOK, MovesOK, Busy
  <2>8. QED
    BY <1>2, <1>5, <2>4, <2>5, <2>7, QuietStep
<1>6. QED
  BY <1>1, <1>4, <1>5

LEMMA VisitConsolidateStep == ASSUME Inv, VisitConsolidate PROVE Inv' /\ Keeps
<1>1. PICK d \in queue :
        /\ queue' = queue \ {d}
        /\ \E q \in order_paths(d) :
              \/ ~Excluded(d) /\ who' = d /\ preferred' = q /\ todo' = q /\ pc' = "sources"
              \/ UNCHANGED <<pc, who, preferred, todo>>
  BY DEF VisitConsolidate
<1>2. /\ phase = "consolidate" /\ pc = "visit" /\ phase' = phase /\ deficit' = deficit
      /\ hops' = hops /\ need' = need
      /\ UNCHANGED <<problem, ceilings, load>> /\ problem' = problem
  BY DEF VisitConsolidate, repairing
<1>3. d \in Active /\ d \in problem.demands /\ queue' \subseteq Active /\ problem \in Problems
  BY <1>1 DEF Inv, TypeOK, LoopTypes, Active
<1>4. CASE UNCHANGED <<pc, who, preferred, todo>>
  <2>1. LoopTypes'
    BY <1>2, <1>3, <1>4, SameProblem DEF Inv, LoopTypes
  <2>2. pc' = "visit"
    BY <1>2, <1>4
  <2>3. LoopsOK' /\ MovesOK'
    BY <2>2 DEF LoopsOK, MovesOK, Busy
  <2>4. QED
    BY <1>2, <2>1, <2>2, <2>3, QuietStep
<1>5. ASSUME NEW q \in order_paths(d), ~Excluded(d), who' = d, preferred' = q, todo' = q,
             pc' = "sources"
      PROVE  Inv' /\ Keeps
  <2>1. q \in Seq(problem.paths) /\ Elements(q) \subseteq EligibleFor(d)
    BY <1>3, OrderFacts
  <2>2. LoopTypes'
    BY <1>2, <1>3, <1>5, <2>1, SameProblem DEF Inv, LoopTypes
  <2>3. d \in Served
    BY <1>3, <1>5 DEF Served
  <2>4. LoopsOK' /\ MovesOK'
    BY <1>2, <1>5, <2>1, <2>3, SameProblem DEF LoopsOK, MovesOK, Busy
  <2>5. QED
    BY <1>2, <1>5, <2>2, <2>4, QuietStep
<1>6. QED
  BY <1>1, <1>4, <1>5

LEMMA ConsolidateFromStep == ASSUME Inv, ConsolidateFrom PROVE Inv' /\ Keeps
<1> DEFINE from == todo[Len(todo)]
<1>1. /\ pc = "sources" /\ todo # <<>> /\ todo' = SubSeq(todo, 1, Len(todo) - 1)
      /\ UNCHANGED <<problem, ceilings, visiting, preferred, need, repairing, load>>
      /\ problem' = problem /\ shares' = shares /\ phase' = phase /\ who' = who
      /\ preferred' = preferred
      /\ \/ UNCHANGED <<pc, moving>>
         \/ /\ moving' = [demand |-> who, from |-> from, targets |-> preferred,
                          wanted |-> shares[who][from], moved |-> 0]
            /\ pc' = "move"
  BY DEF ConsolidateFrom, visiting, load
<1>2. /\ phase = "consolidate" /\ who \in Served /\ problem \in Problems
      /\ Elements(preferred) \subseteq EligibleFor(who) /\ Elements(todo) \subseteq EligibleFor(who)
      /\ todo \in Seq(problem.paths) /\ preferred \in Seq(problem.paths)
  BY <1>1 DEF Inv, TypeOK, LoopTypes, LoopsOK, Busy
<1>3. /\ todo' \in Seq(problem.paths) /\ Elements(todo') \subseteq EligibleFor(who)
      /\ from \in EligibleFor(who)
  BY <1>1, <1>2, TailFacts
<1>4. who \in problem.demands /\ from \in problem.paths /\ shares[who][from] \in Nat
  BY <1>2, <1>3, PathFacts DEF Inv, TypeOK
<1>5. LoopTypes'
  BY <1>1, <1>3, SameProblem DEF Inv, LoopTypes, visiting, repairing
<1>6. pc' \in {"sources", "move"}
  BY <1>1
<1>7. LoopsOK'
  BY <1>1, <1>2, <1>3, <1>6, SameProblem DEF LoopsOK, Busy
<1> HIDE DEF from
<1>8. CASE UNCHANGED <<pc, moving>>
  <2>1. MovesOK'
    BY <1>1, <1>8 DEF MovesOK
  <2>2. QED
    BY <1>1, <1>5, <1>7, <1>8, <2>1, QuietStep
<1>9. CASE /\ moving' = [demand |-> who, from |-> from, targets |-> preferred,
                         wanted |-> shares[who][from], moved |-> 0]
           /\ pc' = "move"
  <2>1. /\ moving'.demand = who /\ moving'.from = from /\ moving'.wanted = shares[who][from]
        /\ moving'.targets = preferred /\ moving'.moved = 0
        /\ moving' = [demand |-> moving'.demand, from |-> moving'.from, targets |-> moving'.targets,
                      wanted |-> moving'.wanted, moved |-> moving'.moved]
    BY <1>9
  <2>2. MovesOK'
    BY <1>1, <1>2, <1>4, <1>9, <2>1, SameProblem DEF MovesOK
  <2>3. QED
    BY <1>1, <1>5, <1>7, <1>9, <2>1, <2>2, QuietStep
<1>10. QED
  BY <1>1, <1>8, <1>9

\* The steps that leave a loop for a place where nothing is in progress.
LEMMA IdleStep ==
    ASSUME Inv, UNCHANGED <<problem, ceilings, placing, repairing, load>>,
           pc \notin {"move", "widen", "search", "done"}, pc' \notin {"place", "move", "movers"}, ~Busy', queue' \subseteq Active
    PROVE  Inv' /\ Keeps
<1>1. problem' = problem
  OBVIOUS
<1>2. LoopTypes'
  BY <1>1, SameProblem DEF Inv, LoopTypes, placing, repairing
<1>3. LoopsOK' /\ MovesOK'
  BY DEF LoopsOK, MovesOK, Busy
<1>4. QED
  BY <1>2, <1>3, QuietStep

LEMMA EndStep == ASSUME Inv, FillEnd \/ ConsolidateEnd \/ Conclude PROVE Inv' /\ Keeps
<1>1. /\ UNCHANGED <<problem, ceilings, placing, repairing, load>>
      /\ pc \in {"visit", "sources", "conclude"} /\ pc' \in {"visit", "conclude", "done"}
      /\ queue' \in {queue, Active}
  BY DEF FillEnd, ConsolidateEnd, Conclude, Phase, Return, visiting
<1>2. ~Busy' /\ queue' \subseteq Active
  BY <1>1 DEF Busy, Inv, LoopTypes
<1>3. QED
  BY <1>1, <1>2, IdleStep

LEMMA MiddleFacts ==
    ASSUME NEW low \in Nat \ {0}, NEW high \in Nat, low <= high
    PROVE  low + (high - low) \div 2 \in low .. high
<1> DEFINE w == high - low
<1>1. w \in Nat
  OBVIOUS
<1>2. w \div 2 \in 0 .. w
  <2> HIDE DEF w
  <2>1. QED
    BY <1>1
<1>3. QED
  BY <1>2

\* A probe keeps the interval between 1 and the policy's ceiling.
LEMMA ProbeFacts ==
    ASSUME Inv, search.low <= search.high, NEW success \in BOOLEAN, search' = Probed(success)
    PROVE  /\ search'.low \in Nat \ {0} /\ search'.high \in 0 .. problem.policy_ceiling
           /\ search'.best \in 0 .. problem.policy_ceiling /\ search'.probes \in Nat
           /\ search' = [low |-> search'.low, high |-> search'.high, best |-> search'.best,
                         probes |-> search'.probes]
           /\ Middle \in search.low .. search.high
           /\ search'.probes = search.probes + 1
           /\ success => search'.best = Middle /\ search'.high = Middle - 1 /\ search'.low = search.low
           /\ ~success => /\ search'.best = search.best /\ search'.high = search.high
                          /\ search'.low = Middle + 1
<1>1. problem.policy_ceiling \in 1 .. 1000
  BY ProblemFacts DEF Inv, TypeOK
<1>2. /\ search.low \in Nat \ {0} /\ search.high \in 0 .. problem.policy_ceiling
      /\ search.best \in 0 .. problem.policy_ceiling /\ search.probes \in Nat
      /\ search = [low |-> search.low, high |-> search.high, best |-> search.best,
                   probes |-> search.probes]
  BY DEF Inv, SearchOK
<1>3. search.high \in Nat
  BY <1>1, <1>2
<1>4. Middle \in search.low .. search.high
  BY <1>2, <1>3, MiddleFacts DEF Middle
<1>5. CASE success
  <2>1. search' = [low |-> search.low, high |-> Middle - 1, best |-> Middle,
                   probes |-> search.probes + 1]
    BY <1>2, <1>5 DEF Probed
  <2>2. Middle \in 0 .. problem.policy_ceiling /\ Middle - 1 \in 0 .. problem.policy_ceiling
    BY <1>1, <1>2, <1>4, SMTT(30)
  <2>3. search.probes + 1 \in Nat
    BY <1>2
  <2>4. /\ search'.low = search.low /\ search'.high = Middle - 1 /\ search'.best = Middle
        /\ search'.probes = search.probes + 1
    BY <2>1
  <2>5. search' = [low |-> search'.low, high |-> search'.high, best |-> search'.best,
                   probes |-> search'.probes]
    BY <2>1
  <2>6. QED
    BY <1>2, <1>4, <1>5, <2>2, <2>3, <2>4, <2>5
<1>6. CASE ~success
  <2>1. search' = [low |-> Middle + 1, high |-> search.high, best |-> search.best,
                   probes |-> search.probes + 1]
    BY <1>2, <1>6 DEF Probed
  <2>2. QED
    BY <1>1, <1>2, <1>3, <1>4, <1>6, <2>1
<1>7. QED
  BY <1>5, <1>6

\* A step of a search, between constructions.
LEMMA SearchStep ==
    ASSUME Inv, UNCHANGED <<problem, ceiling, run, placing, repairing, load>>,
           pc # "move", pc' \notin {"place", "move", "movers"}, ~Busy',
           queue' \subseteq Active, SearchOK'
    PROVE  Inv' /\ Keeps
<1>1. problem' = problem
  OBVIOUS
<1>2. LoopTypes'
  BY <1>1, SameProblem DEF Inv, LoopTypes, placing, repairing
<1>3. LoopsOK' /\ MovesOK'
  BY DEF LoopsOK, MovesOK, Busy
<1>4. LoadOK'
  BY InvLoad, SameLoad
<1>5. BoundsOK' /\ Keeps
  BY QuietNet DEF BoundsOK
<1>6. QED
  BY <1>2, <1>3, <1>4, <1>5, NextLoadInv

LEMMA SearchProbeStep == ASSUME Inv, SearchProbe PROVE Inv' /\ Keeps
<1>1. /\ pc = "search" /\ pc' = pc /\ search.low <= search.high
      /\ search' = Probed(RelaxedFeasible(Middle))
      /\ UNCHANGED <<problem, ceiling, run, placing, repairing, load>> /\ queue' = queue
      /\ problem' = problem /\ ceiling' = ceiling /\ run' = run
  BY DEF SearchProbe, Searching, visiting
<1>2. PICK success \in BOOLEAN : search' = Probed(success)
  BY <1>1 DEF RelaxedFeasible
<1>3. SearchOK'
  BY <1>1, <1>2, ProbeFacts DEF Inv, SearchOK
<1>4. ~Busy' /\ queue' \subseteq Active
  BY <1>1 DEF Busy, Inv, LoopTypes
<1>5. QED
  BY <1>1, <1>3, <1>4, SearchStep

LEMMA MinimumsEndStep == ASSUME Inv, MinimumsEnd PROVE Inv' /\ Keeps
<1>1. /\ phase = "minimum" /\ pc = "visit"
      /\ UNCHANGED <<problem, ceiling, run, placing, repairing, load>>
      /\ problem' = problem /\ ceiling' = ceiling /\ run' = run
      /\ queue' \in {queue, Active} /\ pc' \in {"widen", "visit"}
  BY DEF MinimumsEnd, Phase, visiting
<1>2. ~Busy' /\ queue' \subseteq Active
  BY <1>1 DEF Busy, Inv, LoopTypes
<1>3. problem.policy_ceiling \in 1 .. 1000 /\ ceiling \in 1 .. problem.policy_ceiling
  BY ProblemFacts DEF Inv, TypeOK, SearchOK
<1>4. CASE /\ search' = [low |-> ceiling + 1, high |-> problem.policy_ceiling, best |-> 0,
                         probes |-> 0]
           /\ pc' = "widen"
  <2>1. /\ search'.low = ceiling + 1 /\ search'.high = problem.policy_ceiling
        /\ search'.best = 0 /\ search'.probes = 0
        /\ search' = [low |-> search'.low, high |-> search'.high, best |-> search'.best,
                      probes |-> search'.probes]
    BY <1>4
  <2>2. SearchOK'
    BY <1>1, <1>3, <1>4, <2>1 DEF SearchOK
  <2>3. QED
    BY <1>1, <1>2, <2>2, SearchStep
<1>5. CASE run = "trial" /\ search' = Probed(Unmet = {}) /\ pc' = "widen"
  <2>1. search.low <= search.high
    BY <1>1, <1>5 DEF Inv, SearchOK
  <2>2. PICK success \in BOOLEAN : search' = Probed(success)
    BY <1>5
  <2>3. SearchOK'
    BY <1>1, <1>3, <1>5, <2>1, <2>2, ProbeFacts DEF SearchOK
  <2>4. QED
    BY <1>1, <1>2, <2>3, SearchStep
<1>6. CASE (run = "final" \/ run = "first") /\ UNCHANGED search
  <2>1. SearchOK'
    BY <1>1, <1>6 DEF Inv, SearchOK
  <2>2. QED
    BY <1>1, <1>2, <2>1, SearchStep
<1>7. QED
  BY <1>4, <1>5, <1>6 DEF MinimumsEnd

\* A new construction, under a ceiling the policy allows.
LEMMA ResetStep ==
    ASSUME Inv, NEW permille \in 1 .. problem.policy_ceiling, NEW which,
           which = "trial" => search.low <= search.high,
           RunMinimums(permille, which), UNCHANGED <<problem, search, placing, repairing>>
    PROVE  Inv' /\ Keeps
<1>1. /\ problem' = problem /\ problem \in Problems /\ ceiling' = permille /\ run' = which
      /\ pc' = "visit" /\ queue' = Active /\ search' = search
      /\ granted' = [d \in problem.demands |-> 0]
  BY DEF RunMinimums, Inv, TypeOK
<1>2. problem.policy_ceiling \in 1 .. 1000
  BY <1>1, ProblemFacts
<1>3. LoadOK'
  <2>1. ceiling' \in Nat
    BY <1>1, <1>2
  <2>2. QED
    BY <1>1, <2>1, ResetLoad DEF RunMinimums
<1>4. SearchOK'
  BY <1>1 DEF Inv, SearchOK
<1>5. LoopTypes'
  BY <1>1, SameProblem DEF Inv, LoopTypes, placing, repairing
<1>6. LoopsOK' /\ MovesOK'
  BY <1>1 DEF LoopsOK, MovesOK, Busy
<1>7. BoundsOK'
  <2>1. \A d \in problem.demands : Net(d)' = 0 /\ problem.maximum[d] \in Nat
    BY <1>1, ProblemFacts DEF Net
  <2>2. QED
    BY <1>1, <2>1 DEF BoundsOK
<1>8. RunMinimums(ceiling', run')
  BY <1>1 DEF RunMinimums
<1>9. QED
  BY <1>3, <1>4, <1>5, <1>6, <1>7, <1>8, NextLoadInv DEF Keeps

LEMMA BeginStep == ASSUME Inv, Begin PROVE Inv' /\ Keeps
<1>1. pc = "begin" /\ UNCHANGED <<problem, placing, repairing>> /\ problem' = problem
  BY DEF Begin
<1>2. problem.policy_ceiling \in 1 .. 1000
  BY ProblemFacts DEF Inv, TypeOK
<1>3. CASE Return("unsupported_objective") /\ UNCHANGED <<ceilings, visiting, load>>
  <2>1. pc' = "done" /\ ~Busy' /\ queue' \subseteq Active
    BY <1>3 DEF Return, Busy, visiting, Inv, LoopTypes
  <2>2. QED
    BY <1>1, <1>3, <2>1, IdleStep
<1>4. CASE /\ pc' = "search" /\ UNCHANGED <<ceiling, run, visiting, load>>
           /\ search' = [low |-> 1, high |-> problem.policy_ceiling, best |-> 0, probes |-> 0]
  <2>1. /\ search'.low = 1 /\ search'.high = problem.policy_ceiling
        /\ search'.best = 0 /\ search'.probes = 0
        /\ search' = [low |-> search'.low, high |-> search'.high, best |-> search'.best,
                      probes |-> search'.probes]
    BY <1>4
  <2>2. SearchOK'
    BY <1>1, <1>2, <1>4, <2>1 DEF Inv, SearchOK
  <2>3. ~Busy' /\ queue' \subseteq Active
    BY <1>4 DEF Busy, visiting, Inv, LoopTypes
  <2>4. QED
    BY <1>1, <1>4, <2>2, <2>3, SearchStep
<1>5. CASE RunMinimums(problem.policy_ceiling, "first") /\ UNCHANGED search
  <2>1. problem.policy_ceiling \in 1 .. problem.policy_ceiling
    BY <1>2
  <2>2. QED
    BY <1>1, <1>5, <2>1, ResetStep
<1>6. QED
  BY <1>3, <1>4, <1>5 DEF Begin

LEMMA SearchEndStep == ASSUME Inv, SearchEnd PROVE Inv' /\ Keeps
<1>1. pc = "search" /\ UNCHANGED <<problem, search, placing, repairing>> /\ problem' = problem
  BY DEF SearchEnd
<1>2. CASE pc' = "done" /\ UNCHANGED <<ceiling, run, visiting, load>>
  <2>1. SearchOK'
    BY <1>1, <1>2 DEF Inv, SearchOK
  <2>2. ~Busy' /\ queue' \subseteq Active
    BY <1>2 DEF Busy, visiting, Inv, LoopTypes
  <2>3. QED
    BY <1>1, <1>2, <2>1, <2>2, SearchStep
<1>3. CASE search.best # 0 /\ RunMinimums(search.best, "first")
  <2>1. search.best \in 1 .. problem.policy_ceiling
    BY <1>3, ProblemFacts DEF Inv, TypeOK, SearchOK
  <2>2. QED
    BY <1>1, <1>3, <2>1, ResetStep
<1>4. QED
  BY <1>2, <1>3 DEF SearchEnd, Return

LEMMA WidenStep == ASSUME Inv, Widen PROVE Inv' /\ Keeps
<1>1. UNCHANGED <<problem, search, placing, repairing>>
  BY DEF Widen
<1>2. problem.policy_ceiling \in 1 .. 1000 /\ SearchOK
  BY ProblemFacts DEF Inv, TypeOK
<1>3. CASE Searching /\ RunMinimums(Middle, "trial")
  <2>1. search.low <= search.high
    BY <1>3 DEF Searching
  <2>2. /\ search.low \in Nat \ {0} /\ search.high \in Nat
        /\ search.high <= problem.policy_ceiling
    BY <1>2 DEF SearchOK
  <2>3. Middle \in search.low .. search.high
    BY <2>1, <2>2, MiddleFacts DEF Middle
  <2>4. Middle \in 1 .. problem.policy_ceiling
    BY <1>2, <2>2, <2>3
  <2>5. QED
    BY <1>1, <1>3, <2>1, <2>4, ResetStep
<1>4. CASE RunMinimums(Chosen, "final")
  <2>1. Chosen \in 1 .. problem.policy_ceiling
    BY <1>2 DEF Chosen, SearchOK
  <2>2. QED
    BY <1>1, <1>4, <2>1, ResetStep
<1>5. QED
  BY <1>3, <1>4 DEF Widen

LEMMA StutterStep == ASSUME Inv, UNCHANGED vars PROVE Inv'
<1>1. /\ problem' = problem /\ pc' = pc /\ search' = search /\ ceiling' = ceiling /\ run' = run
      /\ phase' = phase /\ queue' = queue /\ who' = who /\ preferred' = preferred /\ todo' = todo
      /\ need' = need /\ hops' = hops /\ movers' = movers /\ deficit' = deficit
      /\ moving' = moving /\ shares' = shares /\ granted' = granted /\ allocated' = allocated
  BY DEF vars, ceilings, visiting, placing, repairing, load
<1>2. LoadOK'
  BY <1>1, InvLoad, SameLoad DEF load
<1>3. LoopTypes' /\ SearchOK' /\ LoopsOK'
  BY <1>1, SameProblem DEF Inv, LoopTypes, SearchOK, LoopsOK, Busy
<1>4. MovesOK'
  <2>1. \A m : MoverOK(m)' <=> MoverOK(m)
    BY <1>1, SameProblem DEF MoverOK
  <2>2. QED
    BY <1>1, <2>1, SameProblem DEF Inv, MovesOK
<1>5. BoundsOK'
  BY <1>1 DEF Inv, BoundsOK, Net
<1>6. QED
  BY <1>2, <1>3, <1>4, <1>5, NextLoadInv

LEMMA InvNext == ASSUME Inv, Next PROVE Inv' /\ Keeps
<1>1. QED
  BY BeginStep, SearchProbeStep, SearchEndStep, VisitMinimumStep, PlaceOnStep, PlaceEndStep,
     RepairStep, ScanHopStep, ScanPathStep, NextMoverStep, MoversEndStep, MoveSkipStep,
     MoveOntoStep, MoveEndStep, MinimumsEndStep, WidenStep, VisitFillStep, VisitConsolidateStep,
     ConsolidateFromStep, EndStep
     DEF Next

LEMMA InvInit == ASSUME Init PROVE Inv
<1> USE ProblemFacts
<1>1. /\ problem \in Problems /\ pc = "begin" /\ run = "first" /\ queue = {} /\ hops = {}
      /\ shares = [d \in problem.demands |-> [p \in problem.paths |-> 0]]
      /\ granted = [d \in problem.demands |-> 0] /\ allocated = [r \in problem.resources |-> 0]
      /\ ceiling = problem.policy_ceiling /\ preferred = <<>> /\ todo = <<>>
      /\ need = 0 /\ deficit = 0 /\ moving = NoMove
      /\ search = [low |-> 1, high |-> 0, best |-> 0, probes |-> 0]
  BY DEF Init
<1>2. problem.policy_ceiling \in 1 .. 1000 /\ ceiling = problem.policy_ceiling
  BY <1>1
<1>3. IsFiniteSet(Pairs)
  BY <1>1, FS_Product DEF Pairs
<1>4. ASSUME NEW r \in problem.resources
      PROVE  allocated[r] = Through(r) /\ allocated[r] <= recompute_ceiling(r, ceiling)
  <2> DEFINE S == {pair \in Pairs : r \in problem.through[pair[2]]}
             g == ShareOf
  <2>1. IsFiniteSet(S)
    BY <1>3, FS_Subset
  <2>2. \A y \in S : g[y] = 0
    BY <1>1 DEF ShareOf, Pairs
  <2>3. Through(r) = SumOver(g, S)
    BY DEF Through
  <2> HIDE DEF S, g
  <2>4. SumOver(g, S) = 0
    BY <2>1, <2>2, SumZero
  <2>5. ceiling \in Nat
    <3> HIDE ProblemFacts
    <3>1. QED
      BY <1>2
  <2>6. recompute_ceiling(r, ceiling) \in Nat
    BY <1>1, <2>5, CeilingFacts
  <2>7. QED
    BY <1>1, <2>3, <2>4, <2>6
<1>5. ASSUME NEW d \in problem.demands PROVE granted[d] = Total(d)
  <2> DEFINE v == shares[d]
  <2>1. Total(d) = SumOver(v, problem.paths)
    BY DEF Total
  <2>2. \A q \in problem.paths : v[q] = 0
    BY <1>1
  <2>3. IsFiniteSet(problem.paths)
    BY <1>1
  <2> HIDE DEF v
  <2>4. SumOver(v, problem.paths) = 0
    BY <2>2, <2>3, SumZero
  <2>5. QED
    BY <1>1, <2>1, <2>4
<1>6. SumsOK /\ EligibleOK
  BY <1>1, <1>4, <1>5 DEF SumsOK, EligibleOK
<1>7. TypeOK /\ LoopTypes
  BY <1>1 DEF TypeOK, LoopTypes
<1>8. SearchOK
  <2> HIDE ProblemFacts
  <2>1. search.low = 1 /\ search.high = 0 /\ search.best = 0 /\ search.probes = 0
    BY <1>1
  <2>2. search = [low |-> search.low, high |-> search.high, best |-> search.best,
                  probes |-> search.probes]
    BY <1>1, <2>1
  <2>3. run = "first" /\ pc = "begin"
    BY <1>1
  <2>4. QED
    BY <1>2, <2>1, <2>2, <2>3 DEF SearchOK
<1>9. LoopsOK /\ MovesOK
  BY <1>1 DEF LoopsOK, MovesOK, Busy
<1>10. BoundsOK
  BY <1>1 DEF BoundsOK, Net
<1>11. QED
  BY <1>6, <1>7, <1>8, <1>9, <1>10 DEF Inv

\* The construction's invariant holds of every problem.
THEOREM InvHolds == Spec => []Inv
<1>1. Init => Inv
  BY InvInit
<1>2. Inv /\ [Next]_vars => Inv'
  BY InvNext, StutterStep
<1>3. QED
  BY <1>1, <1>2, PTL DEF Spec

\* No step of placement, repair or consolidation loads a resource beyond its
\* ceiling or grants a demand more than its maximum, and the totals those steps
\* decide by are the sums of the shares (grant, revoke, place, repair_resource,
\* consolidate_paths).
THEOREM HardBoundsHolds == Spec => []HardBounds
<1>1. Inv => HardBounds
  BY DEF Inv, SumsOK, BoundsOK, HardBounds
<1>2. QED
  BY <1>1, InvHolds, PTL

\* Repair and consolidation take nothing away from the demand they move: what
\* is revoked has found a place before (repair_resource, consolidate_paths).
THEOREM NoDemandLosesHolds == Spec => NoDemandLoses
<1>1. Inv /\ [Next]_vars =>
        [RunMinimums(ceiling', run') \/ \A d \in problem.demands : Net(d)' >= Net(d)]_vars
  BY InvNext DEF Keeps
<1>2. QED
  BY <1>1, InvHolds, PTL DEF Spec, NoDemandLoses

(***************************************************************************)
(* The verifier                                                            *)
(***************************************************************************)
StatusOK == pc # "done" => status = "none"

\* solve takes no step once it has returned, and returns with a status.
LEMMA NextStatus == ASSUME Next PROVE pc # "done" /\ (status' = status \/ pc' = "done")
<1>1. ASSUME \/ Begin \/ SearchProbe \/ SearchEnd \/ Conclude PROVE pc # "done" /\ (status' = status \/ pc' = "done")
  BY <1>1 DEF Begin, SearchProbe, SearchEnd, Conclude, Return
<1>2. ASSUME \/ VisitMinimum \/ PlaceOn \/ PlaceEnd \/ RepairRound \/ RepairEnd
      PROVE  pc # "done" /\ status' = status
  BY <1>2 DEF VisitMinimum, PlaceOn, PlaceEnd, RepairRound, RepairEnd
<1>3. ASSUME \/ ScanHop \/ ScanPath \/ NextMover \/ MoversEnd \/ MoveSkip \/ MoveOnto \/ MoveEnd
      PROVE  pc # "done" /\ status' = status
  BY <1>3 DEF ScanHop, ScanPath, NextMover, MoversEnd, MoveSkip, MoveOnto, MoveEnd
<1>4. ASSUME \/ MinimumsEnd \/ Widen \/ VisitFill \/ FillEnd
      PROVE  pc # "done" /\ status' = status
  BY <1>4 DEF MinimumsEnd, Widen, VisitFill, FillEnd
<1>5. ASSUME \/ VisitConsolidate \/ ConsolidateFrom \/ ConsolidateEnd
      PROVE  pc # "done" /\ status' = status
  BY <1>5 DEF VisitConsolidate, ConsolidateFrom, ConsolidateEnd
<1>6. QED
  BY <1>1, <1>2, <1>3, <1>4, <1>5 DEF Next

\* What the load is worth to the snapshot, with no construction in progress.
LEMMA LoadIsLegal ==
    ASSUME Inv, pc # "move"
    PROVE  /\ \A r \in problem.resources :
                /\ Through(r) <= recompute_ceiling(r, problem.policy_ceiling)
                /\ Through(r) <= problem.available[r]
           /\ \A d \in problem.demands :
                /\ \A p \in problem.paths : shares[d][p] > 0 => p \in EligibleFor(d)
                /\ Total(d) = granted[d] /\ Total(d) <= problem.maximum[d]
                /\ Total(d) > 0 => problem.active[d] /\ ~problem.excluded[d]
<1>1. ASSUME NEW r \in problem.resources
      PROVE  /\ Through(r) <= recompute_ceiling(r, problem.policy_ceiling)
             /\ Through(r) <= problem.available[r]
  <2>1. problem \in Problems /\ problem.policy_ceiling \in 1 .. 1000
    BY ProblemFacts DEF Inv, TypeOK
  <2>2. ceiling \in Nat /\ problem.policy_ceiling \in Nat /\ ceiling <= problem.policy_ceiling
    BY <2>1 DEF Inv, SearchOK
  <2>3. /\ recompute_ceiling(r, ceiling) \in Nat
        /\ recompute_ceiling(r, problem.policy_ceiling) \in Nat
        /\ recompute_ceiling(r, ceiling) <= problem.available[r] /\ problem.available[r] \in Nat
        /\ recompute_ceiling(r, ceiling) <= recompute_ceiling(r, problem.policy_ceiling)
    <3>1. problem.available[r] \in Nat
      BY <2>1, ProblemFacts
    <3> DEFINE c == problem.policy_ceiling
    <3>2. c \in Nat /\ c <= c
      BY <2>2
    <3> HIDE DEF c
    <3>3. recompute_ceiling(r, c) \in Nat
      BY <2>1, <3>2, CeilingFacts
    <3>4. /\ recompute_ceiling(r, ceiling) \in Nat
          /\ recompute_ceiling(r, ceiling) <= problem.available[r]
          /\ recompute_ceiling(r, ceiling) <= recompute_ceiling(r, c)
      BY <2>1, <2>2, CeilingFacts DEF c
    <3>5. QED
      BY <3>1, <3>3, <3>4 DEF c
  <2>4. Through(r) = allocated[r] /\ allocated[r] \in Nat /\ allocated[r] <= recompute_ceiling(r, ceiling)
    BY DEF Inv, TypeOK, SumsOK
  <2>5. QED
    BY <2>3, <2>4
<1>2. ASSUME NEW d \in problem.demands
      PROVE  /\ \A p \in problem.paths : shares[d][p] > 0 => p \in EligibleFor(d)
             /\ Total(d) = granted[d] /\ Total(d) <= problem.maximum[d]
             /\ Total(d) > 0 => problem.active[d] /\ ~problem.excluded[d]
  <2>1. \A p \in problem.paths : shares[d][p] > 0 => p \in EligibleFor(d) /\ d \in Served
    BY DEF Inv, EligibleOK
  <2>2. Total(d) = granted[d] /\ granted[d] <= problem.maximum[d]
    BY NetFacts DEF Inv, SumsOK
  <2>3. ASSUME Total(d) > 0 PROVE problem.active[d] /\ ~problem.excluded[d]
    <3> DEFINE v == shares[d]
               P == problem.paths
    <3>1. IsFiniteSet(P) /\ \A p \in P : v[p] \in Nat
      BY ProblemFacts DEF Inv, TypeOK
    <3>2. Total(d) = SumOver(v, P)
      BY DEF Total
    <3>3. \E p \in P : v[p] # 0
      <4> HIDE DEF v, P
      <4>1. SUFFICES ASSUME \A p \in P : v[p] = 0 PROVE FALSE
        OBVIOUS
      <4>2. SumOver(v, P) = 0
        BY <3>1, <4>1, SumZero
      <4>3. QED
        BY <2>3, <3>2, <4>2
    <3>4. d \in Served
      BY <2>1, <3>1, <3>3
    <3>5. QED
      BY <3>4 DEF Served, Active, Excluded
  <2>4. QED
    BY <2>1, <2>2, <2>3
<1>3. QED
  BY <1>1, <1>2

\* The same one step later, when the step left the load alone.
LEMMA SameSums ==
    ASSUME UNCHANGED <<problem, load>>
    PROVE  /\ \A r : Through(r)' = Through(r)
           /\ \A d : Total(d)' = Total(d)
<1>1. problem' = problem /\ shares' = shares
  BY DEF load
<1>2. Pairs' = Pairs /\ ShareOf' = ShareOf
  BY <1>1 DEF Pairs, ShareOf
<1>3. QED
  BY <1>1, <1>2 DEF Through, Total

LEMMA ConcludeAgrees == ASSUME Inv, Conclude PROVE VerifierAgrees'
<1>1. /\ pc = "conclude" /\ UNCHANGED <<problem, load>> /\ problem' = problem
      /\ shares' = shares /\ granted' = granted
      /\ status' = IF verify_allocation THEN Verdict ELSE "conflicting_input"
  BY DEF Conclude, Return, load
<1>2. problem \in Problems /\ problem.floor \in [problem.demands -> Nat]
  BY ProblemFacts DEF Inv, TypeOK
<1>3. ASSUME status' \in {"feasible", "feasible_degraded"} PROVE IsLegal'
  <2>1. verify_allocation /\ status' = Verdict
    BY <1>1, <1>3
  <2>2. ASSUME NEW d \in problem.demands, problem.active[d], status' = "feasible"
        PROVE  Total(d) >= problem.floor[d]
    <3>1. ~Degraded
      BY <2>1, <2>2 DEF Degraded
    <3>2. QED
      BY <2>1, <2>2, <3>1, LoadIsLegal, <1>1 DEF verify_allocation
  <2>3. \A r \in problem.resources : Through(r) <= recompute_ceiling(r, problem.policy_ceiling)
    BY <1>1, LoadIsLegal
  <2>4. \A d \in problem.demands :
            /\ \A p \in problem.paths : shares[d][p] > 0 => p \in EligibleFor(d)
            /\ Total(d) <= problem.maximum[d]
            /\ Total(d) > 0 => problem.active[d] /\ ~problem.excluded[d]
    BY <1>1, LoadIsLegal
  <2>5. \A r : recompute_ceiling(r, problem.policy_ceiling)' = recompute_ceiling(r, problem.policy_ceiling)
    BY <1>1 DEF recompute_ceiling, Smaller, Larger
  <2>6. (\A r \in problem.resources : Through(r) <= recompute_ceiling(r, problem.policy_ceiling))'
    BY <1>1, <2>3, <2>5, SameSums
  <2>7. \A d \in problem.demands :
            /\ \A p \in problem.paths : shares'[d][p] > 0 => p \in Elements(problem.eligible[d])
            /\ Total(d)' <= problem.maximum[d]
            /\ Total(d)' > 0 => problem.active[d] /\ ~problem.excluded[d]
            /\ (problem.active[d] /\ status' = "feasible") => Total(d)' >= problem.floor[d]
    BY <1>1, <2>2, <2>4, SameSums DEF EligibleFor
  <2>8. QED
    BY <1>1, <2>6, <2>7 DEF IsLegal
<1>4. ASSUME ~verify_allocation, ~problem.reservation_conflict
      PROVE  \E d \in problem.demands, p \in problem.paths : shares[d][p] > 0 /\ ~problem.authorized[p]
  <2>1. SUFFICES ASSUME \A d \in problem.demands, p \in problem.paths :
                            shares[d][p] > 0 => problem.authorized[p]
                 PROVE  verify_allocation
    BY <1>4
  <2>2. ASSUME NEW d \in problem.demands, problem.active[d], ~Degraded
        PROVE  granted[d] >= problem.floor[d]
    <3>1. FloorsMet
      BY <1>4, <2>2 DEF Degraded, Verdict
    <3>2. granted[d] \in Nat /\ problem.floor[d] \in Nat
      BY <1>2, NetFacts
    <3>3. CASE Excluded(d)
      BY <2>2, <3>1, <3>2, <3>3 DEF FloorsMet, PolicyBlocked, Active
    <3>4. CASE ~Excluded(d)
      BY <2>2, <3>1, <3>2, <3>4 DEF FloorsMet, Unmet, Short, Active
    <3>5. QED
      BY <3>3, <3>4
  <2>3. QED
    BY <1>1, <2>1, <2>2, LoadIsLegal DEF verify_allocation, EligibleFor
<1>5. Verdict # "conflicting_input"
  <2>1. CASE problem.reservation_conflict
    BY <2>1 DEF Verdict
  <2>2. CASE ~problem.reservation_conflict /\ FloorsMet
    BY <2>2 DEF Verdict
  <2>3. CASE ~problem.reservation_conflict /\ ~FloorsMet
    BY <2>3 DEF Verdict
  <2>4. QED
    BY <2>1, <2>2, <2>3
<1>6. status' = "conflicting_input" => ~verify_allocation
  BY <1>1, <1>5
<1>7. QED
  BY <1>1, <1>3, <1>4, <1>6 DEF VerifierAgrees

\* The verifier, which reads the snapshot anew, lets only legal plans through,
\* and refuses what the construction built only for what it alone looks at
\* (verify_allocation, solve).
THEOREM VerifierAgreesHolds == Spec => []VerifierAgrees
<1>1. Init => StatusOK /\ VerifierAgrees
  BY DEF Init, StatusOK, VerifierAgrees
<1>2. ASSUME Inv, StatusOK, VerifierAgrees, Next PROVE (StatusOK /\ VerifierAgrees)'
  <2>1. pc # "done" /\ status = "none" /\ (status' = status \/ pc' = "done")
    BY <1>2, NextStatus DEF StatusOK
  <2>2. CASE status' = status
    BY <2>1, <2>2 DEF StatusOK, VerifierAgrees
  <2>3. CASE status' # status
    <3>1. Begin \/ SearchEnd \/ Conclude
      BY <1>2, <2>3 DEF Next, SearchProbe, VisitMinimum, PlaceOn, PlaceEnd, RepairRound, RepairEnd,
         ScanHop, ScanPath, NextMover, MoversEnd, MoveSkip, MoveOnto, MoveEnd, MinimumsEnd, Widen,
         VisitFill, FillEnd, VisitConsolidate, ConsolidateFrom, ConsolidateEnd
    <3>2. StatusOK'
      BY <2>1, <2>3 DEF StatusOK
    <3>3. CASE Begin \/ SearchEnd
      <4>1. status' \in {"unsupported_objective", "infeasible_policy", "infeasible_capacity"}
        BY <2>3, <3>3 DEF Begin, SearchEnd, Return
      <4>2. QED
        BY <3>2, <4>1 DEF VerifierAgrees
    <3>4. CASE Conclude
      BY <1>2, <3>2, <3>4, ConcludeAgrees
    <3>5. QED
      BY <3>1, <3>3, <3>4
  <2>4. QED
    BY <2>2, <2>3
<1>3. ASSUME StatusOK, VerifierAgrees, UNCHANGED vars PROVE (StatusOK /\ VerifierAgrees)'
  <2>1. /\ problem' = problem /\ pc' = pc /\ status' = status /\ shares' = shares
        /\ UNCHANGED <<problem, load>>
    BY <1>3 DEF vars, load
  <2>2. \A r : recompute_ceiling(r, problem.policy_ceiling)' = recompute_ceiling(r, problem.policy_ceiling)
    BY <2>1 DEF recompute_ceiling, Smaller, Larger
  <2>3. IsLegal => IsLegal'
    BY <2>1, <2>2, SameSums DEF IsLegal, Elements
  <2>4. QED
    BY <1>3, <2>1, <2>3 DEF StatusOK, VerifierAgrees
<1>4. QED
  BY <1>1, <1>2, <1>3, InvHolds, PTL DEF Spec

(***************************************************************************)
(* The search for the tightest ceiling                                     *)
(***************************************************************************)
\* The interval's width after so many probes: ten are enough for 1000 values.
Widths == <<1000, 500, 250, 125, 62, 31, 15, 7, 3, 1, 0>>
Least(x) == RelaxedFeasible(x) /\ (x = 1 \/ ~RelaxedFeasible(x - 1))

\* Everything below the interval is too tight; what was found last is the
\* value just above it.
IntervalOK ==
    /\ search.probes \in 0 .. 10
    /\ (search.high - search.low) + 1 <= Widths[search.probes + 1]
    /\ search.low <= search.high + 1
    /\ search.best = 0 => search.high = problem.policy_ceiling
    /\ search.best # 0 => search.best = search.high + 1 /\ RelaxedFeasible(search.best) /\ Built
    /\ search.low = 1 \/ ~RelaxedFeasible(search.low - 1)
SettledOK ==
    (phase = "minimum" /\ run = "first" /\ ~problem.reservation_conflict
        /\ Has("minimize_max_utilization")) => Least(ceiling)
CeilingOK == (pc = "search" => IntervalOK) /\ SettledOK

LEMMA SameFeasible ==
    ASSUME UNCHANGED problem, NEW x
    PROVE  RelaxedFeasible(x)' <=> RelaxedFeasible(x)
<1>1. QED
  BY DEF RelaxedFeasible, Starved, Carried, Floored, Active, SumOver, Cut, MapThenSumSet,
         MapThenFoldSet, recompute_ceiling, UsedPaths, UsedResources, Elements, Smaller, Larger

LEMMA SameBuilt == ASSUME UNCHANGED problem PROVE Built' <=> Built
<1>1. QED
  BY DEF Built, WithinLimits, Carried, Starved, Floored, Active, UsedPaths, Elements, MapThenSumSet,
         MapThenFoldSet

\* A probe at least halves the interval.
LEMMA Halves ==
    ASSUME NEW low \in Int, NEW high \in Int, low <= high
    PROVE  LET m == low + (high - low) \div 2
           IN  /\ m \in Int /\ 2 * (m - low) <= high - low
               /\ 2 * (high - m) <= (high - low) + 1
<1> DEFINE w == high - low
           h == w \div 2
<1>1. w \in Nat
  OBVIOUS
<1>2. h \in Nat /\ 2 * h <= w /\ w <= 2 * h + 1
  <2> HIDE DEF w
  <2>1. QED
    BY <1>1
<1> HIDE DEF h
<1>3. QED
  BY <1>2 DEF h

LEMMA WidthHalves ==
    ASSUME NEW n \in 0 .. 9, NEW w \in Int, w <= Widths[n + 1], NEW v \in Int, 2 * v <= w
    PROVE  v <= Widths[(n + 1) + 1]
<1>1. CASE n = 0
  BY <1>1 DEF Widths
<1>2. CASE n = 1
  BY <1>2 DEF Widths
<1>3. CASE n = 2
  BY <1>3 DEF Widths
<1>4. CASE n = 3
  BY <1>4 DEF Widths
<1>5. CASE n = 4
  BY <1>5 DEF Widths
<1>6. CASE n = 5
  BY <1>6 DEF Widths
<1>7. CASE n = 6
  BY <1>7 DEF Widths
<1>8. CASE n = 7
  BY <1>8 DEF Widths
<1>9. CASE n = 8
  BY <1>9 DEF Widths
<1>10. CASE n = 9
  BY <1>10 DEF Widths
<1>11. QED
  BY <1>1, <1>2, <1>3, <1>4, <1>5, <1>6, <1>7, <1>8, <1>9, <1>10

\* Nothing is left to search after ten probes.
LEMMA Exhausted ==
    ASSUME MaxProbes >= 10, Inv, IntervalOK, ~Searching
    PROVE  search.low = search.high + 1
<1>1. /\ search.low \in Int /\ search.high \in Int /\ search.probes \in 0 .. 10
      /\ search.low <= search.high + 1 /\ (search.high - search.low) + 1 <= Widths[search.probes + 1]
  BY ProblemFacts DEF Inv, TypeOK, SearchOK, IntervalOK
<1>2. search.low > search.high \/ search.probes = 10
  BY <1>1, LimitsAssumption DEF Searching
<1>3. CASE search.low > search.high
  BY <1>1, <1>3
<1>4. CASE search.probes = 10
  <2>1. Widths[search.probes + 1] = 0
    BY <1>4 DEF Widths
  <2>2. QED
    BY <1>1, <2>1
<1>5. QED
  BY <1>2, <1>3, <1>4

LEMMA ProbeKeepsInterval ==
    ASSUME Inv, IntervalOK, SearchProbe
    PROVE  IntervalOK'
<1>1. /\ search' = Probed(RelaxedFeasible(Middle)) /\ search.low <= search.high
      /\ problem' = problem /\ Built'
  BY SameBuilt DEF SearchProbe, Searching
<1>2. problem.policy_ceiling \in 1 .. 1000 /\ problem \in Problems
  BY ProblemFacts DEF Inv, TypeOK
<1>3. search.low \in Nat \ {0} /\ search.high \in Nat /\ search.high <= problem.policy_ceiling
      /\ search.probes \in 0 .. 10 /\ search.low \in Int /\ search.high \in Int
  BY <1>2 DEF Inv, SearchOK, IntervalOK
<1> DEFINE w == (search.high - search.low) + 1
<1>4. search.probes \in 0 .. 9
  <2>1. CASE search.probes = 10
    <3>1. Widths[search.probes + 1] = 0
      BY <2>1 DEF Widths
    <3>2. QED
      BY <1>1, <1>3, <3>1 DEF IntervalOK
  <2>2. QED
    BY <1>3, <2>1
<1>5. /\ Middle \in Int /\ 2 * (Middle - search.low) <= search.high - search.low
      /\ 2 * (search.high - Middle) <= (search.high - search.low) + 1
  BY <1>1, <1>3, Halves DEF Middle
<1>6. w \in Int /\ w <= Widths[search.probes + 1]
  BY <1>3 DEF IntervalOK
<1>7. \A x : RelaxedFeasible(x)' <=> RelaxedFeasible(x)
  BY <1>1, SameFeasible
<1>8. CASE RelaxedFeasible(Middle)
  <2>1. /\ search'.probes = search.probes + 1 /\ search'.best = Middle
        /\ search'.high = Middle - 1 /\ search'.low = search.low
        /\ Middle \in search.low .. search.high
    <3>1. search' = Probed(TRUE)
      BY <1>1, <1>8
    <3>2. QED
      BY <1>1, <3>1, ProbeFacts
  <2>2. Middle - search.low <= Widths[(search.probes + 1) + 1]
    <3>1. Middle - search.low \in Int /\ 2 * (Middle - search.low) <= w
      BY <1>3, <1>5
    <3> HIDE DEF w
    <3>2. QED
      BY <1>4, <1>6, <3>1, WidthHalves
  <2>3. (search'.high - search'.low) + 1 = Middle - search.low
    BY <1>3, <1>5, <2>1
  <2>4. search'.probes \in 0 .. 10 /\ search'.low <= search'.high + 1 /\ search'.best # 0
        /\ search'.best = search'.high + 1
    BY <1>3, <1>4, <1>5, <2>1
  <2>5. RelaxedFeasible(search.best)'
    BY <1>7, <1>8, <2>1
  <2>6. search'.low = 1 \/ ~RelaxedFeasible(search.low - 1)'
    BY <1>7, <2>1 DEF IntervalOK
  <2>7. QED
    BY <1>1, <2>1, <2>2, <2>3, <2>4, <2>5, <2>6 DEF IntervalOK
<1>9. CASE ~RelaxedFeasible(Middle)
  <2>1. /\ search'.probes = search.probes + 1 /\ search'.best = search.best
        /\ search'.high = search.high /\ search'.low = Middle + 1
        /\ Middle \in search.low .. search.high
    <3>1. search' = Probed(FALSE)
      BY <1>1, <1>9 DEF Probed
    <3>2. QED
      BY <1>1, <3>1, ProbeFacts
  <2>2. search.high - Middle <= Widths[(search.probes + 1) + 1]
    <3>1. search.high - Middle \in Int /\ 2 * (search.high - Middle) <= w
      BY <1>3, <1>5
    <3> HIDE DEF w
    <3>2. QED
      BY <1>4, <1>6, <3>1, WidthHalves
  <2>3. (search'.high - search'.low) + 1 = search.high - Middle
    BY <1>3, <1>5, <2>1
  <2>4. search'.probes \in 0 .. 10 /\ search'.low <= search'.high + 1
    BY <1>3, <1>4, <1>5, <2>1
  <2>5. /\ search'.best = 0 => search'.high = problem'.policy_ceiling
        /\ search'.best # 0 => search'.best = search'.high + 1 /\ RelaxedFeasible(search.best)'
                              /\ Built'
    BY <1>1, <1>7, <2>1 DEF IntervalOK
  <2>6. ~RelaxedFeasible(search.low - 1)'
    <3>1. search'.low - 1 = Middle
      BY <1>5, <2>1
    <3>2. QED
      BY <1>7, <1>9, <3>1
  <2>7. QED
    BY <2>1, <2>2, <2>3, <2>4, <2>5, <2>6 DEF IntervalOK
<1>10. QED
  BY <1>8, <1>9

\* The other steps: none of them searches, and the ceiling stays with the run.
LEMMA OtherSteps ==
    ASSUME Next, ~Begin, ~SearchProbe, ~SearchEnd
    PROVE  /\ problem' = problem /\ pc' # "search"
           /\ \/ run' # "first"
              \/ ceiling' = ceiling /\ run' = run /\ (phase' = phase \/ phase' # "minimum")
<1>1. ASSUME \/ VisitMinimum \/ PlaceOn \/ PlaceEnd \/ RepairRound \/ RepairEnd
      PROVE  /\ problem' = problem /\ pc' # "search"
             /\ ceiling' = ceiling /\ run' = run /\ phase' = phase
  BY <1>1 DEF VisitMinimum, PlaceOn, PlaceEnd, RepairRound, RepairEnd, Placing, visiting, ceilings
<1>2. ASSUME \/ ScanHop \/ ScanPath \/ NextMover \/ MoversEnd \/ MoveSkip \/ MoveOnto \/ MoveEnd
      PROVE  /\ problem' = problem /\ pc' # "search"
             /\ ceiling' = ceiling /\ run' = run /\ phase' = phase
  BY <1>2 DEF ScanHop, ScanPath, NextMover, MoversEnd, MoveSkip, MoveOnto, MoveEnd, Placing,
              visiting, ceilings
<1>3. ASSUME \/ MinimumsEnd \/ VisitFill \/ FillEnd
      PROVE  /\ problem' = problem /\ pc' # "search"
             /\ ceiling' = ceiling /\ run' = run /\ (phase' = phase \/ phase' # "minimum")
  BY <1>3 DEF MinimumsEnd, VisitFill, FillEnd, Placing, Phase, visiting, ceilings
<1>4. ASSUME \/ VisitConsolidate \/ ConsolidateFrom \/ ConsolidateEnd \/ Conclude
      PROVE  /\ problem' = problem /\ pc' # "search"
             /\ ceiling' = ceiling /\ run' = run /\ phase' = phase
  BY <1>4 DEF VisitConsolidate, ConsolidateFrom, ConsolidateEnd, Conclude, Return, visiting, ceilings
<1>5. ASSUME Widen PROVE problem' = problem /\ pc' # "search" /\ run' # "first"
  BY <1>5 DEF Widen, RunMinimums
<1>6. QED
  BY <1>1, <1>2, <1>3, <1>4, <1>5 DEF Next

LEMMA CeilingNext == ASSUME MaxProbes >= 10, Inv, CeilingOK, Next PROVE CeilingOK'
<1>1. \A x : problem' = problem => (RelaxedFeasible(x)' <=> RelaxedFeasible(x))
  BY SameFeasible
<1>2. ASSUME problem' = problem, ceiling' = ceiling, run' = run, phase' = phase \/ phase' # "minimum"
      PROVE  SettledOK'
  BY <1>1, <1>2 DEF CeilingOK, SettledOK, Least, Has
<1>3. CASE Begin
  <2>1. problem' = problem
    BY <1>3 DEF Begin
  <2>2. CASE pc' = "done" /\ UNCHANGED <<ceilings, visiting>>
    BY <1>2, <2>1, <2>2 DEF CeilingOK, ceilings, visiting
  <2>3. CASE /\ pc' = "search" /\ UNCHANGED <<ceiling, run, visiting>>
             /\ search' = [low |-> 1, high |-> problem.policy_ceiling, best |-> 0, probes |-> 0]
    <3>1. search'.low = 1 /\ search'.high = problem.policy_ceiling
          /\ search'.best = 0 /\ search'.probes = 0
      BY <2>3
    <3>2. problem.policy_ceiling \in 1 .. 1000
      BY ProblemFacts DEF Inv, TypeOK
    <3>3. Widths[0 + 1] = 1000
      BY DEF Widths
    <3>4. IntervalOK'
      BY <2>1, <3>1, <3>2, <3>3 DEF IntervalOK
    <3>5. QED
      BY <1>2, <2>1, <2>3, <3>4 DEF CeilingOK, visiting
  <2>4. CASE /\ problem.reservation_conflict \/ ~Has("minimize_max_utilization")
             /\ RunMinimums(problem.policy_ceiling, "first")
    BY <2>1, <2>4 DEF CeilingOK, SettledOK, RunMinimums, Has
  <2>5. QED
    BY <1>3, <2>2, <2>3, <2>4 DEF Begin, Return
<1>4. CASE SearchProbe
  <2>1. pc = "search" /\ UNCHANGED <<problem, ceiling, run, visiting>> /\ problem' = problem
    BY <1>4 DEF SearchProbe
  <2>2. IntervalOK'
    BY <1>4, <2>1, ProbeKeepsInterval DEF CeilingOK
  <2>3. QED
    BY <1>2, <2>1, <2>2 DEF CeilingOK, visiting
<1>5. CASE SearchEnd
  <2>1. pc = "search" /\ problem' = problem /\ ~(Searching /\ Built) /\ IntervalOK
    BY <1>5 DEF SearchEnd, CeilingOK
  <2>2. CASE pc' = "done" /\ UNCHANGED <<ceiling, run, visiting>>
    BY <1>2, <2>1, <2>2 DEF CeilingOK, visiting
  <2>3. CASE search.best # 0 /\ RunMinimums(search.best, "first")
    <3>1. ceiling' = search.best /\ pc' = "visit"
      BY <2>3 DEF RunMinimums
    <3>2. Least(search.best)
      <4>1. search.best = search.low /\ search.low \in Nat
        <5>1. ~Searching
          BY <2>1, <2>3 DEF IntervalOK
        <5>2. search.low = search.high + 1
          BY <2>1, <5>1, Exhausted
        <5>3. QED
          BY <2>1, <2>3, <5>2 DEF IntervalOK, Inv, SearchOK
      <4>2. QED
        BY <2>1, <2>3, <4>1 DEF IntervalOK, Least
    <3>3. Least(ceiling)'
      BY <1>1, <2>1, <3>1, <3>2 DEF Least
    <3>4. QED
      BY <3>1, <3>3 DEF CeilingOK, SettledOK
  <2>4. QED
    BY <1>5, <2>2, <2>3 DEF SearchEnd, Return
<1>6. CASE ~Begin /\ ~SearchProbe /\ ~SearchEnd
  <2>1. /\ problem' = problem /\ pc' # "search"
        /\ \/ run' # "first"
           \/ ceiling' = ceiling /\ run' = run /\ (phase' = phase \/ phase' # "minimum")
    BY <1>6, OtherSteps
  <2>2. QED
    BY <1>2, <2>1 DEF CeilingOK, SettledOK
<1>7. QED
  BY <1>3, <1>4, <1>5, <1>6

\* The ceiling the first search settles on admits the floors in the relaxation
\* and the next tighter one does not, when the bound on the probes lets the
\* search finish: ten probes do, and Limits::max_max_utilization_probes is more
\* (the binary search over certify at the start of solve).
THEOREM TightestCeilingHolds == ASSUME MaxProbes >= 10 PROVE Spec => []TightestCeiling
<1>1. Init => CeilingOK
  BY DEF Init, CeilingOK, SettledOK
<1>2. Inv /\ CeilingOK /\ [Next]_vars => CeilingOK'
  <2>1. ASSUME CeilingOK, UNCHANGED vars PROVE CeilingOK'
    <3>1. /\ problem' = problem /\ pc' = pc /\ search' = search /\ ceiling' = ceiling /\ run' = run
          /\ phase' = phase
      BY <2>1 DEF vars, ceilings, visiting
    <3>2. \A x : RelaxedFeasible(x)' <=> RelaxedFeasible(x)
      BY <3>1, SameFeasible
    <3>3. IntervalOK' <=> IntervalOK
      BY <3>1, <3>2, SameBuilt DEF IntervalOK
    <3>4. SettledOK' <=> SettledOK
      BY <3>1, <3>2 DEF SettledOK, Least, Has
    <3>5. QED
      BY <2>1, <3>1, <3>3, <3>4 DEF CeilingOK
  <2>2. QED
    BY <2>1, CeilingNext
<1>3. CeilingOK => TightestCeiling
  BY DEF CeilingOK, SettledOK, Least, TightestCeiling
<1>4. QED
  BY <1>1, <1>2, <1>3, InvHolds, PTL DEF Spec

(***************************************************************************)
(* The soft targets                                                        *)
(***************************************************************************)
LEMMA ScoreInt ==
    ASSUME LoadOK, NEW x \in problem.paths
    PROVE  domain_score(x) \in Int
<1> DEFINE F == problem.failure_domains[x]
           s == [f \in F |-> failure_domain_load(f)]
<1>1. IsFiniteSet(F) /\ IsFiniteSet(problem.demands) /\ IsFiniteSet(problem.paths)
  BY ProblemsAssumption DEF LoadOK, IsProblem
<1>2. IsFiniteSet(Pairs) /\ \A y \in Pairs : ShareOf[y] \in Int
  <2>1. IsFiniteSet(Pairs)
    BY <1>1, FS_Product DEF Pairs
  <2>2. shares \in [problem.demands -> [problem.paths -> Nat]]
    BY DEF LoadOK
  <2>3. QED
    BY <2>1, <2>2 DEF Pairs, ShareOf
<1>3. ASSUME NEW f PROVE failure_domain_load(f) \in Int
  <2> DEFINE S == {pair \in Pairs : f \in problem.failure_domains[pair[2]]}
  <2>1. IsFiniteSet(S) /\ \A y \in S : ShareOf[y] \in Int
    BY <1>2, FS_Subset
  <2>2. failure_domain_load(f) = SumOver(ShareOf, S)
    BY DEF failure_domain_load
  <2> HIDE DEF S
  <2>3. QED
    BY <2>1, <2>2, SumInt
<1>4. \A f \in F : s[f] \in Int
  BY <1>3
<1>5. domain_score(x) = SumOver(s, F)
  BY DEF domain_score
<1> HIDE DEF F, s
<1>6. QED
  BY <1>1, <1>4, <1>5, SumInt

\* No path comes before itself.
LEMMA NotPreferred ==
    ASSUME LoadOK, NEW d, NEW x \in problem.paths
    PROVE  ~Prefers(d, x, x)
<1>1. <<x, x>> \notin problem.less
  BY ProblemsAssumption DEF LoadOK, IsProblem
<1> DEFINE score == IF Has("minimize_failure_domain_concentration") THEN domain_score(x) ELSE 0
<1>2. score \in Int
  BY ScoreInt
<1> HIDE DEF score
<1>3. ~(score < score)
  BY <1>2
<1>4. QED
  BY <1>1, <1>3 DEF Prefers, score

\* Hence the order of preference lists every eligible path.
LEMMA OrderComplete ==
    ASSUME LoadOK, NEW d \in problem.demands, NEW q \in order_paths(d)
    PROVE  Elements(q) = EligibleFor(d)
<1> DEFINE e == problem.eligible[d]
           n == Len(e)
           S == 1 .. n
           T == EligibleFor(d)
<1>1. e \in Seq(problem.paths) /\ \A i, j \in DOMAIN e : i # j => e[i] # e[j]
  BY ProblemsAssumption DEF LoadOK, IsProblem
<1>2. n \in Nat /\ DOMAIN e = S /\ T = {e[i] : i \in S}
  BY <1>1 DEF EligibleFor, Elements
<1>3. q \in [S -> T] /\ \A i, j \in S : i < j => Prefers(d, q[i], q[j])
  BY <1>2 DEF order_paths, EligibleFor
<1>4. T \subseteq problem.paths
  BY <1>1 DEF EligibleFor, Elements
<1>5. IsFiniteSet(S)
  BY <1>2, FS_Interval
<1>6. e \in Surjection(S, T) /\ e \in Injection(S, T)
  <2>1. e \in [S -> T]
    BY <1>1, <1>2
  <2>2. QED
    BY <1>1, <1>2, <2>1 DEF Surjection, Injection, IsInjective
<1>7. IsFiniteSet(T) /\ Cardinality(T) = Cardinality(S)
  BY <1>5, <1>6, FS_Surjection
<1>8. q \in Injection(S, T)
  <2>1. ASSUME NEW i \in S, NEW j \in S, q[i] = q[j], i < j PROVE FALSE
    <3>1. Prefers(d, q[i], q[i]) /\ q[i] \in problem.paths
      BY <1>3, <1>4, <2>1
    <3>2. QED
      BY <3>1, NotPreferred
  <2>2. ASSUME NEW i \in S, NEW j \in S, q[i] = q[j] PROVE i = j
    <3>1. i \in Int /\ j \in Int
      BY <1>2
    <3>2. ~(i < j) /\ ~(j < i)
      BY <2>1, <2>2
    <3>3. QED
      BY <3>1, <3>2
  <2>3. DOMAIN q = S
    BY <1>3
  <2> HIDE DEF S, T
  <2>4. QED
    BY <1>3, <2>2, <2>3 DEF Injection, IsInjective
<1>9. q \in Surjection(S, T)
  <2> HIDE DEF S, T
  <2>1. QED
    BY <1>7, <1>8, FS_Injection
<1>10. Elements(q) = T
  <2> HIDE DEF S, T
  <2>1. DOMAIN q = S /\ (\A i \in S : q[i] \in T) /\ \A t \in T : \E i \in S : q[i] = t
    BY <1>3, <1>9 DEF Surjection
  <2>2. QED
    BY <2>1 DEF Elements
<1>11. QED
  BY <1>10

\* place, with the soft target as its goal: what is missing is what it still
\* needs, and the paths behind it have no room left.
FillOK ==
    (phase = "fill" /\ pc = "place") =>
        /\ need >= 0 /\ granted[who] + need = Target(who)
        /\ \/ need = 0
           \/ \A p \in EligibleFor(who) : p \in Elements(todo) \/ ~Fits(p, 1)
WasteOK == FillOK /\ NothingWasted

\* The steps that touch neither the soft targets nor the load.
LEMMA WasteOther ==
    ASSUME Inv, Next, ~VisitFill, ~PlaceOn, ~PlaceEnd
    PROVE  \/ phase' # "fill"
           \/ phase' = "fill" /\ pc' = "visit" /\ queue' = Active /\ problem' = problem
           \/ /\ UNCHANGED <<problem, ceiling, load, queue, phase>>
              /\ pc # "place" /\ pc' # "place"
<1>1. CASE Begin \/ SearchProbe \/ SearchEnd \/ FillEnd \/ Conclude
  BY <1>1 DEF Begin, SearchProbe, SearchEnd, FillEnd, Conclude, RunMinimums, Return, Phase, visiting,
              ceilings
<1>2. CASE VisitMinimum \/ Widen \/ MinimumsEnd \/ VisitConsolidate
  BY <1>2 DEF VisitMinimum, Widen, MinimumsEnd, VisitConsolidate, RunMinimums, Phase, visiting
<1>3. CASE RepairRound \/ RepairEnd \/ ScanHop \/ ScanPath \/ NextMover \/ MoversEnd
  <2>1. pc \in {"repair", "scan", "movers"} /\ phase' = phase
    BY <1>3 DEF RepairRound, RepairEnd, ScanHop, ScanPath, NextMover, MoversEnd, visiting
  <2>2. QED
    BY <2>1 DEF Inv, LoopsOK
<1>4. CASE MoveSkip \/ MoveOnto \/ MoveEnd
  <2>1. pc = "move" /\ phase' = phase
    BY <1>4 DEF MoveSkip, MoveOnto, MoveEnd, visiting
  <2>2. QED
    BY <2>1 DEF Inv, LoopsOK
<1>5. CASE ConsolidateFrom \/ ConsolidateEnd
  <2>1. phase' = phase /\ (pc = "sources" \/ phase = "consolidate")
    BY <1>5 DEF ConsolidateFrom, ConsolidateEnd, visiting
  <2>2. QED
    BY <2>1 DEF Inv, LoopsOK
<1>6. QED
  BY <1>1, <1>2, <1>3, <1>4, <1>5 DEF Next

LEMMA SameRoom ==
    ASSUME UNCHANGED <<problem, ceiling, load>>
    PROVE  /\ \A p : Fits(p, 1)' <=> Fits(p, 1)
           /\ \A d : Target(d)' = Target(d)
<1>1. problem' = problem /\ ceiling' = ceiling /\ allocated' = allocated
  BY DEF load
<1>2. QED
  BY <1>1 DEF Fits, Target, recompute_ceiling, Smaller, Larger

LEMMA TargetFacts ==
    ASSUME problem \in Problems, NEW d \in problem.demands
    PROVE  Target(d) \in Nat /\ Target(d) <= problem.maximum[d]
<1>1. problem.desired[d] \in Nat /\ problem.maximum[d] \in Nat
  BY ProblemFacts
<1>2. QED
  BY <1>1 DEF Target, Smaller

LEMMA WasteVisit == ASSUME Inv, WasteOK, VisitFill PROVE WasteOK'
<1>1. PICK d \in queue :
        /\ queue' = queue \ {d}
        /\ \/ /\ Excluded(d) \/ granted[d] >= Target(d)
              /\ UNCHANGED <<pc, who, placing>>
           \/ /\ ~Excluded(d) /\ granted[d] < Target(d)
              /\ who' = d
              /\ \E q \in order_paths(d) :
                    preferred' = q /\ Placing(d, q, Target(d) - granted[d])
  BY DEF VisitFill
<1>2. /\ phase = "fill" /\ pc = "visit" /\ phase' = phase
      /\ UNCHANGED <<problem, ceiling, load>> /\ problem' = problem /\ granted' = granted
  BY DEF VisitFill, load, ceilings
<1>3. d \in Active /\ d \in problem.demands /\ problem \in Problems
  BY <1>1 DEF Inv, TypeOK, LoopTypes, Active
<1>4. \A e \in Active \ queue : \/ Excluded(e) \/ granted[e] >= Target(e)
                                \/ \A p \in Elements(problem.eligible[e]) : ~Fits(p, 1)
  BY <1>2 DEF WasteOK, NothingWasted
<1>5. /\ \A p : Fits(p, 1)' <=> Fits(p, 1)
      /\ \A e : Target(e)' = Target(e) /\ Excluded(e)' = Excluded(e)
      /\ Active' = Active
  BY <1>2, SameRoom, SameProblem
<1>6. CASE /\ Excluded(d) \/ granted[d] >= Target(d)
           /\ UNCHANGED <<pc, who, placing>>
  <2>1. pc' = "visit"
    BY <1>2, <1>6
  <2>2. \A e \in Active \ queue' : \/ Excluded(e) \/ granted[e] >= Target(e)
                                   \/ \A p \in Elements(problem.eligible[e]) : ~Fits(p, 1)
    BY <1>1, <1>4, <1>6
  <2>3. NothingWasted'
    BY <1>2, <1>5, <2>1, <2>2 DEF NothingWasted, Elements
  <2>4. QED
    BY <2>1, <2>3 DEF WasteOK, FillOK
<1>7. CASE /\ ~Excluded(d) /\ granted[d] < Target(d)
           /\ who' = d
           /\ \E q \in order_paths(d) : preferred' = q /\ Placing(d, q, Target(d) - granted[d])
  <2>1. PICK q \in order_paths(d) : preferred' = q /\ Placing(d, q, Target(d) - granted[d])
    BY <1>7
  <2>2. Elements(q) = EligibleFor(d)
    BY <1>3, InvLoad, OrderComplete
  <2>3. /\ Target(d) \in Nat /\ granted[d] \in Nat /\ problem.maximum[d] \in Nat
        /\ Target(d) <= problem.maximum[d]
    BY <1>3, TargetFacts, NetFacts
  <2>4. pc' = "place" /\ todo' = q /\ need' = Target(d) - granted[d]
    BY <1>2, <1>3, <2>1, <2>3, PlacingFacts
  <2>5. FillOK'
    <3>1. need' >= 0 /\ granted'[d] + need' = Target(d)
      BY <1>2, <1>7, <2>3, <2>4
    <3>2. \A p \in EligibleFor(d) : p \in Elements(todo')
      BY <2>2, <2>4
    <3>3. QED
      BY <1>2, <1>5, <1>7, <3>1, <3>2, SameProblem DEF FillOK, Elements
  <2>6. \A e \in Active \ (queue' \cup {d}) :
            \/ Excluded(e) \/ granted[e] >= Target(e)
            \/ \A p \in Elements(problem.eligible[e]) : ~Fits(p, 1)
    BY <1>1, <1>4
  <2>7. NothingWasted'
    BY <1>2, <1>5, <1>7, <2>4, <2>6 DEF NothingWasted, Elements
  <2>8. QED
    BY <2>5, <2>7 DEF WasteOK
<1>8. QED
  BY <1>1, <1>6, <1>7

LEMMA WastePlaceEnd == ASSUME Inv, WasteOK, PlaceEnd PROVE WasteOK'
<1>1. /\ pc = "place" /\ pc' # "place" /\ (todo = <<>> \/ need = 0)
      /\ UNCHANGED <<problem, ceiling, load>> /\ problem' = problem /\ granted' = granted
      /\ phase' = phase /\ queue' = queue
  BY DEF PlaceEnd, load, ceilings, visiting
<1>2. SUFFICES ASSUME phase = "fill" PROVE NothingWasted'
  BY <1>1 DEF WasteOK, FillOK, NothingWasted
<1>3. /\ \A p : Fits(p, 1)' <=> Fits(p, 1)
      /\ \A e : Target(e)' = Target(e) /\ Excluded(e)' = Excluded(e)
      /\ Active' = Active
  BY <1>1, SameRoom, SameProblem
<1>4. \A e \in Active \ (queue \cup {who}) :
            \/ Excluded(e) \/ granted[e] >= Target(e)
            \/ \A p \in Elements(problem.eligible[e]) : ~Fits(p, 1)
  BY <1>1, <1>2 DEF WasteOK, NothingWasted
<1>5. granted[who] >= Target(who) \/ \A p \in Elements(problem.eligible[who]) : ~Fits(p, 1)
  <2>1. /\ granted[who] + need = Target(who)
        /\ need = 0 \/ \A p \in EligibleFor(who) : p \in Elements(todo) \/ ~Fits(p, 1)
    BY <1>1, <1>2 DEF WasteOK, FillOK
  <2>2. who \in Served /\ problem \in Problems
    BY <1>1 DEF Inv, TypeOK, LoopsOK, Busy
  <2>3. granted[who] \in Nat /\ Target(who) \in Nat
    BY <2>2, PathFacts, NetFacts, TargetFacts
  <2>4. CASE need = 0
    BY <2>1, <2>3, <2>4
  <2>5. CASE need # 0
    <3>1. Elements(todo) = {}
      BY <1>1, <2>5 DEF Elements
    <3>2. QED
      BY <2>1, <2>5, <3>1 DEF EligibleFor
  <2>6. QED
    BY <2>4, <2>5
<1>6. QED
  BY <1>1, <1>3, <1>4, <1>5 DEF NothingWasted, Elements

LEMMA WastePlaceOn == ASSUME Inv, WasteOK, PlaceOn PROVE WasteOK'
<1>1. PICK take \in Takes(Head(todo), need) : grant(who, Head(todo), take) /\ need' = need - take
  BY DEF PlaceOn
<1>2. /\ pc = "place" /\ pc' = pc /\ todo # <<>> /\ need > 0 /\ todo' = Tail(todo)
      /\ problem' = problem /\ ceiling' = ceiling
      /\ phase' = phase /\ queue' = queue /\ who' = who
  BY DEF PlaceOn, visiting, ceilings
<1>3. SUFFICES ASSUME phase = "fill" PROVE WasteOK'
  BY <1>2 DEF WasteOK, FillOK, NothingWasted
<1>4. /\ who \in Served /\ Elements(todo) \subseteq EligibleFor(who) /\ problem \in Problems
      /\ need \in Int /\ todo \in Seq(problem.paths) /\ ceiling \in Nat
      /\ allocated \in [problem.resources -> Nat] /\ granted \in [problem.demands -> Nat]
  BY <1>2, InvLoad DEF Inv, TypeOK, LoopTypes, LoopsOK, Busy, LoadOK
<1>5. PICK p \in problem.paths : p = Head(todo)
  BY <1>2, <1>4
<1>6. who \in problem.demands /\ Elements(todo) \subseteq Elements(Tail(todo)) \cup {p}
  BY <1>2, <1>4, <1>5, TailFacts, PathFacts
<1>7. take \in Nat /\ take <= need /\ (take < need => ~Fits(p, take + 1))
  BY <1>4, <1>5 DEF Takes
<1>8. /\ granted'[who] = granted[who] + take
      /\ \A e \in problem.demands : e # who => granted'[e] = granted[e]
      /\ \A r \in problem.resources :
            allocated'[r] = IF r \in problem.through[p] THEN allocated[r] + take ELSE allocated[r]
  BY <1>1, <1>4, <1>5, <1>6 DEF grant
<1>9. problem.through \in [problem.paths -> SUBSET problem.resources]
  BY <1>4, ProblemFacts
<1>10. \A r \in problem.resources :
        /\ recompute_ceiling(r, ceiling)' = recompute_ceiling(r, ceiling)
        /\ recompute_ceiling(r, ceiling) \in Nat /\ allocated[r] \in Nat
  <2>1. \A r \in problem.resources : recompute_ceiling(r, ceiling) \in Nat
    BY <1>4, CeilingFacts
  <2>2. QED
    BY <1>2, <1>4, <2>1 DEF recompute_ceiling, Smaller, Larger
<1>11. ASSUME NEW x \in problem.paths, ~Fits(x, 1) PROVE ~Fits(x, 1)'
  <2>1. PICK r \in problem.through[x] : ~(allocated[r] + 1 <= recompute_ceiling(r, ceiling))
    BY <1>11 DEF Fits
  <2>2. r \in problem.resources
    BY <1>9
  <2>3. allocated'[r] \in Nat /\ allocated'[r] >= allocated[r]
    BY <1>7, <1>8, <1>10, <2>2
  <2>4. ~(allocated'[r] + 1 <= recompute_ceiling(r, ceiling)')
    BY <1>10, <2>1, <2>2, <2>3
  <2>5. QED
    BY <1>2, <2>4 DEF Fits
<1>12. need' # 0 => ~Fits(p, 1)'
  <2> SUFFICES ASSUME need' # 0 PROVE ~Fits(p, 1)'
    OBVIOUS
  <2>1. ~Fits(p, take + 1)
    BY <1>1, <1>4, <1>7
  <2>2. PICK r \in problem.through[p] : ~(allocated[r] + (take + 1) <= recompute_ceiling(r, ceiling))
    BY <2>1 DEF Fits
  <2>3. r \in problem.resources
    BY <1>5, <1>9
  <2>4. allocated'[r] = allocated[r] + take
    BY <1>8, <2>2, <2>3
  <2>5. ~(allocated'[r] + 1 <= recompute_ceiling(r, ceiling)')
    BY <1>7, <1>10, <2>2, <2>3, <2>4
  <2>6. QED
    BY <1>2, <2>5 DEF Fits
<1>13. FillOK'
  <2>1. /\ need' \in Int /\ need' >= 0 /\ granted'[who] + need' = Target(who)
    <3>1. granted[who] + need = Target(who) /\ granted[who] \in Nat
      BY <1>2, <1>3, <1>4, <1>6 DEF WasteOK, FillOK
    <3>2. QED
      BY <1>1, <1>4, <1>7, <1>8, <3>1
  <2>2. \A x \in EligibleFor(who) : need' = 0 \/ x \in Elements(todo') \/ ~Fits(x, 1)'
    <3> SUFFICES ASSUME NEW x \in EligibleFor(who), need' # 0, x \notin Elements(todo')
                 PROVE  ~Fits(x, 1)'
      OBVIOUS
    <3>1. x \in problem.paths
      BY <1>4, PathFacts
    <3>2. CASE x = p
      BY <1>12, <3>2
    <3>3. CASE x # p
      <4>1. x \notin Elements(todo)
        BY <1>2, <1>6, <3>3
      <4>2. ~Fits(x, 1)
        BY <1>2, <1>3, <1>4, <4>1 DEF WasteOK, FillOK
      <4>3. QED
        BY <1>11, <3>1, <4>2
    <3>4. QED
      BY <3>2, <3>3
  <2>3. Target(who)' = Target(who) /\ EligibleFor(who)' = EligibleFor(who)
    BY <1>2, SameProblem DEF Target, Smaller
  <2>4. QED
    BY <1>2, <2>1, <2>2, <2>3 DEF FillOK
<1>14. NothingWasted'
  <2> SUFFICES ASSUME NEW e \in Active \ (queue \cup {who})
               PROVE  \/ Excluded(e) \/ granted'[e] >= Target(e)
                      \/ \A x \in Elements(problem.eligible[e]) : ~Fits(x, 1)'
    BY <1>2, <1>3, SameProblem DEF NothingWasted, Elements, Target, Smaller
  <2>1. \/ Excluded(e) \/ granted[e] >= Target(e)
        \/ \A x \in Elements(problem.eligible[e]) : ~Fits(x, 1)
    BY <1>2, <1>3 DEF WasteOK, NothingWasted
  <2>2. e \in problem.demands /\ e # who
    BY DEF Active
  <2>3. Elements(problem.eligible[e]) \subseteq problem.paths
    BY <1>4, <2>2, ProblemFacts DEF Elements
  <2>4. QED
    BY <1>8, <1>11, <2>1, <2>2, <2>3
<1>15. QED
  BY <1>13, <1>14 DEF WasteOK

\* Once the soft targets have been filled for a demand, it has its target or
\* none of its paths has room left: the paths place has passed stay full (place,
\* and the loop of solve over the desired bandwidths).
THEOREM NothingWastedHolds == Spec => []NothingWasted
<1>1. Init => WasteOK
  BY DEF Init, WasteOK, FillOK, NothingWasted
<1>2. ASSUME Inv, WasteOK, Next PROVE WasteOK'
  <2>1. CASE phase' # "fill"
    BY <2>1 DEF WasteOK, FillOK, NothingWasted
  <2>2. CASE phase' = "fill" /\ pc' = "visit" /\ queue' = Active /\ problem' = problem
    <3>1. Active' = Active
      BY <2>2, SameProblem
    <3>2. QED
      BY <2>2, <3>1 DEF WasteOK, FillOK, NothingWasted
  <2>3. CASE UNCHANGED <<problem, ceiling, load, queue, phase>> /\ pc # "place" /\ pc' # "place"
    <3>1. problem' = problem /\ granted' = granted
      BY <2>3 DEF load
    <3>2. QED
      BY <1>2, <2>3, <3>1, SameRoom, SameProblem DEF WasteOK, FillOK, NothingWasted, Elements
  <2>4. QED
    BY <1>2, <2>1, <2>2, <2>3, WasteOther, WasteVisit, WastePlaceOn, WastePlaceEnd
<1>3. ASSUME WasteOK, UNCHANGED vars PROVE WasteOK'
  <2>1. /\ UNCHANGED <<problem, ceiling, load>> /\ problem' = problem /\ granted' = granted
        /\ queue' = queue /\ phase' = phase /\ pc' = pc /\ who' = who /\ need' = need /\ todo' = todo
    BY <1>3 DEF vars, load, ceilings, visiting, placing
  <2>2. FillOK'
    BY <1>3, <2>1, SameRoom, SameProblem DEF WasteOK, FillOK, Elements
  <2>3. NothingWasted'
    BY <1>3, <2>1, SameRoom, SameProblem DEF WasteOK, NothingWasted, Elements
  <2>4. QED
    BY <2>2, <2>3 DEF WasteOK
<1>4. WasteOK => NothingWasted
  BY DEF WasteOK
<1>5. QED
  BY <1>1, <1>2, <1>3, <1>4, InvHolds, PTL DEF Spec

(***************************************************************************)
(* The capacity verdict                                                    *)
(***************************************************************************)
\* What a legal split of the floors carries, pair by pair.
Carries(f) == [pair \in Active \X problem.paths |-> f[pair[1]][pair[2]]]
Row(d) == {<<d, p>> : p \in EligibleFor(d)}
Crossing(f, r) ==
    {pair \in Active \X problem.paths : pair[2] \in DOMAIN f[pair[1]] /\ r \in problem.through[pair[2]]}
IsSplit(f) == DOMAIN f = Active /\ \A d \in Active : f[d] \in Splits(d)

LEMMA EligibleFacts ==
    ASSUME problem \in Problems, NEW d \in Active
    PROVE  /\ d \in problem.demands /\ problem.floor[d] \in Nat
           /\ EligibleFor(d) \subseteq problem.paths /\ IsFiniteSet(EligibleFor(d))
           /\ \A p \in EligibleFor(d) :
                 problem.through[p] # {} /\ problem.through[p] \subseteq problem.resources
<1>1. IsProblem(problem)
  BY ProblemsAssumption
<1>2. d \in problem.demands /\ problem.floor[d] \in Nat /\ problem.eligible[d] \in Seq(problem.paths)
  BY <1>1 DEF IsProblem, Active
<1>3. EligibleFor(d) \subseteq problem.paths
  BY <1>2 DEF EligibleFor, Elements
<1>4. IsFiniteSet(EligibleFor(d))
  BY <1>1, <1>3, FS_Subset DEF IsProblem
<1>5. \A p \in problem.paths : problem.through[p] # {} /\ problem.through[p] \subseteq problem.resources
  BY <1>1 DEF IsProblem
<1>6. QED
  BY <1>2, <1>3, <1>4, <1>5

LEMMA SplitFacts ==
    ASSUME problem \in Problems, NEW f, IsSplit(f), NEW d \in Active
    PROVE  /\ DOMAIN f[d] = EligibleFor(d)
           /\ \A p \in EligibleFor(d) : f[d][p] \in Nat /\ Carries(f)[<<d, p>>] = f[d][p]
           /\ SumOver(f[d], EligibleFor(d)) = problem.floor[d]
<1>1. f[d] \in Splits(d)
  BY DEF IsSplit
<1>2. f[d] \in [EligibleFor(d) -> 0 .. problem.floor[d]] /\ SumOver(f[d], EligibleFor(d)) = problem.floor[d]
  BY <1>1 DEF Splits, EligibleFor
<1>3. EligibleFor(d) \subseteq problem.paths /\ problem.floor[d] \in Nat
  BY EligibleFacts
<1>4. \A p \in EligibleFor(d) : Carries(f)[<<d, p>>] = f[d][p]
  BY <1>3 DEF Carries
<1>5. QED
  BY <1>2, <1>3, <1>4

\* The floors of some demands are what their pairs carry.
LEMMA FloorsCarried ==
    ASSUME problem \in Problems, NEW f, IsSplit(f), NEW ds \in SUBSET Active
    PROVE  /\ IsFiniteSet(UNION {Row(d) : d \in ds})
           /\ SumOver(Carries(f), UNION {Row(d) : d \in ds}) = SumOver(problem.floor, ds)
<1> DEFINE P == [d \in ds |-> Row(d)]
           F == Carries(f)
           g == problem.floor
<1>1. IsFiniteSet(ds)
  <2>1. ds \subseteq problem.demands /\ IsFiniteSet(problem.demands)
    BY ProblemFacts DEF Active
  <2>2. QED
    BY <2>1, FS_Subset
<1>2. ASSUME NEW d \in ds
      PROVE  IsFiniteSet(P[d]) /\ (\A x \in P[d] : F[x] \in Int) /\ g[d] = SumOver(F, P[d])
  <2>1. d \in Active /\ P[d] = {<<d, p>> : p \in EligibleFor(d)}
    BY DEF Row
  <2>2. /\ IsFiniteSet(EligibleFor(d))
        /\ \A p \in EligibleFor(d) : f[d][p] \in Int /\ F[<<d, p>>] = f[d][p]
    BY <2>1, EligibleFacts, SplitFacts
  <2>3. SumOver(f[d], EligibleFor(d)) = g[d]
    BY <2>1, SplitFacts
  <2> HIDE DEF P, F, g
  <2>4. IsFiniteSet(P[d]) /\ SumOver(F, P[d]) = SumOver(f[d], EligibleFor(d))
    <3> DEFINE E == EligibleFor(d)
               e == [p \in E |-> <<d, p>>]
               h == f[d]
               W == P[d]
    <3>1. /\ IsFiniteSet(E) /\ W = {e[p] : p \in E} /\ \A p, q \in E : p # q => e[p] # e[q]
          /\ \A p \in E : h[p] \in Int /\ F[e[p]] = h[p]
      BY <2>1, <2>2
    <3> HIDE DEF E, e, h, W
    <3>2. IsFiniteSet(W) /\ SumOver(F, W) = SumOver(h, E)
      BY <3>1, SumRenamed
    <3>3. QED
      BY <3>2 DEF E, h, W
  <2>5. \A x \in P[d] : F[x] \in Int
    BY <2>1, <2>2
  <2>6. QED
    BY <2>3, <2>4, <2>5
<1>3. \A d, e \in ds : d # e => P[d] \cap P[e] = {}
  BY DEF Row
<1>4. {P[d] : d \in ds} = {Row(d) : d \in ds}
  OBVIOUS
<1>5. /\ \A d \in ds : IsFiniteSet(P[d])
      /\ \A d \in ds : \A x \in P[d] : F[x] \in Int
      /\ \A d \in ds : g[d] = SumOver(F, P[d])
  BY <1>2
<1>6. /\ IsFiniteSet(UNION {P[d] : d \in ds})
      /\ SumOver(F, UNION {P[d] : d \in ds}) = SumOver(g, ds)
  <2> HIDE DEF P, F, g
  <2>1. QED
    BY <1>1, <1>3, <1>5, SumParts
<1>7. QED
  BY <1>4, <1>6

\* What crosses some resources is at most what they admit.
LEMMA ResourcesAdmit ==
    ASSUME problem \in Problems, NEW f, IsSplit(f), NEW x \in Nat, NEW R \in SUBSET problem.resources,
           \A r \in problem.resources :
              SumOver([pair \in Crossing(f, r) |-> f[pair[1]][pair[2]]], Crossing(f, r))
                  <= recompute_ceiling(r, x)
    PROVE  /\ IsFiniteSet(UNION {Crossing(f, r) : r \in R})
           /\ \A pair \in UNION {Crossing(f, r) : r \in R} : Carries(f)[pair] \in Nat
           /\ SumOver(Carries(f), UNION {Crossing(f, r) : r \in R})
                <= SumOver([r \in problem.resources |-> recompute_ceiling(r, x)], R)
<1> DEFINE P == [r \in R |-> Crossing(f, r)]
           F == Carries(f)
           g == [r \in problem.resources |-> recompute_ceiling(r, x)]
<1>1. IsFiniteSet(R) /\ IsFiniteSet(Active \X problem.paths)
  <2>1. Active \subseteq problem.demands /\ IsFiniteSet(problem.demands)
        /\ IsFiniteSet(problem.resources) /\ IsFiniteSet(problem.paths)
    BY ProblemFacts DEF Active
  <2>2. IsFiniteSet(R) /\ IsFiniteSet(Active)
    BY <2>1, FS_Subset
  <2>3. QED
    BY <2>1, <2>2, FS_Product
<1>2. ASSUME NEW r \in R
      PROVE  /\ IsFiniteSet(P[r]) /\ (\A pair \in P[r] : F[pair] \in Nat)
             /\ g[r] \in Nat /\ SumOver(F, P[r]) <= g[r]
  <2>1. P[r] = Crossing(f, r) /\ r \in problem.resources /\ g[r] = recompute_ceiling(r, x)
    OBVIOUS
  <2>2. P[r] \subseteq Active \X problem.paths /\ IsFiniteSet(P[r])
    BY <1>1, <2>1, FS_Subset DEF Crossing
  <2>3. \A pair \in P[r] : F[pair] \in Nat /\ F[pair] = f[pair[1]][pair[2]]
    <3>1. SUFFICES ASSUME NEW pair \in P[r]
                   PROVE  F[pair] \in Nat /\ F[pair] = f[pair[1]][pair[2]]
      OBVIOUS
    <3>2. pair \in Active \X problem.paths /\ pair[2] \in DOMAIN f[pair[1]]
      BY <2>1, <3>1 DEF Crossing
    <3>3. pair[1] \in Active /\ pair = <<pair[1], pair[2]>>
      BY <3>2
    <3>4. pair[2] \in EligibleFor(pair[1])
      BY <3>2, <3>3, SplitFacts
    <3>5. f[pair[1]][pair[2]] \in Nat /\ F[<<pair[1], pair[2]>>] = f[pair[1]][pair[2]]
      BY <3>3, <3>4, SplitFacts
    <3>6. QED
      BY <3>3, <3>5
  <2>4. SumOver(F, P[r]) = SumOver([pair \in P[r] |-> f[pair[1]][pair[2]]], P[r])
    <3> DEFINE G == [pair \in P[r] |-> f[pair[1]][pair[2]]]
    <3>1. \A pair \in P[r] : F[pair] = G[pair]
      BY <2>3
    <3> HIDE DEF G, F, P
    <3>2. SumOver(F, P[r]) = SumOver(G, P[r])
      BY <2>2, <3>1, SumCongruence
    <3>3. QED
      BY <3>2 DEF G
  <2>5. SumOver(F, P[r]) <= recompute_ceiling(r, x)
    BY <2>1, <2>4
  <2>6. recompute_ceiling(r, x) \in Nat
    BY <2>1, CeilingFacts
  <2>7. QED
    BY <2>1, <2>2, <2>3, <2>5, <2>6
<1>3. {P[r] : r \in R} = {Crossing(f, r) : r \in R}
  OBVIOUS
<1>4. /\ \A r \in R : IsFiniteSet(P[r])
      /\ \A r \in R : \A pair \in P[r] : F[pair] \in Nat
      /\ \A r \in R : g[r] \in Nat /\ SumOver(F, P[r]) <= g[r]
  BY <1>2
<1>5. /\ IsFiniteSet(UNION {P[r] : r \in R}) /\ SumOver(F, UNION {P[r] : r \in R}) <= SumOver(g, R)
      /\ \A pair \in UNION {P[r] : r \in R} : F[pair] \in Nat
  <2> HIDE DEF P, F, g
  <2>1. /\ IsFiniteSet(UNION {P[r] : r \in R}) /\ SumOver(F, UNION {P[r] : r \in R}) <= SumOver(g, R)
    BY <1>1, <1>4, SumCover
  <2>2. QED
    BY <1>4, <2>1
<1>6. QED
  BY <1>3, <1>5

\* A cut bounds every flow: floors that can be split within the ceilings pass
\* the certificate, whichever demands are cut off.
LEMMA CarriableIsFeasible ==
    ASSUME problem \in Problems, NEW x \in Nat, Carriable(x)
    PROVE  RelaxedFeasible(x)
<1>1. PICK f : /\ IsSplit(f)
               /\ \A r \in problem.resources :
                     SumOver([pair \in Crossing(f, r) |-> f[pair[1]][pair[2]]], Crossing(f, r))
                         <= recompute_ceiling(r, x)
  BY DEF Carriable, IsSplit, Crossing
<1>2. Starved = {}
  <2>1. SUFFICES ASSUME NEW d \in Starved PROVE FALSE
    OBVIOUS
  <2>2. d \in Active /\ problem.floor[d] > 0 /\ EligibleFor(d) = {}
    BY DEF Starved, Floored, EligibleFor, Elements
  <2>3. problem.floor[d] = 0
    BY <1>1, <2>2, SplitFacts, SumEmpty
  <2>4. QED
    BY <2>2, <2>3
<1>3. ASSUME NEW ds \in SUBSET Carried
      PROVE  SumOver(problem.floor, Carried) <= Cut(ds, x)
  <2> DEFINE R == UsedResources(ds)
             A == UNION {Row(d) : d \in ds}
             B == UNION {Crossing(f, r) : r \in R}
             rest == Carried \ ds
             cap == SumOver([r \in problem.resources |-> recompute_ceiling(r, x)], R)
  <2>1. ds \in SUBSET Active /\ rest \in SUBSET Active /\ Carried = ds \cup rest /\ ds \cap rest = {}
    BY DEF Carried, Floored
  <2>2. R \in SUBSET problem.resources
    <3>1. \A d \in ds : \A p \in EligibleFor(d) : problem.through[p] \subseteq problem.resources
      BY <2>1, EligibleFacts
    <3>2. QED
      BY <3>1 DEF UsedResources, UsedPaths, EligibleFor
  <2>3. A \subseteq B
    <3>1. SUFFICES ASSUME NEW d \in ds, NEW p \in EligibleFor(d) PROVE <<d, p>> \in B
      BY DEF Row
    <3>2. d \in Active /\ p \in problem.paths /\ p \in DOMAIN f[d]
      BY <1>1, <2>1, EligibleFacts, SplitFacts
    <3>3. PICK r \in problem.through[p] : TRUE
      BY <2>1, EligibleFacts
    <3>4. r \in R
      BY <3>3 DEF UsedResources, UsedPaths, EligibleFor
    <3>5. <<d, p>> \in Crossing(f, r)
      BY <3>2, <3>3 DEF Crossing
    <3>6. QED
      BY <3>4, <3>5
  <2>4. SumOver(Carries(f), A) = SumOver(problem.floor, ds)
    BY <1>1, <2>1, FloorsCarried
  <2>5. /\ IsFiniteSet(B) /\ \A pair \in B : Carries(f)[pair] \in Nat
        /\ SumOver(Carries(f), B) <= cap
    BY <1>1, <2>2, ResourcesAdmit
  <2>6. /\ SumOver(Carries(f), A) <= SumOver(Carries(f), B)
        /\ SumOver(Carries(f), A) \in Nat /\ SumOver(Carries(f), B) \in Nat
    <3> HIDE DEF A, B
    <3>1. QED
      BY <2>3, <2>5, SumMonotone
  <2>7. \A d \in Active : problem.floor[d] \in Int
    BY EligibleFacts
  <2>8. IsFiniteSet(ds) /\ IsFiniteSet(rest)
    <3>1. IsFiniteSet(problem.demands) /\ ds \subseteq problem.demands /\ rest \subseteq problem.demands
      BY <2>1, ProblemFacts DEF Active
    <3>2. QED
      BY <3>1, FS_Subset
  <2>9. SumOver(problem.floor, Carried) = SumOver(problem.floor, ds) + SumOver(problem.floor, rest)
    <3> HIDE DEF rest
    <3>1. \A d \in ds \cup rest : problem.floor[d] \in Int
      BY <2>1, <2>7
    <3>2. SumOver(problem.floor, ds \cup rest) = SumOver(problem.floor, ds) + SumOver(problem.floor, rest)
      BY <2>1, <2>8, <3>1, SumUnion
    <3>3. QED
      BY <2>1, <3>2
  <2>10. SumOver(problem.floor, rest) \in Int
    BY <2>1, <2>7, <2>8, SumInt
  <2>11. cap \in Int
    <3> DEFINE c == [r \in problem.resources |-> recompute_ceiling(r, x)]
    <3>1. \A r \in R : c[r] \in Int
      BY <2>2, CeilingFacts
    <3>2. IsFiniteSet(R)
      BY <2>2, ProblemFacts, FS_Subset
    <3>3. SumOver(c, R) \in Int
      <4> HIDE DEF c, R
      <4>1. QED
        BY <3>1, <3>2, SumInt
    <3>4. QED
      BY <3>3
  <2>12. Cut(ds, x) = SumOver(problem.floor, rest) + cap
    BY DEF Cut
  <2> DEFINE carried == SumOver(problem.floor, ds)
             others == SumOver(problem.floor, rest)
             whole == SumOver(problem.floor, Carried)
             crossed == SumOver(Carries(f), B)
  <2>13. /\ whole = carried + others /\ carried <= crossed /\ crossed <= cap
         /\ carried \in Int /\ others \in Int /\ crossed \in Int /\ cap \in Int
    BY <2>4, <2>5, <2>6, <2>9, <2>10, <2>11
  <2>14. whole <= others + cap
    <3> HIDE DEF carried, others, whole, crossed, cap
    <3>1. QED
      BY <2>13
  <2>15. QED
    BY <2>12, <2>14
<1>4. QED
  BY <1>2, <1>3 DEF RelaxedFeasible

\* What the verdict rests on.
CapacityOK == Built /\ status = "infeasible_capacity" => ~RelaxedFeasible(problem.policy_ceiling)

LEMMA CapacityNext ==
    ASSUME MaxProbes >= 10, Inv, StatusOK, CeilingOK, CapacityOK, Next PROVE CapacityOK'
<1>1. problem' = problem
  BY OtherSteps DEF Begin, SearchProbe, SearchEnd
<1>2. /\ Built' <=> Built
      /\ RelaxedFeasible(problem.policy_ceiling)' <=> RelaxedFeasible(problem.policy_ceiling)
  BY <1>1, SameBuilt, SameFeasible
<1>3. CASE status' = status
  BY <1>1, <1>2, <1>3 DEF CapacityOK
<1>4. CASE status' # status
  <2>1. Begin \/ SearchEnd \/ Conclude
    BY <1>4 DEF Next, SearchProbe, VisitMinimum, PlaceOn, PlaceEnd, RepairRound, RepairEnd,
       ScanHop, ScanPath, NextMover, MoversEnd, MoveSkip, MoveOnto, MoveEnd, MinimumsEnd, Widen,
       VisitFill, FillEnd, VisitConsolidate, ConsolidateFrom, ConsolidateEnd
  <2>2. CASE Begin
    BY <1>4, <2>2 DEF Begin, Return, CapacityOK
  <2>3. CASE SearchEnd
    <3>1. SUFFICES ASSUME Built PROVE ~RelaxedFeasible(problem.policy_ceiling)
      BY <1>1, <1>2 DEF CapacityOK
    <3>2. pc = "search" /\ ~Searching /\ search.best = 0 /\ IntervalOK
      BY <1>4, <2>3, <3>1 DEF SearchEnd, CeilingOK
    <3>3. search.low = search.high + 1 /\ search.high = problem.policy_ceiling
      BY <3>2, Exhausted DEF IntervalOK
    <3>4. problem.policy_ceiling \in 1 .. 1000
      BY ProblemFacts DEF Inv, TypeOK
    <3>5. search.low # 1 /\ search.low - 1 = problem.policy_ceiling
      BY <3>3, <3>4
    <3>6. QED
      BY <3>2, <3>5 DEF IntervalOK
  <2>4. CASE Conclude
    <3>1. status' \in {Verdict, "conflicting_input"}
      BY <2>4 DEF Conclude, Return
    <3>2. Verdict = "infeasible_capacity" => ~RelaxedFeasible(problem.policy_ceiling)
      BY DEF Verdict
    <3>3. QED
      BY <1>1, <1>2, <3>1, <3>2 DEF CapacityOK
  <2>5. QED
    BY <2>1, <2>2, <2>3, <2>4
<1>5. QED
  BY <1>3, <1>4

\* When the certificate was built, "infeasible_capacity" is true of the problem:
\* no assignment of the floors to eligible paths respects the policy's ceiling,
\* whether the search found no ceiling or the construction failed (certify, and
\* both places of solve that return the verdict).
THEOREM CapacityVerdictSoundHolds ==
    ASSUME MaxProbes >= 10 PROVE Spec => [](Built => CapacityVerdictSound)
<1> DEFINE Known == StatusOK /\ CeilingOK /\ CapacityOK
<1>1. Init => Known
  BY DEF Init, StatusOK, CeilingOK, SettledOK, CapacityOK
<1>2. ASSUME Inv, Known, Next PROVE Known'
  <2>1. pc # "done" /\ status = "none" /\ (status' = status \/ pc' = "done")
    BY <1>2, NextStatus DEF StatusOK
  <2>2. StatusOK'
    BY <2>1 DEF StatusOK
  <2>3. QED
    BY <1>2, <2>2, CeilingNext, CapacityNext
<1>3. ASSUME Known, UNCHANGED vars PROVE Known'
  <2>1. /\ problem' = problem /\ pc' = pc /\ status' = status /\ search' = search
        /\ ceiling' = ceiling /\ run' = run /\ phase' = phase
    BY <1>3 DEF vars, ceilings, visiting
  <2>2. (\A x : RelaxedFeasible(x)' <=> RelaxedFeasible(x)) /\ (Built' <=> Built)
    BY <2>1, SameFeasible, SameBuilt
  <2>3. CeilingOK'
    <3>1. IntervalOK' <=> IntervalOK
      BY <2>1, <2>2 DEF IntervalOK
    <3>2. SettledOK' <=> SettledOK
      BY <2>1, <2>2 DEF SettledOK, Least, Has
    <3>3. QED
      BY <1>3, <2>1, <3>1, <3>2 DEF CeilingOK
  <2>4. StatusOK'
    BY <1>3, <2>1 DEF StatusOK
  <2>5. CapacityOK'
    <3>1. RelaxedFeasible(problem.policy_ceiling)' <=> RelaxedFeasible(problem.policy_ceiling)
      BY <2>1, <2>2
    <3>2. QED
      BY <1>3, <2>1, <2>2, <3>1 DEF CapacityOK
  <2>6. QED
    BY <2>3, <2>4, <2>5
<1>4. Inv /\ Known => (Built => CapacityVerdictSound)
  <2>1. SUFFICES ASSUME Inv, CapacityOK, Built, status = "infeasible_capacity"
                 PROVE  ~Carriable(problem.policy_ceiling)
    BY DEF CapacityVerdictSound
  <2>2. problem \in Problems /\ problem.policy_ceiling \in Nat
    <3>1. problem \in Problems
      BY <2>1 DEF Inv, TypeOK
    <3>2. problem.policy_ceiling \in 1 .. 1000
      BY <3>1, ProblemFacts
    <3>3. QED
      BY <3>1, <3>2
  <2>3. QED
    BY <2>1, <2>2, CarriableIsFeasible DEF CapacityOK
<1>5. Inv /\ Known /\ [Next]_vars => Known'
  BY <1>2, <1>3
<1> HIDE DEF Known
<1>6. QED
  BY <1>1, <1>4, <1>5, InvHolds, PTL DEF Spec

(***************************************************************************)
(* The final run repeats the trial.  run_minimums is a function of its own *)
(* state alone as long as the iteration budget is not exhausted: what an   *)
(* earlier run left in the variables of its inner loops is written before  *)
(* it is read.  Step is that function; p is the problem and c the ceiling. *)
(***************************************************************************)
CapOf(p, r, c) ==
    LET cap == (p.usable[r] * c) \div 1000
    IN  Smaller(p.available[r], Larger(0, cap - p.claimed[r]))
HasRoom(p, c, a, path, amount) ==
    \/ amount = 0
    \/ \A r \in p.through[path] : a[r] + amount <= CapOf(p, r, c)
TakesOf(p, c, a, path, wanted) ==
    {take \in 0 .. wanted :
        HasRoom(p, c, a, path, take) /\ (take < wanted => ~HasRoom(p, c, a, path, take + 1))}
TakeOf(p, c, a, path, wanted) == CHOOSE take : take \in TakesOf(p, c, a, path, wanted)

IsFirst(p, ds, d) ==
    /\ d \in ds
    /\ \A e \in ds \ {d} : \/ p.priority[d] > p.priority[e]
                           \/ p.priority[d] = p.priority[e] /\ d < e
FirstOf(p, ds) == CHOOSE d : IsFirst(p, ds, d)

SharesOf(p, s) == [pair \in p.demands \X p.paths |-> s[pair[1]][pair[2]]]
DomainLoad(p, s, f) ==
    SumOver(SharesOf(p, s), {pair \in p.demands \X p.paths : f \in p.failure_domains[pair[2]]})
DomainScore(p, s, x) ==
    SumOver([f \in p.failure_domains[x] |-> DomainLoad(p, s, f)], p.failure_domains[x])
PrefersOf(p, s, d, x, y) ==
    LET used(z) == "minimize_churn" \in p.terms /\ z \in p.incumbent[d]
        score(z) == IF "minimize_failure_domain_concentration" \in p.terms
                    THEN DomainScore(p, s, z) ELSE 0
    IN  \/ used(x) /\ ~used(y)
        \/ /\ used(x) = used(y)
           /\ \/ score(x) < score(y)
              \/ score(x) = score(y) /\ <<x, y>> \in p.less
OrdersOf(p, s, d) ==
    {q \in [DOMAIN p.eligible[d] -> Elements(p.eligible[d])] :
        \A i, j \in DOMAIN q : i < j => PrefersOf(p, s, d, q[i], q[j])}
OrderOf(p, s, d) == CHOOSE q : q \in OrdersOf(p, s, d)

MoversOf(p, s, d, r) ==
    {[demand |-> pair[1], path |-> pair[2], granted |-> s[pair[1]][pair[2]]] :
        pair \in {x \in (p.demands \ {d}) \X p.paths :
                    s[x[1]][x[2]] > 0 /\ r \in p.through[x[2]]}}
IsFirstMover(p, ms, m) ==
    /\ m \in ms
    /\ \A n \in ms \ {m} :
         \/ p.priority[m.demand] < p.priority[n.demand]
         \/ /\ p.priority[m.demand] = p.priority[n.demand]
            /\ m.demand < n.demand \/ (m.demand = n.demand /\ m.path < n.path)
FirstMover(p, ms) == CHOOSE m : IsFirstMover(p, ms, m)
HopOf(hs) == CHOOSE r \in hs : \A q \in hs : r <= q

LEMMA SameOperators ==
    /\ \A r, c : recompute_ceiling(r, c) = CapOf(problem, r, c)
    /\ \A path, amount : Fits(path, amount) = HasRoom(problem, ceiling, allocated, path, amount)
    /\ \A path, wanted : Takes(path, wanted) = TakesOf(problem, ceiling, allocated, path, wanted)
    /\ \A d : phase # "fill" => (IsNext(d) <=> IsFirst(problem, queue, d))
    /\ \A d, x, y : Prefers(d, x, y) = PrefersOf(problem, shares, d, x, y)
    /\ \A d : order_paths(d) = OrdersOf(problem, shares, d)
    /\ \A r : MoversOn(r) = MoversOf(problem, shares, who, r)
    /\ Hop = HopOf(hops)
<1>1. \A r, c : recompute_ceiling(r, c) = CapOf(problem, r, c)
  BY DEF recompute_ceiling, CapOf
<1>2. \A path, amount : Fits(path, amount) = HasRoom(problem, ceiling, allocated, path, amount)
  BY DEF recompute_ceiling, CapOf, Fits, HasRoom
<1>3. \A path, wanted : Takes(path, wanted) = TakesOf(problem, ceiling, allocated, path, wanted)
  BY DEF recompute_ceiling, CapOf, Fits, HasRoom, Takes, TakesOf
<1>4. \A d : phase # "fill" => (IsNext(d) <=> IsFirst(problem, queue, d))
  BY DEF IsNext, IsFirst, Precedes
<1>5. \A d, x, y : Prefers(d, x, y) = PrefersOf(problem, shares, d, x, y)
  BY DEF Prefers, PrefersOf, Has, domain_score, DomainScore, failure_domain_load, DomainLoad,
         ShareOf, SharesOf, Pairs
<1>6. \A d : order_paths(d) = OrdersOf(problem, shares, d)
  BY DEF order_paths, OrdersOf, Prefers, PrefersOf, Has, domain_score, DomainScore,
         failure_domain_load, DomainLoad, ShareOf, SharesOf, Pairs
<1>7. \A r : MoversOn(r) = MoversOf(problem, shares, who, r)
  BY DEF MoversOn, MoversOf
<1>8. Hop = HopOf(hops)
  BY DEF Hop, HopOf
<1>9. QED
  BY <1>1, <1>2, <1>3, <1>4, <1>5, <1>6, <1>7, <1>8

\* Each choice has one outcome.
LEMMA TakeIsUnique ==
    ASSUME Inv, NEW path \in problem.paths, NEW wanted \in Int, NEW take \in Takes(path, wanted)
    PROVE  take = TakeOf(problem, ceiling, allocated, path, wanted)
<1>1. ASSUME NEW k \in Takes(path, wanted), NEW l \in Takes(path, wanted), k < l PROVE FALSE
  <2>1. k \in 0 .. wanted /\ l \in 0 .. wanted /\ Fits(path, l) /\ k < wanted
        /\ ~Fits(path, k + 1)
    BY <1>1 DEF Takes
  <2>2. l # 0 /\ k + 1 <= l /\ k + 1 \in Nat /\ l \in Nat
    BY <1>1, <2>1
  <2>3. \A r \in problem.through[path] : allocated[r] + l <= recompute_ceiling(r, ceiling)
    BY <2>1, <2>2 DEF Fits
  <2>4. \A r \in problem.through[path] : allocated[r] \in Nat /\ recompute_ceiling(r, ceiling) \in Nat
    <3>1. /\ problem.through[path] \subseteq problem.resources
          /\ \A r \in problem.resources : allocated[r] \in Nat
      BY ProblemFacts DEF Inv, TypeOK
    <3>2. ceiling \in Nat /\ problem \in Problems
      BY ProblemFacts DEF Inv, TypeOK, SearchOK
    <3>3. QED
      BY <3>1, <3>2, CeilingFacts
  <2>5. \A r \in problem.through[path] : allocated[r] + (k + 1) <= recompute_ceiling(r, ceiling)
    BY <2>2, <2>3, <2>4
  <2>6. QED
    BY <2>1, <2>5 DEF Fits
<1>2. ASSUME NEW k \in Takes(path, wanted), NEW l \in Takes(path, wanted) PROVE k = l
  <2>1. k \in Int /\ l \in Int
    BY DEF Takes
  <2>2. QED
    BY <1>1, <2>1
<1>3. TakeOf(problem, ceiling, allocated, path, wanted) \in Takes(path, wanted)
  BY SameOperators DEF TakeOf
<1>4. QED
  BY <1>2, <1>3

LEMMA FirstIsUnique ==
    ASSUME Inv, NEW d, IsFirst(problem, queue, d)
    PROVE  d = FirstOf(problem, queue)
<1>1. queue \subseteq problem.demands /\ problem.demands \subseteq Nat
      /\ \A e \in problem.demands : problem.priority[e] \in Nat
  <2>1. problem.priority \in [problem.demands -> Nat]
    BY ProblemsAssumption DEF Inv, TypeOK, IsProblem
  <2>2. QED
    BY <2>1, ProblemFacts DEF Inv, TypeOK, LoopTypes, Active
<1>2. \A e : IsFirst(problem, queue, e) => e = d
  BY <1>1 DEF IsFirst
<1>3. IsFirst(problem, queue, FirstOf(problem, queue))
  BY DEF FirstOf
<1>4. QED
  BY <1>2, <1>3

LEMMA NotBoth ==
    ASSUME Inv, NEW d, NEW x \in problem.paths, NEW y \in problem.paths,
           Prefers(d, x, y), Prefers(d, y, x)
    PROVE  FALSE
<1> DEFINE used(z) == Has("minimize_churn") /\ z \in problem.incumbent[d]
           score(z) == IF Has("minimize_failure_domain_concentration") THEN domain_score(z) ELSE 0
<1>1. <<x, y>> \in problem.less => <<y, x>> \notin problem.less
  BY ProblemsAssumption DEF Inv, TypeOK, IsProblem
<1>2. score(x) \in Int /\ score(y) \in Int
  BY InvLoad, ScoreInt
<1>3. \/ used(x) /\ ~used(y)
      \/ /\ used(x) = used(y)
         /\ score(x) < score(y) \/ (score(x) = score(y) /\ <<x, y>> \in problem.less)
  BY DEF Prefers
<1>4. \/ used(y) /\ ~used(x)
      \/ /\ used(y) = used(x)
         /\ score(y) < score(x) \/ (score(y) = score(x) /\ <<y, x>> \in problem.less)
  BY DEF Prefers
<1> HIDE DEF used, score
<1>5. QED
  BY <1>1, <1>2, <1>3, <1>4

LEMMA OrderIsUnique ==
    ASSUME Inv, NEW d \in problem.demands, NEW q \in order_paths(d)
    PROVE  q = OrderOf(problem, shares, d)
<1> DEFINE n == Len(problem.eligible[d])
           S == 1 .. n
           E == EligibleFor(d)
<1>1. n \in Nat /\ DOMAIN problem.eligible[d] = S /\ E \subseteq problem.paths
  <2>1. problem.eligible[d] \in Seq(problem.paths)
    BY ProblemFacts DEF Inv, TypeOK
  <2>2. QED
    BY <2>1 DEF EligibleFor, Elements
<1>2. ASSUME NEW a \in order_paths(d)
      PROVE  /\ a \in [S -> E] /\ \A i, j \in S : i < j => Prefers(d, a[i], a[j])
             /\ \A x \in E : \E i \in S : a[i] = x
  <2>1. a \in [S -> E] /\ \A i, j \in S : i < j => Prefers(d, a[i], a[j])
    BY <1>1 DEF order_paths, EligibleFor
  <2>2. Elements(a) = E
    BY InvLoad, OrderComplete
  <2> HIDE DEF S, E
  <2>3. QED
    BY <2>1, <2>2 DEF Elements
<1> HIDE DEF E
<1>3. ASSUME NEW a \in order_paths(d), NEW b \in order_paths(d) PROVE a = b
  <2> DEFINE Same(k) == \A i \in S : i <= k => a[i] = b[i]
             Good == {k \in Nat : Same(k)}
  <2>1. 0 \in Good
    OBVIOUS
  <2>2. ASSUME NEW k \in Nat, k \in Good PROVE k + 1 \in Good
    <3> SUFFICES ASSUME k + 1 \in S PROVE a[k + 1] = b[k + 1]
      BY <1>1, <2>2
    <3>1. ASSUME a[k + 1] # b[k + 1] PROVE FALSE
      <4>1. PICK i \in S : a[i] = b[k + 1]
        BY <1>2
      <4>2. PICK j \in S : b[j] = a[k + 1]
        BY <1>2
      <4>3. a[k + 1] \in problem.paths /\ b[k + 1] \in problem.paths
        BY <1>1, <1>2
      <4>4. ~(i <= k)
        <5> SUFFICES ASSUME i <= k PROVE FALSE
          OBVIOUS
        <5>1. b[i] = b[k + 1] /\ i < k + 1
          BY <2>2, <4>1
        <5>2. Prefers(d, b[i], b[k + 1])
          BY <1>2, <5>1
        <5>3. QED
          BY <4>3, <5>1, <5>2, NotBoth
      <4>5. ~(j <= k)
        <5> SUFFICES ASSUME j <= k PROVE FALSE
          OBVIOUS
        <5>1. a[j] = a[k + 1] /\ j < k + 1
          BY <2>2, <4>2
        <5>2. Prefers(d, a[j], a[k + 1])
          BY <1>2, <5>1
        <5>3. QED
          BY <4>3, <5>1, <5>2, NotBoth
      <4>6. i # k + 1 /\ j # k + 1
        BY <3>1, <4>1, <4>2
      <4>7. k + 1 < i /\ k + 1 < j
        BY <1>1, <4>4, <4>5, <4>6
      <4>8. Prefers(d, a[k + 1], b[k + 1]) /\ Prefers(d, b[k + 1], a[k + 1])
        BY <1>2, <4>1, <4>2, <4>7
      <4>9. QED
        BY <4>3, <4>8, NotBoth
    <3>2. QED
      BY <3>1
  <2>3. Nat \subseteq Good
    <3> HIDE DEF Good
    <3>1. QED
      BY <2>1, <2>2, NatSetInduction
  <2>4. \A i \in S : a[i] = b[i]
    BY <1>1, <2>3
  <2>5. QED
    BY <1>2, <2>4
<1>4. OrderOf(problem, shares, d) \in order_paths(d)
  BY SameOperators DEF OrderOf
<1>5. QED
  BY <1>3, <1>4

LEMMA FirstMoverIsUnique ==
    ASSUME Inv, pc = "movers", NEW m, IsFirstMover(problem, movers, m)
    PROVE  m = FirstMover(problem, movers)
<1>1. /\ \A e \in movers : e.demand \in problem.demands /\ e.path \in problem.paths
      /\ problem.demands \subseteq Nat /\ problem.paths \subseteq Nat
      /\ \A e \in problem.demands : problem.priority[e] \in Nat
  <2>1. problem.priority \in [problem.demands -> Nat] /\ problem.paths \subseteq Nat
    BY ProblemsAssumption DEF Inv, TypeOK, IsProblem
  <2>2. QED
    BY <2>1, ProblemFacts DEF Inv, TypeOK, MovesOK, MoverOK, Served, Active
<1>2. \A e : IsFirstMover(problem, movers, e) => e = m
  BY <1>1 DEF IsFirstMover
<1>3. IsFirstMover(problem, movers, FirstMover(problem, movers))
  BY DEF FirstMover
<1>4. QED
  BY <1>2, <1>3

Names == {"pc", "queue", "who", "preferred", "rounds", "todo", "need", "hops", "progressed",
          "movers", "deficit", "moving", "shares", "granted", "allocated"}
With(x, y) == [n \in Names |-> IF n \in DOMAIN y THEN y[n] ELSE x[n]]

\* What place asks for.
Asked(p, x, d, wanted) == Smaller(wanted, Larger(0, p.maximum[d] - x.granted[d]))

GrantOf(p, x, d, path, take) ==
    [shares |-> [x.shares EXCEPT ![d][path] = @ + take],
     granted |-> [x.granted EXCEPT ![d] = @ + take],
     allocated |-> [r \in p.resources |->
                      IF r \in p.through[path] THEN x.allocated[r] + take ELSE x.allocated[r]]]
RevokeOf(p, x, d, path, amount) ==
    LET taken == Smaller(amount, x.shares[d][path])
    IN  [shares |-> [x.shares EXCEPT ![d][path] = @ - taken],
         granted |-> [x.granted EXCEPT ![d] = Larger(0, @ - taken)],
         allocated |-> [r \in p.resources |->
                          IF r \in p.through[path]
                          THEN Larger(0, x.allocated[r] - taken) ELSE x.allocated[r]]]

AfterVisit(p, x) ==
    LET d == FirstOf(p, x.queue)
        q == OrderOf(p, x.shares, d)
    IN  IF p.excluded[d] THEN With(x, [queue |-> x.queue \ {d}])
        ELSE With(x, [queue |-> x.queue \ {d}, who |-> d, rounds |-> 0, preferred |-> q,
                      pc |-> "place", todo |-> q, need |-> Asked(p, x, d, p.floor[d])])
AfterPlace(p, c, x) ==
    LET take == TakeOf(p, c, x.allocated, Head(x.todo), x.need)
    IN  IF x.todo # <<>> /\ x.need > 0
        THEN With(With(x, GrantOf(p, x, x.who, Head(x.todo), take)),
                  [need |-> x.need - take, todo |-> Tail(x.todo)])
        ELSE With(x, [pc |-> "repair"])
AfterRepair(p, x) ==
    IF x.granted[x.who] < p.floor[x.who] /\ x.rounds < 4
    THEN With(x, [rounds |-> x.rounds + 1, need |-> p.floor[x.who] - x.granted[x.who],
                  progressed |-> FALSE, todo |-> x.preferred, pc |-> "scan",
                  hops |-> IF x.preferred = <<>> THEN {} ELSE p.through[Head(x.preferred)]])
    ELSE With(x, [pc |-> "visit"])
AfterHop(p, c, x) ==
    LET r == HopOf(x.hops)
        room == CapOf(p, r, c) - x.allocated[r]
    IN  IF room >= x.need THEN With(x, [progressed |-> TRUE, hops |-> {}])
        ELSE With(x, [movers |-> MoversOf(p, x.shares, x.who, r), deficit |-> x.need - room,
                      pc |-> "movers"])
AfterPath(p, x) ==
    IF x.progressed
    THEN With(x, [pc |-> "place", todo |-> x.preferred,
                  need |-> Asked(p, x, x.who, p.floor[x.who] - x.granted[x.who])])
    ELSE IF Len(x.todo) > 1
         THEN With(x, [todo |-> Tail(x.todo), hops |-> p.through[Head(Tail(x.todo))]])
         ELSE With(x, [pc |-> "visit"])
AfterMovers(p, x) ==
    LET m == FirstMover(p, x.movers)
    IN  IF x.movers # {} /\ x.deficit > 0
        THEN With(x, [movers |-> x.movers \ {m}, pc |-> "move",
                      moving |-> [demand |-> m.demand, from |-> m.path,
                                  targets |-> p.eligible[m.demand],
                                  wanted |-> Smaller(x.deficit, m.granted), moved |-> 0]])
        ELSE With(x, [progressed |-> (x.progressed \/ x.deficit <= 0),
                      hops |-> x.hops \ {HopOf(x.hops)}, pc |-> "scan"])
AfterMove(p, c, x) ==
    LET m == x.moving
        onto == Head(m.targets)
        take == TakeOf(p, c, x.allocated, onto, m.wanted - m.moved)
    IN  IF m.moved < m.wanted /\ m.targets # <<>>
        THEN IF onto # m.from /\ HopOf(x.hops) \notin p.through[onto]
             THEN With(With(x, GrantOf(p, x, m.demand, onto, take)),
                       [moving |-> [m EXCEPT !.targets = Tail(@), !.moved = @ + take]])
             ELSE With(x, [moving |-> [m EXCEPT !.targets = Tail(@)]])
        ELSE With(With(x, RevokeOf(p, x, m.demand, m.from, m.moved)),
                  [deficit |-> x.deficit - m.moved, pc |-> "movers"])

Ended(x) == x.pc = "visit" /\ x.queue = {}
Step(p, c, x) ==
    CASE Ended(x) -> x
      [] x.pc = "visit" /\ x.queue # {} -> AfterVisit(p, x)
      [] x.pc = "place" -> AfterPlace(p, c, x)
      [] x.pc = "repair" -> AfterRepair(p, x)
      [] x.pc = "scan" /\ x.hops # {} -> AfterHop(p, c, x)
      [] x.pc = "scan" /\ x.hops = {} -> AfterPath(p, x)
      [] x.pc = "movers" -> AfterMovers(p, x)
      [] x.pc = "move" -> AfterMove(p, c, x)

\* x agrees with the state in every variable that is read before it is written.
Follows(x) ==
    /\ x.pc = pc /\ x.queue = queue
    /\ x.shares = shares /\ x.granted = granted /\ x.allocated = allocated
    /\ pc # "visit" => x.who = who /\ x.preferred = preferred /\ x.rounds = rounds
    /\ pc \in {"place", "scan", "movers", "move"} => x.todo = todo /\ x.need = need
    /\ pc \in {"scan", "movers", "move"} => x.hops = hops /\ x.progressed = progressed
    /\ pc \in {"movers", "move"} => x.movers = movers /\ x.deficit = deficit
    /\ pc = "move" => x.moving = moving

LEMMA WithFacts ==
    ASSUME NEW CONSTANT x, NEW CONSTANT y, NEW CONSTANT z, z = With(x, y)
    PROVE  \A n \in Names : z[n] = IF n \in DOMAIN y THEN y[n] ELSE x[n]
BY DEF With

\* What holds in a step of run_minimums within its budget.
Going(x) ==
    /\ Inv /\ iterations \in Nat /\ iterations <= problem.max_iterations
    /\ phase = "minimum" /\ Follows(x)

LEMMA FollowVisit ==
    ASSUME NEW CONSTANT x, NEW CONSTANT y, Going(x), VisitMinimum, y = Step(problem, ceiling, x)
    PROVE  Follows(y)'
<1>1. PICK d \in queue :
        /\ IsNext(d) /\ queue' = queue \ {d}
        /\ \/ /\ Excluded(d)
              /\ UNCHANGED <<pc, who, placing, rounds>>
           \/ /\ ~Excluded(d)
              /\ who' = d /\ rounds' = 0
              /\ \E q \in order_paths(d) : preferred' = q /\ Placing(d, q, problem.floor[d])
  BY DEF VisitMinimum
<1>2. /\ pc = "visit" /\ shares' = shares /\ granted' = granted /\ allocated' = allocated
  BY DEF VisitMinimum, load
<1>3. x.pc = "visit" /\ x.queue = queue /\ queue # {} /\ x.shares = shares
      /\ x.granted = granted /\ x.allocated = allocated
  BY <1>1, <1>2 DEF Going, Follows
<1>4. d = FirstOf(problem, x.queue) /\ d \in problem.demands
  <2>1. IsFirst(problem, queue, d)
    BY <1>1, SameOperators DEF Going
  <2>2. QED
    BY <1>1, <1>3, <2>1, FirstIsUnique DEF Going, Inv, LoopTypes, Active
<1>5. y = AfterVisit(problem, x)
  BY <1>3 DEF Step, Ended
<1>6. CASE Excluded(d) /\ UNCHANGED <<pc, who, placing, rounds>>
  <2>1. y = With(x, [queue |-> queue \ {d}])
    BY <1>3, <1>4, <1>5, <1>6 DEF AfterVisit, Excluded
  <2>2. y.pc = x.pc /\ y.queue = queue \ {d} /\ y.shares = x.shares /\ y.granted = x.granted
        /\ y.allocated = x.allocated
    BY <2>1, WithFacts DEF Names
  <2>3. QED
    BY <1>1, <1>2, <1>3, <1>6, <2>2 DEF Follows
<1>7. CASE /\ ~Excluded(d) /\ who' = d /\ rounds' = 0
           /\ \E q \in order_paths(d) : preferred' = q /\ Placing(d, q, problem.floor[d])
  <2>1. PICK q \in order_paths(d) : preferred' = q /\ Placing(d, q, problem.floor[d])
    BY <1>7
  <2>2. q = OrderOf(problem, x.shares, d)
    BY <1>3, <1>4, OrderIsUnique DEF Going
  <2>3. y = With(x, [queue |-> queue \ {d}, who |-> d, rounds |-> 0, preferred |-> q,
                     pc |-> "place", todo |-> q, need |-> Asked(problem, x, d, problem.floor[d])])
    BY <1>3, <1>4, <1>5, <1>7, <2>2 DEF AfterVisit, Excluded
  <2>4. /\ y.pc = "place" /\ y.queue = queue \ {d} /\ y.shares = x.shares /\ y.granted = x.granted
        /\ y.allocated = x.allocated /\ y.who = d /\ y.rounds = 0 /\ y.preferred = q
        /\ y.todo = q /\ y.need = Asked(problem, x, d, problem.floor[d])
    BY <2>3, WithFacts DEF Names
  <2>5. pc' = "place" /\ todo' = q /\ need' = Asked(problem, x, d, problem.floor[d])
    BY <1>3, <2>1 DEF Placing, Asked
  <2>6. QED
    BY <1>1, <1>2, <1>3, <1>7, <2>1, <2>4, <2>5 DEF Follows
<1>8. QED
  BY <1>1, <1>6, <1>7

LEMMA FollowPlaceOn ==
    ASSUME NEW CONSTANT x, NEW CONSTANT y, Going(x), PlaceOn, y = Step(problem, ceiling, x)
    PROVE  Follows(y)'
<1>1. PICK take \in Takes(Head(todo), need) : grant(who, Head(todo), take) /\ need' = need - take
  BY DEF PlaceOn
<1>2. /\ pc = "place" /\ pc' = "place" /\ todo # <<>> /\ need > 0 /\ todo' = Tail(todo)
      /\ queue' = queue /\ who' = who /\ preferred' = preferred /\ rounds' = rounds
  BY DEF PlaceOn, visiting, repairing
<1>3. x.pc = "place" /\ x.queue = queue /\ x.shares = shares /\ x.granted = granted
      /\ x.allocated = allocated /\ x.who = who /\ x.preferred = preferred /\ x.rounds = rounds
      /\ x.todo = todo /\ x.need = need
  BY <1>2 DEF Going, Follows
<1>4. take = TakeOf(problem, ceiling, x.allocated, Head(x.todo), x.need)
  <2>1. Head(todo) \in problem.paths /\ need \in Int
    <3>1. todo \in Seq(problem.paths) /\ need \in Int
      BY DEF Going, Inv, LoopTypes
    <3>2. QED
      BY <1>2, <3>1
  <2>2. take = TakeOf(problem, ceiling, allocated, Head(todo), need)
    BY <2>1, TakeIsUnique DEF Going
  <2>3. QED
    BY <1>3, <2>2
<1>5. y = AfterPlace(problem, ceiling, x)
  BY <1>3 DEF Step, Ended
<1> DEFINE z == With(x, GrantOf(problem, x, x.who, Head(x.todo), take))
<1>6. y = With(z, [need |-> need - take, todo |-> Tail(todo)])
  BY <1>2, <1>3, <1>4, <1>5 DEF AfterPlace
<1>7. /\ z.pc = x.pc /\ z.queue = x.queue /\ z.who = x.who /\ z.preferred = x.preferred
      /\ z.rounds = x.rounds /\ z.shares = shares' /\ z.granted = granted'
      /\ z.allocated = allocated'
  <2>1. GrantOf(problem, x, x.who, Head(x.todo), take)
          = [shares |-> shares', granted |-> granted', allocated |-> allocated']
    BY <1>1, <1>3 DEF GrantOf, grant
  <2>2. QED
    BY <2>1 DEF With, Names
<1> HIDE DEF z
<1>8. /\ y.pc = z.pc /\ y.queue = z.queue /\ y.who = z.who /\ y.preferred = z.preferred
      /\ y.rounds = z.rounds /\ y.shares = z.shares /\ y.granted = z.granted
      /\ y.allocated = z.allocated /\ y.need = need - take /\ y.todo = Tail(todo)
  BY <1>6 DEF With, Names
<1>9. QED
  BY <1>1, <1>2, <1>3, <1>7, <1>8 DEF Follows

LEMMA FollowPlaceEnd ==
    ASSUME NEW CONSTANT x, NEW CONSTANT y, Going(x), PlaceEnd, y = Step(problem, ceiling, x)
    PROVE  Follows(y)'
<1>1. /\ pc = "place" /\ pc' = "repair" /\ (todo = <<>> \/ need = 0)
      /\ queue' = queue /\ who' = who /\ preferred' = preferred /\ rounds' = rounds
      /\ shares' = shares /\ granted' = granted /\ allocated' = allocated
  BY DEF Going, PlaceEnd, visiting, repairing, placing, load
<1>2. x.pc = "place" /\ x.queue = queue /\ x.shares = shares /\ x.granted = granted
      /\ x.allocated = allocated /\ x.who = who /\ x.preferred = preferred /\ x.rounds = rounds
      /\ x.todo = todo /\ x.need = need
  BY <1>1 DEF Going, Follows
<1>3. y = AfterPlace(problem, ceiling, x)
  BY <1>2 DEF Step, Ended
<1>4. y = With(x, [pc |-> "repair"])
  BY <1>1, <1>2, <1>3 DEF AfterPlace
<1>5. /\ y.pc = "repair" /\ y.queue = x.queue /\ y.who = x.who /\ y.preferred = x.preferred
      /\ y.rounds = x.rounds /\ y.shares = x.shares /\ y.granted = x.granted
      /\ y.allocated = x.allocated
  BY <1>4 DEF With, Names
<1>6. QED
  BY <1>1, <1>2, <1>5 DEF Follows

LEMMA FollowRepair ==
    ASSUME NEW CONSTANT x, NEW CONSTANT y, Going(x), RepairRound \/ RepairEnd,
           y = Step(problem, ceiling, x)
    PROVE  Follows(y)'
<1>1. /\ pc = "repair" /\ queue' = queue /\ who' = who /\ preferred' = preferred
      /\ shares' = shares /\ granted' = granted /\ allocated' = allocated
  BY DEF RepairRound, RepairEnd, visiting, placing, load
<1>2. x.pc = "repair" /\ x.queue = queue /\ x.shares = shares /\ x.granted = granted
      /\ x.allocated = allocated /\ x.who = who /\ x.preferred = preferred /\ x.rounds = rounds
  BY <1>1 DEF Going, Follows
<1>3. y = AfterRepair(problem, x)
  BY <1>2 DEF Step, Ended
<1>4. MayRepair <=> x.granted[x.who] < problem.floor[x.who] /\ x.rounds < 4
  BY <1>2 DEF Going, MayRepair, Short
<1>5. CASE RepairRound
  <2>1. y = With(x, [rounds |-> x.rounds + 1, need |-> problem.floor[x.who] - x.granted[x.who],
                     progressed |-> FALSE, todo |-> x.preferred, pc |-> "scan",
                     hops |-> IF x.preferred = <<>> THEN {}
                              ELSE problem.through[Head(x.preferred)]])
    BY <1>3, <1>4, <1>5 DEF AfterRepair, RepairRound
  <2>2. /\ y.pc = "scan" /\ y.queue = x.queue /\ y.who = x.who /\ y.preferred = x.preferred
        /\ y.shares = x.shares /\ y.granted = x.granted /\ y.allocated = x.allocated
        /\ y.rounds = x.rounds + 1 /\ y.need = problem.floor[x.who] - x.granted[x.who]
        /\ y.progressed = FALSE /\ y.todo = x.preferred
        /\ y.hops = IF x.preferred = <<>> THEN {} ELSE problem.through[Head(x.preferred)]
    BY <2>1 DEF With, Names
  <2>3. QED
    BY <1>1, <1>2, <1>5, <2>2 DEF Follows, RepairRound
<1>6. CASE RepairEnd
  <2>1. y = With(x, [pc |-> "visit"])
    BY <1>3, <1>4, <1>6 DEF AfterRepair, RepairEnd
  <2>2. /\ y.pc = "visit" /\ y.queue = x.queue /\ y.shares = x.shares /\ y.granted = x.granted
        /\ y.allocated = x.allocated
    BY <2>1 DEF With, Names
  <2>3. QED
    BY <1>1, <1>2, <1>6, <2>2 DEF Follows, RepairEnd
<1>7. QED
  BY <1>5, <1>6

LEMMA FollowHop ==
    ASSUME NEW CONSTANT x, NEW CONSTANT y, Going(x), ScanHop, y = Step(problem, ceiling, x)
    PROVE  Follows(y)'
<1>1. /\ pc = "scan" /\ hops # {} /\ queue' = queue /\ who' = who /\ preferred' = preferred
      /\ rounds' = rounds /\ todo' = todo /\ need' = need
      /\ shares' = shares /\ granted' = granted /\ allocated' = allocated
  BY DEF ScanHop, visiting, placing, load
<1>2. x.pc = "scan" /\ x.queue = queue /\ x.shares = shares /\ x.granted = granted
      /\ x.allocated = allocated /\ x.who = who /\ x.preferred = preferred /\ x.rounds = rounds
      /\ x.todo = todo /\ x.need = need /\ x.hops = hops /\ x.progressed = progressed
  BY <1>1 DEF Going, Follows
<1>3. y = AfterHop(problem, ceiling, x)
  BY <1>1, <1>2 DEF Step, Ended
<1> DEFINE room == CapOf(problem, HopOf(x.hops), ceiling) - x.allocated[HopOf(x.hops)]
<1>4. Headroom(Hop) = room /\ Hop = HopOf(x.hops)
      /\ MoversOn(Hop) = MoversOf(problem, x.shares, x.who, HopOf(x.hops))
  BY <1>2, SameOperators DEF Headroom
<1>5. y = IF room >= x.need THEN With(x, [progressed |-> TRUE, hops |-> {}])
          ELSE With(x, [movers |-> MoversOf(problem, x.shares, x.who, HopOf(x.hops)),
                        deficit |-> x.need - room, pc |-> "movers"])
  BY <1>3 DEF AfterHop
<1> HIDE DEF room
<1>6. room \in Int /\ need \in Int
  <2>1. need \in Int /\ hops \subseteq problem.resources
    BY DEF Going, Inv, LoopTypes
  <2>2. Hop \in problem.resources
    BY <1>1, <2>1, HopFacts DEF Going, Inv, TypeOK
  <2>3. allocated[Hop] \in Nat /\ ceiling \in Nat /\ problem \in Problems
    BY <2>2, InvLoad DEF Going, LoadOK
  <2>4. recompute_ceiling(Hop, ceiling) \in Nat
    BY <2>2, <2>3, CeilingFacts
  <2>5. QED
    BY <1>4, <2>1, <2>3, <2>4 DEF Headroom
<1>7. CASE room >= need
  <2>1. progressed' = TRUE /\ hops' = {} /\ pc' = pc
    BY <1>4, <1>6, <1>7 DEF ScanHop
  <2>2. y = With(x, [progressed |-> TRUE, hops |-> {}])
    BY <1>2, <1>5, <1>7
  <2>3. /\ y.pc = x.pc /\ y.queue = x.queue /\ y.who = x.who /\ y.preferred = x.preferred
        /\ y.rounds = x.rounds /\ y.shares = x.shares /\ y.granted = x.granted
        /\ y.allocated = x.allocated /\ y.todo = x.todo /\ y.need = x.need
        /\ y.progressed = TRUE /\ y.hops = {}
    BY <2>2 DEF With, Names
  <2>4. QED
    BY <1>1, <1>2, <2>1, <2>3 DEF Follows
<1>8. CASE ~(room >= need)
  <2>1. /\ movers' = MoversOn(Hop) /\ deficit' = need - room /\ pc' = "movers"
        /\ hops' = hops /\ progressed' = progressed
    BY <1>4, <1>6, <1>8 DEF ScanHop
  <2>2. y = With(x, [movers |-> MoversOn(Hop), deficit |-> x.need - room, pc |-> "movers"])
    BY <1>2, <1>4, <1>5, <1>8
  <2>3. /\ y.pc = "movers" /\ y.queue = x.queue /\ y.who = x.who /\ y.preferred = x.preferred
        /\ y.rounds = x.rounds /\ y.shares = x.shares /\ y.granted = x.granted
        /\ y.allocated = x.allocated /\ y.todo = x.todo /\ y.need = x.need
        /\ y.progressed = x.progressed /\ y.hops = x.hops
        /\ y.movers = MoversOn(Hop) /\ y.deficit = x.need - room
    BY <2>2 DEF With, Names
  <2>4. QED
    BY <1>1, <1>2, <2>1, <2>3 DEF Follows
<1>9. QED
  BY <1>7, <1>8

LEMMA FollowPath ==
    ASSUME NEW CONSTANT x, NEW CONSTANT y, Going(x), ScanPath, y = Step(problem, ceiling, x)
    PROVE  Follows(y)'
<1>1. /\ pc = "scan" /\ hops = {} /\ queue' = queue /\ who' = who /\ preferred' = preferred
      /\ rounds' = rounds /\ progressed' = progressed
      /\ shares' = shares /\ granted' = granted /\ allocated' = allocated
  BY DEF ScanPath, visiting, load
<1>2. x.pc = "scan" /\ x.queue = queue /\ x.shares = shares /\ x.granted = granted
      /\ x.allocated = allocated /\ x.who = who /\ x.preferred = preferred /\ x.rounds = rounds
      /\ x.todo = todo /\ x.need = need /\ x.hops = hops /\ x.progressed = progressed
  BY <1>1 DEF Going, Follows
<1>3. y = AfterPath(problem, x)
  BY <1>1, <1>2 DEF Step, Ended
<1>4. CASE progressed /\ Placing(who, preferred, problem.floor[who] - granted[who])
  <2> DEFINE n == Asked(problem, x, x.who, problem.floor[x.who] - x.granted[x.who])
  <2>1. pc' = "place" /\ todo' = preferred /\ need' = n
    BY <1>2, <1>4 DEF Placing, Asked
  <2>2. y = With(x, [pc |-> "place", todo |-> x.preferred, need |-> n])
    BY <1>2, <1>3, <1>4 DEF AfterPath
  <2> HIDE DEF n
  <2>3. /\ y.pc = "place" /\ y.queue = x.queue /\ y.who = x.who /\ y.preferred = x.preferred
        /\ y.rounds = x.rounds /\ y.shares = x.shares /\ y.granted = x.granted
        /\ y.allocated = x.allocated /\ y.todo = x.preferred /\ y.need = n
    BY <2>2 DEF With, Names
  <2>4. QED
    BY <1>1, <1>2, <2>1, <2>3 DEF Follows
<1>5. CASE /\ ~progressed /\ Len(todo) > 1 /\ todo' = Tail(todo)
           /\ hops' = problem.through[Head(Tail(todo))] /\ UNCHANGED <<pc, need>>
  <2>1. y = With(x, [todo |-> Tail(x.todo), hops |-> problem.through[Head(Tail(x.todo))]])
    BY <1>2, <1>3, <1>5 DEF AfterPath
  <2>2. /\ y.pc = x.pc /\ y.queue = x.queue /\ y.who = x.who /\ y.preferred = x.preferred
        /\ y.rounds = x.rounds /\ y.shares = x.shares /\ y.granted = x.granted
        /\ y.allocated = x.allocated /\ y.need = x.need /\ y.progressed = x.progressed
        /\ y.todo = Tail(x.todo) /\ y.hops = problem.through[Head(Tail(x.todo))]
    BY <2>1 DEF With, Names
  <2>3. QED
    BY <1>1, <1>2, <1>5, <2>2 DEF Follows
<1>6. CASE ~progressed /\ Len(todo) <= 1 /\ pc' = "visit"
  <2>0. ~(Len(x.todo) > 1)
    <3>1. todo \in Seq(problem.paths)
      BY DEF Going, Inv, LoopTypes
    <3>2. Len(todo) \in Nat
      BY <3>1
    <3>3. QED
      BY <1>2, <1>6, <3>2
  <2>1. y = With(x, [pc |-> "visit"])
    BY <1>2, <1>3, <1>6, <2>0 DEF AfterPath
  <2>2. /\ y.pc = "visit" /\ y.queue = x.queue /\ y.shares = x.shares /\ y.granted = x.granted
        /\ y.allocated = x.allocated
    BY <2>1 DEF With, Names
  <2>3. QED
    BY <1>1, <1>2, <1>6, <2>2 DEF Follows
<1>7. QED
  BY <1>4, <1>5, <1>6 DEF ScanPath

LEMMA FollowNextMover ==
    ASSUME NEW CONSTANT x, NEW CONSTANT y, Going(x), NextMover, y = Step(problem, ceiling, x)
    PROVE  Follows(y)'
<1>1. PICK m \in movers :
        /\ \A n \in movers \ {m} : MovesBefore(m, n)
        /\ movers' = movers \ {m}
        /\ moving' = [demand |-> m.demand, from |-> m.path, targets |-> problem.eligible[m.demand],
                      wanted |-> Wanted(m), moved |-> 0]
  BY DEF NextMover
<1>2. /\ pc = "movers" /\ pc' = "move" /\ deficit > 0 /\ movers # {}
      /\ queue' = queue /\ who' = who /\ preferred' = preferred
      /\ rounds' = rounds /\ todo' = todo /\ need' = need /\ hops' = hops
      /\ progressed' = progressed /\ deficit' = deficit
      /\ shares' = shares /\ granted' = granted /\ allocated' = allocated
  BY <1>1 DEF NextMover, visiting, placing, load
<1>3. x.pc = "movers" /\ x.queue = queue /\ x.shares = shares /\ x.granted = granted
      /\ x.allocated = allocated /\ x.who = who /\ x.preferred = preferred /\ x.rounds = rounds
      /\ x.todo = todo /\ x.need = need /\ x.hops = hops /\ x.progressed = progressed
      /\ x.movers = movers /\ x.deficit = deficit
  BY <1>2 DEF Going, Follows
<1>4. m = FirstMover(problem, x.movers)
  <2>1. IsFirstMover(problem, movers, m)
    BY <1>1 DEF IsFirstMover, MovesBefore
  <2>2. QED
    BY <1>2, <1>3, <2>1, FirstMoverIsUnique DEF Going
<1>5. y = AfterMovers(problem, x)
  BY <1>3 DEF Step, Ended
<1>6. y = With(x, [movers |-> movers \ {m}, pc |-> "move", moving |-> moving'])
  BY <1>1, <1>2, <1>3, <1>4, <1>5 DEF AfterMovers, Wanted
<1>7. /\ y.pc = "move" /\ y.queue = x.queue /\ y.who = x.who /\ y.preferred = x.preferred
      /\ y.rounds = x.rounds /\ y.shares = x.shares /\ y.granted = x.granted
      /\ y.allocated = x.allocated /\ y.todo = x.todo /\ y.need = x.need
      /\ y.progressed = x.progressed /\ y.hops = x.hops /\ y.deficit = x.deficit
      /\ y.movers = movers \ {m} /\ y.moving = moving'
  BY <1>6 DEF With, Names
<1>8. QED
  BY <1>1, <1>2, <1>3, <1>7 DEF Follows

LEMMA FollowMoversEnd ==
    ASSUME NEW CONSTANT x, NEW CONSTANT y, Going(x), MoversEnd, y = Step(problem, ceiling, x)
    PROVE  Follows(y)'
<1>1. /\ pc = "movers" /\ pc' = "scan" /\ queue' = queue /\ who' = who /\ preferred' = preferred
      /\ rounds' = rounds /\ todo' = todo /\ need' = need /\ hops' = hops \ {Hop}
      /\ progressed' = (progressed \/ deficit <= 0)
      /\ shares' = shares /\ granted' = granted /\ allocated' = allocated
  BY DEF MoversEnd, visiting, placing, load
<1>2. ~(movers # {} /\ deficit > 0)
  <2>1. /\ movers = {} \/ deficit <= 0 \/ iterations > problem.max_iterations
        /\ deficit \in Int
    BY DEF MoversEnd, Going, Inv, LoopTypes
  <2>2. ~(iterations > problem.max_iterations)
    BY ProblemsAssumption DEF Going, Inv, TypeOK, IsProblem
  <2>3. QED
    BY <2>1, <2>2
<1>3. x.pc = "movers" /\ x.queue = queue /\ x.shares = shares /\ x.granted = granted
      /\ x.allocated = allocated /\ x.who = who /\ x.preferred = preferred /\ x.rounds = rounds
      /\ x.todo = todo /\ x.need = need /\ x.hops = hops /\ x.progressed = progressed
      /\ x.movers = movers /\ x.deficit = deficit
  BY <1>1 DEF Going, Follows
<1>4. y = AfterMovers(problem, x)
  BY <1>3 DEF Step, Ended
<1>5. y = With(x, [progressed |-> progressed', hops |-> hops', pc |-> "scan"])
  BY <1>1, <1>2, <1>3, <1>4, SameOperators DEF AfterMovers
<1>6. /\ y.pc = "scan" /\ y.queue = x.queue /\ y.who = x.who /\ y.preferred = x.preferred
      /\ y.rounds = x.rounds /\ y.shares = x.shares /\ y.granted = x.granted
      /\ y.allocated = x.allocated /\ y.todo = x.todo /\ y.need = x.need
      /\ y.progressed = progressed' /\ y.hops = hops'
  BY <1>5 DEF With, Names
<1>7. QED
  BY <1>1, <1>3, <1>6 DEF Follows

LEMMA FollowMove ==
    ASSUME NEW CONSTANT x, NEW CONSTANT y, Going(x), MoveSkip \/ MoveOnto \/ MoveEnd,
           y = Step(problem, ceiling, x)
    PROVE  Follows(y)'
<1>1. /\ pc = "move" /\ queue' = queue /\ who' = who /\ preferred' = preferred
      /\ rounds' = rounds /\ todo' = todo /\ need' = need /\ hops' = hops
      /\ progressed' = progressed /\ movers' = movers
  BY DEF MoveSkip, MoveOnto, MoveEnd, visiting, placing, repairing
<1>2. x.pc = "move" /\ x.queue = queue /\ x.shares = shares /\ x.granted = granted
      /\ x.allocated = allocated /\ x.who = who /\ x.preferred = preferred /\ x.rounds = rounds
      /\ x.todo = todo /\ x.need = need /\ x.hops = hops /\ x.progressed = progressed
      /\ x.movers = movers /\ x.deficit = deficit /\ x.moving = moving
  BY <1>1 DEF Going, Follows
<1>3. y = AfterMove(problem, ceiling, x)
  BY <1>2 DEF Step, Ended
<1>4. /\ MoreTargets <=> moving.moved < moving.wanted /\ moving.targets # <<>>
      /\ Avoids <=> Head(moving.targets) # moving.from
                      /\ HopOf(x.hops) \notin problem.through[Head(moving.targets)]
  BY <1>2, SameOperators DEF Going, MoreTargets, Avoids, Onto
<1>5. CASE MoveSkip
  <2>1. pc' = pc /\ deficit' = deficit /\ shares' = shares /\ granted' = granted
        /\ allocated' = allocated /\ MoreTargets /\ ~Avoids
        /\ moving' = [moving EXCEPT !.targets = Tail(@)]
    BY <1>5 DEF MoveSkip, repairing, load
  <2>2. y = With(x, [moving |-> moving'])
    BY <1>2, <1>3, <1>4, <2>1 DEF AfterMove
  <2>3. /\ y.pc = x.pc /\ y.queue = x.queue /\ y.who = x.who /\ y.preferred = x.preferred
        /\ y.rounds = x.rounds /\ y.shares = x.shares /\ y.granted = x.granted
        /\ y.allocated = x.allocated /\ y.todo = x.todo /\ y.need = x.need
        /\ y.progressed = x.progressed /\ y.hops = x.hops /\ y.deficit = x.deficit
        /\ y.movers = x.movers /\ y.moving = moving'
    BY <2>2 DEF With, Names
  <2>4. QED
    BY <1>1, <1>2, <2>1, <2>3 DEF Follows
<1>6. CASE MoveOnto
  <2>1. PICK take \in Takes(Onto, moving.wanted - moving.moved) :
          /\ grant(moving.demand, Onto, take)
          /\ moving' = [moving EXCEPT !.targets = Tail(@), !.moved = @ + take]
    BY <1>6 DEF MoveOnto
  <2>2. pc' = pc /\ deficit' = deficit /\ MoreTargets /\ Avoids
    BY <1>6 DEF MoveOnto, repairing
  <2>3. take = TakeOf(problem, ceiling, x.allocated, Onto, moving.wanted - moving.moved)
    <3>1. /\ moving.targets \in Seq(problem.paths) /\ moving.targets # <<>>
          /\ moving.wanted - moving.moved \in Int
      BY <1>1, <1>4, <2>2 DEF Going, Inv, MovesOK
    <3>2. Onto \in problem.paths
      BY <3>1 DEF Onto
    <3>3. QED
      BY <1>2, <3>1, <3>2, TakeIsUnique DEF Going
  <2> DEFINE z == With(x, GrantOf(problem, x, moving.demand, Onto, take))
  <2>4. y = With(z, [moving |-> moving'])
    BY <1>2, <1>3, <1>4, <2>1, <2>2, <2>3 DEF AfterMove, Onto
  <2>5. /\ z.pc = x.pc /\ z.queue = x.queue /\ z.who = x.who /\ z.preferred = x.preferred
        /\ z.rounds = x.rounds /\ z.todo = x.todo /\ z.need = x.need
        /\ z.progressed = x.progressed /\ z.hops = x.hops /\ z.deficit = x.deficit
        /\ z.movers = x.movers
        /\ z.shares = shares' /\ z.granted = granted' /\ z.allocated = allocated'
    <3>1. GrantOf(problem, x, moving.demand, Onto, take)
            = [shares |-> shares', granted |-> granted', allocated |-> allocated']
      BY <1>2, <2>1 DEF GrantOf, grant
    <3>2. QED
      BY <3>1 DEF With, Names
  <2> HIDE DEF z
  <2>6. /\ y.pc = z.pc /\ y.queue = z.queue /\ y.who = z.who /\ y.preferred = z.preferred
        /\ y.rounds = z.rounds /\ y.shares = z.shares /\ y.granted = z.granted
        /\ y.allocated = z.allocated /\ y.todo = z.todo /\ y.need = z.need
        /\ y.progressed = z.progressed /\ y.hops = z.hops /\ y.deficit = z.deficit
        /\ y.movers = z.movers /\ y.moving = moving'
    BY <2>4 DEF With, Names
  <2>7. QED
    BY <1>1, <1>2, <2>2, <2>5, <2>6 DEF Follows
<1>7. CASE MoveEnd
  <2>1. /\ revoke(moving.demand, moving.from, moving.moved) /\ ~MoreTargets
        /\ pc' = "movers" /\ deficit' = deficit - moving.moved
    BY <1>7 DEF MoveEnd, Going
  <2> DEFINE z == With(x, RevokeOf(problem, x, moving.demand, moving.from, moving.moved))
  <2>2. y = With(z, [deficit |-> deficit', pc |-> "movers"])
    BY <1>2, <1>3, <1>4, <2>1 DEF AfterMove
  <2>3. /\ z.queue = x.queue /\ z.who = x.who /\ z.preferred = x.preferred
        /\ z.rounds = x.rounds /\ z.todo = x.todo /\ z.need = x.need
        /\ z.progressed = x.progressed /\ z.hops = x.hops /\ z.movers = x.movers
        /\ z.shares = shares' /\ z.granted = granted' /\ z.allocated = allocated'
    <3>1. RevokeOf(problem, x, moving.demand, moving.from, moving.moved)
            = [shares |-> shares', granted |-> granted', allocated |-> allocated']
      BY <1>2, <2>1 DEF RevokeOf, revoke
    <3>2. QED
      BY <3>1 DEF With, Names
  <2> HIDE DEF z
  <2>4. /\ y.pc = "movers" /\ y.queue = z.queue /\ y.who = z.who /\ y.preferred = z.preferred
        /\ y.rounds = z.rounds /\ y.shares = z.shares /\ y.granted = z.granted
        /\ y.allocated = z.allocated /\ y.todo = z.todo /\ y.need = z.need
        /\ y.progressed = z.progressed /\ y.hops = z.hops /\ y.deficit = deficit'
        /\ y.movers = z.movers
    BY <2>2 DEF With, Names
  <2>5. QED
    BY <1>1, <1>2, <2>1, <2>3, <2>4 DEF Follows
<1>8. QED
  BY <1>5, <1>6, <1>7

(***************************************************************************)
(* Runs from the start                                                     *)
(***************************************************************************)
Start(p) ==
    [pc |-> "visit", queue |-> {d \in p.demands : p.active[d]},
     shares |-> [d \in p.demands |-> [path \in p.paths |-> 0]],
     granted |-> [d \in p.demands |-> 0],
     allocated |-> [r \in p.resources |-> 0]]
Trace(p, c, t, n) ==
    n \in Nat /\ t[0] = Start(p) /\ \A i \in 1 .. n : t[i] = Step(p, c, t[i - 1])
MeetsFloors(p, x) ==
    \A d \in p.demands : p.active[d] /\ ~p.excluded[d] => ~(x.granted[d] < p.floor[d])
\* run_minimums under the ceiling c ends with every floor met.
Succeeds(p, c) == \E n, t : Trace(p, c, t, n) /\ Ended(t[n]) /\ MeetsFloors(p, t[n])

LEMMA TraceExtends ==
    ASSUME NEW p, NEW c, NEW t, NEW n, Trace(p, c, t, n)
    PROVE  \E u : Trace(p, c, u, n + 1) /\ u[n + 1] = Step(p, c, t[n])
<1> DEFINE s == Step(p, c, t[n])
           u == [i \in 0 .. n + 1 |-> IF i <= n THEN t[i] ELSE s]
<1>1. n \in Nat /\ t[0] = Start(p) /\ \A i \in 1 .. n : t[i] = Step(p, c, t[i - 1])
  BY DEF Trace
<1> HIDE DEF s
<1>2. u[0] = t[0] /\ u[n + 1] = s /\ \A i \in 0 .. n : u[i] = t[i]
  BY <1>1
<1> HIDE DEF u
<1>3. ASSUME NEW i \in 1 .. n + 1 PROVE u[i] = Step(p, c, u[i - 1])
  <2>1. CASE i <= n
    <3>1. i \in 1 .. n /\ i - 1 \in 0 .. n /\ i \in 0 .. n
      BY <1>1, <2>1
    <3>2. u[i] = t[i] /\ u[i - 1] = t[i - 1]
      BY <1>2, <3>1
    <3>3. QED
      BY <1>1, <3>1, <3>2
  <2>2. CASE ~(i <= n)
    <3>1. i = n + 1 /\ i - 1 = n /\ n \in 0 .. n
      BY <1>1, <2>2
    <3>2. u[i] = s /\ u[i - 1] = t[n]
      BY <1>2, <3>1
    <3>3. QED
      BY <3>2 DEF s
  <2>3. QED
    BY <2>1, <2>2
<1>4. n + 1 \in Nat
  BY <1>1
<1>5. Trace(p, c, u, n + 1)
  BY <1>1, <1>2, <1>3, <1>4 DEF Trace
<1>6. QED
  BY <1>2, <1>5 DEF s

\* Two runs agree as long as both last, and a run that has ended stays as it is.
LEMMA TraceEnds ==
    ASSUME NEW p, NEW c, NEW t, NEW n, NEW u, NEW m, Trace(p, c, t, n), Trace(p, c, u, m),
           n <= m, Ended(t[n])
    PROVE  u[m] = t[n]
<1>1. /\ n \in Nat /\ t[0] = Start(p) /\ \A i \in 1 .. n : t[i] = Step(p, c, t[i - 1])
      /\ m \in Nat /\ u[0] = Start(p) /\ \A i \in 1 .. m : u[i] = Step(p, c, u[i - 1])
  BY DEF Trace
<1> DEFINE Good == {k \in Nat : /\ k <= n => u[k] = t[k]
                                /\ n <= k /\ k <= m => u[k] = t[n]}
<1>2. 0 \in Good
  BY <1>1
<1>3. ASSUME NEW k \in Nat, k \in Good PROVE k + 1 \in Good
  <2>1. CASE k + 1 <= n
    <3>1. k + 1 \in 1 .. n /\ k + 1 \in 1 .. m /\ (k + 1) - 1 = k /\ k <= n
      BY <1>1, <2>1
    <3>2. t[k + 1] = Step(p, c, t[k]) /\ u[k + 1] = Step(p, c, u[k])
      BY <1>1, <3>1
    <3>3. u[k + 1] = t[k + 1]
      BY <1>3, <3>1, <3>2
    <3>4. n <= k + 1 => n = k + 1
      BY <1>1, <2>1
    <3>5. QED
      BY <1>1, <3>3, <3>4
  <2>2. CASE n < k + 1 /\ k + 1 <= m
    <3>1. k + 1 \in 1 .. m /\ (k + 1) - 1 = k /\ n <= k /\ k <= m
      BY <1>1, <2>2
    <3>2. u[k + 1] = Step(p, c, u[k]) /\ u[k] = t[n]
      BY <1>1, <1>3, <3>1
    <3>3. Step(p, c, t[n]) = t[n]
      BY DEF Step, Ended
    <3>4. QED
      BY <1>1, <2>2, <3>2, <3>3
  <2>3. CASE ~(k + 1 <= n) /\ ~(k + 1 <= m)
    BY <2>3
  <2>4. QED
    BY <1>1, <2>1, <2>2, <2>3
<1>4. Nat \subseteq Good
  <2> HIDE DEF Good
  <2>1. QED
    BY <1>2, <1>3, NatSetInduction
<1>5. QED
  BY <1>1, <1>4

LEMMA OutcomeIsUnique ==
    ASSUME NEW p, NEW c, NEW t, NEW n, NEW u, NEW m, Trace(p, c, t, n), Trace(p, c, u, m),
           Ended(t[n]), Ended(u[m])
    PROVE  t[n] = u[m]
<1>1. n \in Nat /\ m \in Nat
  BY DEF Trace
<1>2. CASE n <= m
  BY <1>2, TraceEnds
<1>3. CASE m <= n
  BY <1>3, TraceEnds
<1>4. QED
  BY <1>1, <1>2, <1>3

(***************************************************************************)
(* The invariant                                                           *)
(***************************************************************************)
Running == phase = "minimum" /\ pc \in {"visit", "place", "repair", "scan", "movers", "move"}
WithinBudget == iterations <= problem.max_iterations

Traced == Running => \E n, t : Trace(problem, ceiling, t, n) /\ Follows(t[n])
RunsOK ==
    /\ iterations \in Nat
    /\ pc \in {"begin", "search"} => run = "first"
    /\ pc = "widen" => run \in {"first", "trial"}
    /\ Running /\ run = "trial" => ceiling = Middle
    /\ run = "final" => ceiling = Chosen
BestOK == (pc = "widen" \/ run # "first") /\ search.best # 0 => Succeeds(problem, search.best)

RepeatInv == Traced /\ RunsOK /\ BestOK /\ FinalRepeatsTrial

RunAction ==
    \/ VisitMinimum \/ PlaceOn \/ PlaceEnd \/ RepairRound \/ RepairEnd \/ ScanHop \/ ScanPath
    \/ NextMover \/ MoversEnd \/ MoveSkip \/ MoveOnto \/ MoveEnd

LEMMA RunActionFrame ==
    ASSUME RunAction
    PROVE  /\ UNCHANGED <<problem, ceiling, run, search, phase>>
           /\ pc \in {"visit", "place", "repair", "scan", "movers", "move"}
           /\ pc' \in {"visit", "place", "repair", "scan", "movers", "move", "sources"}
           /\ iterations' = iterations \/ iterations' = iterations + 1
           /\ phase = "minimum" => pc' # "sources"
BY DEF RunAction, VisitMinimum, PlaceOn, PlaceEnd, RepairRound, RepairEnd, ScanHop, ScanPath,
       NextMover, MoversEnd, MoveSkip, MoveOnto, MoveEnd, ceilings, visiting, Placing

LEMMA RunActionFollows ==
    ASSUME NEW CONSTANT x, NEW CONSTANT y, Going(x), RunAction, y = Step(problem, ceiling, x)
    PROVE  Follows(y)'
<1>1. CASE VisitMinimum
  BY <1>1, FollowVisit
<1>2. CASE PlaceOn
  BY <1>2, FollowPlaceOn
<1>3. CASE PlaceEnd
  BY <1>3, FollowPlaceEnd
<1>4. CASE RepairRound \/ RepairEnd
  BY <1>4, FollowRepair
<1>5. CASE ScanHop
  BY <1>5, FollowHop
<1>6. CASE ScanPath
  BY <1>6, FollowPath
<1>7. CASE NextMover
  BY <1>7, FollowNextMover
<1>8. CASE MoversEnd
  BY <1>8, FollowMoversEnd
<1>9. CASE MoveSkip \/ MoveOnto \/ MoveEnd
  BY <1>9, FollowMove
<1>10. QED
  BY <1>1, <1>2, <1>3, <1>4, <1>5, <1>6, <1>7, <1>8, <1>9 DEF RunAction

LEMMA TracedStep ==
    ASSUME Inv, WithinBudget, RepeatInv, RunAction, phase = "minimum"
    PROVE  Traced'
<1>1. Running /\ problem' = problem /\ ceiling' = ceiling
  BY RunActionFrame DEF Running
<1>2. PICK n, t : Trace(problem, ceiling, t, n) /\ Follows(t[n])
  BY <1>1 DEF RepeatInv, Traced
<1>3. PICK u : Trace(problem, ceiling, u, n + 1) /\ u[n + 1] = Step(problem, ceiling, t[n])
  BY <1>2, TraceExtends
<1>4. Going(t[n])
  BY <1>2 DEF Going, WithinBudget, RepeatInv, RunsOK
<1>5. Follows(u[n + 1])'
  BY <1>3, <1>4, RunActionFollows
<1>6. Trace(problem', ceiling', u, n + 1)
  BY <1>1, <1>3
<1>7. QED
  BY <1>5, <1>6 DEF Traced

LEMMA TracedStart ==
    ASSUME NEW c, NEW which, RunMinimums(c, which), UNCHANGED problem
    PROVE  Traced'
<1>1. PICK x : x = Start(problem)
  OBVIOUS
<1>2. PICK t : t = [i \in {0} |-> x]
  OBVIOUS
<1>3. t[0] = x
  BY <1>2
<1>4. /\ x.pc = "visit" /\ x.queue = Active
      /\ x.shares = [d \in problem.demands |-> [path \in problem.paths |-> 0]]
      /\ x.granted = [d \in problem.demands |-> 0]
      /\ x.allocated = [r \in problem.resources |-> 0]
  BY <1>1 DEF Start, Active
<1>5. Follows(t[0])'
  BY <1>3, <1>4 DEF Follows, RunMinimums
<1>6. Trace(problem', ceiling', t, 0)
  BY <1>1, <1>3 DEF Trace
<1>7. QED
  BY <1>5, <1>6 DEF Traced

\* In the phase that fills, no demand loses what it has.
LEMMA FillKeeps ==
    ASSUME Inv, Inv', Keeps, FinalRepeatsTrial, phase = "fill", UNCHANGED <<problem, run, search>>
    PROVE  FinalRepeatsTrial'
<1> SUFFICES ASSUME phase' = "fill", run = "final", search.best # 0, NEW d \in Unmet' PROVE FALSE
  BY DEF FinalRepeatsTrial
<1>1. /\ d \in problem.demands /\ d \in Active /\ ~Excluded(d) /\ granted'[d] < problem.floor[d]
      /\ problem \in Problems
  BY SameProblem DEF Unmet, Short, Active, Inv, TypeOK
<1>2. pc # "move" /\ pc' # "move"
  BY DEF Inv, LoopsOK
<1>3. Net(d)' >= Net(d)
  <2>1. ~RunMinimums(ceiling', run')
    BY DEF RunMinimums
  <2>2. QED
    BY <1>1, <2>1 DEF Keeps
<1>4. Net(d) = granted[d] /\ Net(d)' = granted'[d]
  BY <1>1, <1>2 DEF Net
<1>5. granted[d] \in Nat /\ granted'[d] \in Nat /\ problem.floor[d] \in Nat
  BY <1>1, ProblemFacts DEF Inv, TypeOK
<1>6. granted[d] < problem.floor[d]
  BY <1>1, <1>3, <1>4, <1>5
<1>7. d \in Unmet
  BY <1>1, <1>6 DEF Unmet, Short
<1>8. QED
  BY <1>7 DEF FinalRepeatsTrial

LEMMA RepeatRun ==
    ASSUME Inv, Inv', Keeps, WithinBudget, RepeatInv, RunAction
    PROVE  RepeatInv'
<1>1. /\ problem' = problem /\ ceiling' = ceiling /\ run' = run /\ search' = search
      /\ phase' = phase
      /\ pc \in {"visit", "place", "repair", "scan", "movers", "move"}
      /\ pc' \notin {"begin", "search", "widen"}
  BY RunActionFrame
<1>2. Traced'
  <2>1. CASE phase = "minimum"
    BY <2>1, TracedStep
  <2>2. CASE phase # "minimum"
    BY <1>1, <2>2 DEF Traced, Running
  <2>3. QED
    BY <2>1, <2>2
<1>3. iterations' \in Nat
  BY RunActionFrame DEF RepeatInv, RunsOK
<1>4. RunsOK'
  BY <1>1, <1>3 DEF RepeatInv, RunsOK, Running, Middle, Chosen
<1>5. BestOK'
  BY <1>1 DEF RepeatInv, BestOK
<1>6. FinalRepeatsTrial'
  <2>1. CASE phase = "fill"
    BY <1>1, <2>1, FillKeeps DEF RepeatInv
  <2>2. CASE phase # "fill"
    BY <1>1, <2>2 DEF FinalRepeatsTrial
  <2>3. QED
    BY <2>1, <2>2
<1>7. QED
  BY <1>2, <1>4, <1>5, <1>6 DEF RepeatInv

LEMMA RepeatRest ==
    ASSUME Inv, Inv', Keeps, RepeatInv,
           VisitFill \/ FillEnd \/ VisitConsolidate \/ ConsolidateFrom \/ ConsolidateEnd \/ Conclude
    PROVE  RepeatInv'
<1>1. /\ problem' = problem /\ ceiling' = ceiling /\ run' = run /\ search' = search
      /\ iterations' = iterations /\ pc' \notin {"begin", "search", "widen"}
  BY DEF VisitFill, FillEnd, VisitConsolidate, ConsolidateFrom, ConsolidateEnd, Conclude,
         ceilings, Return, Phase, Placing
<1>2. ~Running'
  BY DEF VisitFill, FillEnd, VisitConsolidate, ConsolidateFrom, ConsolidateEnd, Conclude,
         Return, Phase, Running, visiting, Inv, LoopsOK
<1>3. Traced'
  BY <1>2 DEF Traced
<1>4. RunsOK'
  BY <1>1, <1>2 DEF RepeatInv, RunsOK, Chosen
<1>5. BestOK'
  BY <1>1 DEF RepeatInv, BestOK
<1>6. phase' = "fill" => phase = "fill"
  BY DEF VisitFill, FillEnd, VisitConsolidate, ConsolidateFrom, ConsolidateEnd, Conclude,
         Phase, visiting
<1>7. FinalRepeatsTrial'
  <2>1. CASE phase = "fill"
    BY <1>1, <2>1, FillKeeps DEF RepeatInv
  <2>2. CASE phase # "fill"
    BY <1>6, <2>2 DEF FinalRepeatsTrial
  <2>3. QED
    BY <2>1, <2>2
<1>8. QED
  BY <1>3, <1>4, <1>5, <1>7 DEF RepeatInv

LEMMA RepeatSearch ==
    ASSUME RepeatInv, Begin \/ SearchProbe \/ SearchEnd
    PROVE  RepeatInv'
<1>1. problem' = problem /\ iterations' = iterations /\ run = "first" /\ run' = "first"
  BY DEF Begin, SearchProbe, SearchEnd, RunMinimums, ceilings, RepeatInv, RunsOK
<1>2. pc' # "widen"
  BY DEF Begin, SearchProbe, SearchEnd, RunMinimums, Return
<1>3. Traced'
  <2>1. CASE \E c : RunMinimums(c, "first")
    BY <1>1, <2>1, TracedStart
  <2>2. CASE ~\E c : RunMinimums(c, "first")
    <3>1. pc' \in {"search", "done"}
      BY <2>2 DEF Begin, SearchProbe, SearchEnd, Return
    <3>2. QED
      BY <3>1 DEF Traced, Running
  <2>3. QED
    BY <2>1, <2>2
<1>4. RunsOK' /\ BestOK' /\ FinalRepeatsTrial'
  BY <1>1, <1>2 DEF RepeatInv, RunsOK, BestOK, FinalRepeatsTrial
<1>5. QED
  BY <1>3, <1>4 DEF RepeatInv

LEMMA RepeatWiden ==
    ASSUME RepeatInv, Widen
    PROVE  RepeatInv'
<1>1. /\ problem' = problem /\ iterations' = iterations /\ search' = search /\ pc = "widen"
      /\ pc' = "visit" /\ phase' = "minimum"
      /\ \/ RunMinimums(Middle, "trial")
         \/ RunMinimums(Chosen, "final")
  BY DEF Widen, RunMinimums
<1>2. Traced'
  BY <1>1, TracedStart
<1>3. Middle' = Middle /\ Chosen' = Chosen
  BY <1>1 DEF Middle, Chosen
<1>4. (run' = "trial" /\ ceiling' = Middle) \/ (run' = "final" /\ ceiling' = Chosen)
  BY <1>1 DEF RunMinimums
<1>5. RunsOK'
  BY <1>1, <1>3, <1>4 DEF RepeatInv, RunsOK
<1>6. BestOK' /\ FinalRepeatsTrial'
  BY <1>1 DEF RepeatInv, BestOK, FinalRepeatsTrial
<1>7. QED
  BY <1>2, <1>5, <1>6 DEF RepeatInv

LEMMA RepeatMinimumsEnd ==
    ASSUME Inv, RepeatInv, MinimumsEnd
    PROVE  RepeatInv'
<1>1. /\ phase = "minimum" /\ pc = "visit" /\ queue = {} /\ Running
      /\ problem' = problem /\ ceiling' = ceiling /\ run' = run /\ iterations' = iterations
      /\ granted' = granted
  BY DEF MinimumsEnd, Running, load
<1>2. PICK n, t : Trace(problem, ceiling, t, n) /\ Follows(t[n])
  BY <1>1 DEF RepeatInv, Traced
<1>3. Ended(t[n]) /\ t[n].granted = granted
  BY <1>1, <1>2 DEF Follows, Ended
<1>4. Unmet = {} <=> MeetsFloors(problem, t[n])
  BY <1>3 DEF Unmet, MeetsFloors, Active, Excluded, Short
<1>5. CASE /\ run = "first" /\ pc' = "widen"
           /\ search' = [low |-> ceiling + 1, high |-> problem.policy_ceiling, best |-> 0,
                         probes |-> 0]
           /\ UNCHANGED visiting
  <2>1. search'.best = 0 /\ ~Running' /\ phase' = phase
    BY <1>5 DEF Running, visiting
  <2>2. QED
    BY <1>1, <1>5, <2>1 DEF RepeatInv, Traced, RunsOK, BestOK, FinalRepeatsTrial
<1>6. CASE run = "trial" /\ pc' = "widen" /\ search' = Probed(Unmet = {}) /\ UNCHANGED visiting
  <2>1. ~Running' /\ phase' = phase /\ ceiling = Middle
    BY <1>1, <1>6 DEF Running, visiting, RepeatInv, RunsOK
  <2>2. BestOK'
    <3>1. CASE Unmet = {}
      <4>1. search'.best = Middle
        BY <1>6, <3>1 DEF Probed, Inv, SearchOK
      <4>2. Succeeds(problem, Middle)
        BY <1>2, <1>3, <1>4, <2>1, <3>1 DEF Succeeds
      <4>3. QED
        BY <1>1, <4>1, <4>2 DEF BestOK
    <3>2. CASE Unmet # {}
      <4>1. search'.best = search.best
        BY <1>6, <3>2 DEF Probed, Inv, SearchOK
      <4>2. QED
        BY <1>1, <1>6, <4>1 DEF RepeatInv, BestOK
    <3>3. QED
      BY <3>1, <3>2
  <2>3. QED
    BY <1>1, <1>6, <2>1, <2>2 DEF RepeatInv, Traced, RunsOK, FinalRepeatsTrial
<1>7. CASE run \in {"first", "final"} /\ Phase("fill") /\ UNCHANGED search
  <2>1. ~Running' /\ pc' = "visit" /\ search' = search /\ Chosen' = Chosen
    BY <1>1, <1>7 DEF Running, Phase, Chosen
  <2>2. FinalRepeatsTrial'
    <3> SUFFICES ASSUME run = "final", search.best # 0 PROVE Unmet' = {}
      BY <1>1, <2>1 DEF FinalRepeatsTrial
    <3>1. ceiling = search.best
      BY DEF RepeatInv, RunsOK, Chosen
    <3>2. PICK m, u : Trace(problem, ceiling, u, m) /\ Ended(u[m]) /\ MeetsFloors(problem, u[m])
      BY <3>1 DEF RepeatInv, BestOK, Succeeds
    <3>3. u[m] = t[n]
      BY <1>2, <1>3, <3>2, OutcomeIsUnique
    <3>4. Unmet = {}
      BY <1>4, <3>2, <3>3
    <3>5. QED
      BY <1>1, <3>4 DEF Unmet, Active, Excluded, Short
  <2>3. QED
    BY <1>1, <1>7, <2>1, <2>2 DEF RepeatInv, Traced, RunsOK, BestOK
<1>8. QED
  BY <1>5, <1>6, <1>7 DEF MinimumsEnd

LEMMA RepeatNext ==
    ASSUME Inv, WithinBudget, RepeatInv, [Next]_vars
    PROVE  RepeatInv'
<1>1. CASE Next
  <2>1. Inv' /\ Keeps
    BY <1>1, InvNext
  <2>2. CASE RunAction
    BY <2>1, <2>2, RepeatRun
  <2>3. CASE VisitFill \/ FillEnd \/ VisitConsolidate \/ ConsolidateFrom \/ ConsolidateEnd
             \/ Conclude
    BY <2>1, <2>3, RepeatRest
  <2>4. CASE Begin \/ SearchProbe \/ SearchEnd
    BY <2>4, RepeatSearch
  <2>5. CASE Widen
    BY <2>5, RepeatWiden
  <2>6. CASE MinimumsEnd
    BY <2>6, RepeatMinimumsEnd
  <2>7. QED
    BY <1>1, <2>2, <2>3, <2>4, <2>5, <2>6 DEF Next, RunAction
<1>2. CASE UNCHANGED vars
  BY <1>2 DEF vars, ceilings, visiting, placing, repairing, load, RepeatInv, Traced, Running,
              Follows, RunsOK, Middle, Chosen, BestOK, FinalRepeatsTrial, Unmet, Active, Excluded,
              Short
<1>3. QED
  BY <1>1, <1>2

\* The final run at the ceiling a trial succeeded with succeeds too, as long as
\* the iteration budget the runs share is not exhausted: what a run leaves in the
\* loop variables does not reach the next one.
THEOREM FinalRepeatsTrialHolds ==
    Spec /\ [](iterations <= problem.max_iterations) => []FinalRepeatsTrial
<1>1. Init => RepeatInv
  BY DEF Init, RepeatInv, Traced, Running, RunsOK, BestOK, FinalRepeatsTrial
<1>2. Inv /\ WithinBudget /\ RepeatInv /\ [Next]_vars => RepeatInv'
  BY RepeatNext
<1>3. RepeatInv => FinalRepeatsTrial
  BY DEF RepeatInv
<1>4. WithinBudget <=> iterations <= problem.max_iterations
  BY DEF WithinBudget
<1>5. QED
  BY <1>1, <1>2, <1>3, <1>4, InvHolds, PTL DEF Spec

===============================================================================
