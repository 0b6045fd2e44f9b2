----------------------------- MODULE ChurnProofs -----------------------------
(***************************************************************************)
(* Proofs about Churn, what a plan that replaces the incumbent it was      *)
(* compared with does to the objective and to the traffic, and about the   *)
(* derivation it shares with the solver.                                   *)
(***************************************************************************)
EXTENDS Churn, DataInduction

(***************************************************************************)
(* Largest and smallest elements, images                                   *)
(***************************************************************************)
LEMMA ImageFinite ==
    ASSUME NEW S, IsFiniteSet(S), NEW f, NEW T, T = {f[x] : x \in S}
    PROVE  IsFiniteSet(T)
<1> DEFINE g == [x \in S |-> f[x]]
<1>1. g \in Surjection(S, T)
  BY DEF Surjection
<1>2. QED
  BY <1>1, FS_Surjection

LEMMA MaxIn ==
    ASSUME NEW S, IsFiniteSet(S), S # {}, S \subseteq Int
    PROVE  Max(S) \in S /\ \A x \in S : x <= Max(S)
<1> DEFINE Good == {s \in SUBSET S : s # {} => \E m \in s : \A x \in s : m >= x}
<1>1. {} \in Good
  OBVIOUS
<1>2. ASSUME NEW s \in SUBSET S, NEW x \in S, s \in Good, x \notin s PROVE s \cup {x} \in Good
  <2>1. CASE s = {}
    <3>1. s \cup {x} = {x} /\ x >= x
      BY <2>1
    <3>2. QED
      BY <3>1
  <2>2. CASE s # {}
    <3>1. PICK m \in s : \A y \in s : m >= y
      BY <1>2, <2>2
    <3>2. m \in Int /\ x \in Int /\ \A y \in s : y \in Int
      OBVIOUS
    <3>3. CASE m >= x
      BY <3>1, <3>3
    <3>4. CASE ~(m >= x)
      <4>1. \A y \in s \cup {x} : x >= y
        BY <3>1, <3>2, <3>4
      <4>2. QED
        BY <4>1
    <3>5. QED
      BY <3>3, <3>4
  <2>3. QED
    BY <2>1, <2>2
<1>3. S \in Good
  <2> HIDE DEF Good
  <2>1. QED
    BY <1>1, <1>2, SetInduction
<1>4. PICK m \in S : \A x \in S : m >= x
  BY <1>3
<1>5. Max(S) \in S /\ \A x \in S : Max(S) >= x
  BY <1>4 DEF Max
<1>6. \A x \in S : x \in Int
  OBVIOUS
<1>7. QED
  BY <1>5, <1>6

LEMMA MinIn ==
    ASSUME NEW S, IsFiniteSet(S), S # {}, S \subseteq Int
    PROVE  Min(S) \in S /\ \A x \in S : Min(S) <= x
<1> DEFINE N == {0 - x : x \in S}
           f == [x \in Int |-> 0 - x]
<1>1. IsFiniteSet(N)
  <2>1. N = {f[x] : x \in S}
    OBVIOUS
  <2> HIDE DEF f, N
  <2>2. QED
    BY <2>1, ImageFinite
<1>2. N # {} /\ N \subseteq Int
  <2>1. \A x \in S : 0 - x \in Int
    OBVIOUS
  <2>2. PICK x \in S : TRUE
    OBVIOUS
  <2>3. 0 - x \in N
    OBVIOUS
  <2>4. N \subseteq Int
    BY <2>1
  <2> HIDE DEF N
  <2>5. QED
    BY <2>3, <2>4
<1>3. Max(N) \in N /\ \A y \in N : y <= Max(N)
  BY <1>1, <1>2, MaxIn
<1>4. PICK m \in S : Max(N) = 0 - m
  BY <1>3
<1>5. ASSUME NEW x \in S PROVE m <= x
  <2>1. 0 - x <= 0 - m
    BY <1>3, <1>4
  <2>2. m \in Int /\ x \in Int
    OBVIOUS
  <2>3. QED
    BY <2>1, <2>2
<1>6. QED
  BY <1>5 DEF Min

LEMMA MaxPair ==
    ASSUME NEW x \in Int, NEW y \in Int
    PROVE  Max({x, y}) = IF x >= y THEN x ELSE y
<1>1. IsFiniteSet({x, y})
  <2>1. IsFiniteSet({x}) /\ {x, y} = {x} \cup {y}
    BY FS_Singleton
  <2>2. QED
    BY <2>1, FS_AddElement
<1>2. Max({x, y}) \in {x, y} /\ \A z \in {x, y} : z <= Max({x, y})
  BY <1>1, MaxIn
<1>3. QED
  BY <1>2

LEMMA MinPair ==
    ASSUME NEW x \in Int, NEW y \in Int
    PROVE  Min({x, y}) = IF x <= y THEN x ELSE y
<1>1. IsFiniteSet({x, y})
  <2>1. IsFiniteSet({x}) /\ {x, y} = {x} \cup {y}
    BY FS_Singleton
  <2>2. QED
    BY <2>1, FS_AddElement
<1>2. Min({x, y}) \in {x, y} /\ \A z \in {x, y} : Min({x, y}) <= z
  BY <1>1, MinIn
<1>3. QED
  BY <1>2

(***************************************************************************)
(* Allocations                                                             *)
(***************************************************************************)
IsShares(a) ==
    /\ IsFiniteSet(DOMAIN a.shares)
    /\ \A d \in DOMAIN a.shares : /\ IsFiniteSet(DOMAIN a.shares[d])
                                  /\ \A p \in DOMAIN a.shares[d] : a.shares[d][p] \in Nat \ {0}
IsAllocation(a) ==
    /\ a = [shares |-> a.shares, resources |-> a.resources]
    /\ IsShares(a) /\ IsFiniteSet(DOMAIN a.resources)
    /\ \A r \in DOMAIN a.resources : /\ a.resources[r].allocated \in Nat
                                     /\ a.resources[r].available \in Nat
                                     /\ a.resources[r].utilization_permille \in Nat

LEMMA NoAllocationIsOne == IsAllocation(NoAllocation)
<1>1. DOMAIN <<>> = {}
  OBVIOUS
<1>2. QED
  BY <1>1, FS_EmptySet DEF IsAllocation, IsShares, NoAllocation

LEMMA KeyFacts ==
    ASSUME NEW a, NEW key
    PROVE  key \in Keys(a) <=> \E d \in DOMAIN a.shares : \E p \in DOMAIN a.shares[d] : key = <<d, p>>
<1>1. QED
  BY DEF Keys

LEMMA KeysFinite == ASSUME NEW a, IsShares(a) PROVE IsFiniteSet(Keys(a))
<1> DEFINE D == DOMAIN a.shares
           f == [d \in D |-> {d} \X DOMAIN a.shares[d]]
           F == {f[d] : d \in D}
<1>1. IsFiniteSet(D)
  BY DEF IsShares
<1>2. IsFiniteSet(F)
  <2> HIDE DEF f, D
  <2>1. QED
    BY <1>1, ImageFinite
<1>3. ASSUME NEW d \in D PROVE IsFiniteSet(f[d])
  <2>1. IsFiniteSet({d}) /\ IsFiniteSet(DOMAIN a.shares[d])
    BY FS_Singleton DEF IsShares
  <2>2. QED
    BY <2>1, FS_Product
<1>4. \A T \in F : IsFiniteSet(T)
  BY <1>3
<1>5. Keys(a) = UNION F
  BY DEF Keys
<1> HIDE DEF F
<1>6. QED
  BY <1>2, <1>4, <1>5, FS_UNION

LEMMA ShareFacts ==
    ASSUME NEW a, IsShares(a), NEW key
    PROVE  Share(a, key) \in Nat /\ (key \in Keys(a) <=> Share(a, key) # 0)
<1>1. ASSUME key \in Keys(a) PROVE Share(a, key) \in Nat \ {0}
  <2>1. PICK d \in DOMAIN a.shares : \E p \in DOMAIN a.shares[d] : key = <<d, p>>
    BY <1>1, KeyFacts
  <2>2. PICK p \in DOMAIN a.shares[d] : key = <<d, p>>
    BY <2>1
  <2>3. Share(a, key) = a.shares[d][p]
    BY <1>1, <2>2 DEF Share
  <2>4. QED
    BY <2>3 DEF IsShares
<1>2. key \notin Keys(a) => Share(a, key) = 0
  BY DEF Share
<1>3. QED
  BY <1>1, <1>2

LEMMA SumFacts ==
    ASSUME NEW a, IsShares(a), NEW keys, IsFiniteSet(keys)
    PROVE  Sum(a, keys) \in Nat
<1> DEFINE f == [key \in keys |-> Share(a, key)]
<1>1. \A key \in keys : f[key] \in Nat
  BY ShareFacts
<1> HIDE DEF f
<1>2. SumOver(f, keys) \in Nat
  BY <1>1, SumNat
<1>3. QED
  BY <1>2 DEF Sum, f

LEMMA GrantedFacts ==
    ASSUME NEW a, IsShares(a)
    PROVE  total_granted(a) \in Nat /\ \A d : granted(a, d) \in Nat
<1>1. total_granted(a) \in Nat
  BY KeysFinite, SumFacts DEF total_granted
<1>2. ASSUME NEW d PROVE granted(a, d) \in Nat
  <2>1. IsFiniteSet({key \in Keys(a) : key[1] = d})
    BY KeysFinite, FS_Subset
  <2>2. QED
    BY <2>1, SumFacts DEF granted
<1>3. QED
  BY <1>1, <1>2

\* Saturation keeps the order, and what is not negative.
LEMMA SatFacts ==
    \A m, n \in Int : /\ sat(m) \in Int /\ (m \in Nat => sat(m) \in Nat)
                      /\ (m <= n => sat(m) <= sat(n))
<1> SUFFICES ASSUME NEW m \in Int, NEW n \in Int
             PROVE  /\ sat(m) \in Int /\ (m \in Nat => sat(m) \in Nat)
                    /\ (m <= n => sat(m) <= sat(n))
  OBVIOUS
<1>1. MaxInt \in Nat
  BY BoundsAssumption
<1>2. /\ sat(m) = IF m <= MaxInt THEN m ELSE MaxInt
      /\ sat(n) = IF n <= MaxInt THEN n ELSE MaxInt
  BY <1>1, MinPair DEF sat
<1>3. QED
  BY <1>1, <1>2

\* q is that part of whole in permille, rounded down.
InPermille(q, part, whole) == q * whole <= part * 1000 /\ part * 1000 < (q + 1) * whole

\* Rounding down, as the code's integers do for what is not negative.
LEMMA QuotientFacts ==
    ASSUME NEW part \in Int, NEW whole \in Int, whole > 0, NEW q, q = (part * 1000) \div whole
    PROVE  q \in Int /\ (part \in Nat => q \in Nat) /\ InPermille(q, part, whole)
<1> DEFINE n == part * 1000
<1>1. n \in Int /\ (part \in Nat => n >= 0)
  OBVIOUS
<1>2. n = (whole * q) + (n % whole) /\ n % whole \in 0 .. whole - 1 /\ q \in Int
  <2>1. q = n \div whole
    OBVIOUS
  <2> HIDE DEF n
  <2>2. QED
    BY <1>1, <2>1, SMT
<1> DEFINE r == n % whole
<1>3. n = (whole * q) + r /\ r \in Int /\ 0 <= r /\ r < whole
  <2> HIDE DEF n
  <2>1. r \in 0 .. whole - 1 /\ n = (whole * q) + r
    BY <1>2
  <2> HIDE DEF r
  <2>2. QED
    BY <2>1
<1> HIDE DEF n, r
<1>4. q * whole <= n /\ n < (q + 1) * whole
  BY <1>1, <1>2, <1>3
<1>5. n >= 0 => q >= 0
  <2> SUFFICES ASSUME n >= 0, q < 0 PROVE FALSE
    BY <1>2
  <2>1. q + 1 <= 0
    BY <1>2
  <2>2. (q + 1) * whole <= 0
    BY <1>2, <2>1
  <2>3. (q + 1) * whole \in Int
    BY <1>2
  <2>4. QED
    BY <1>1, <1>4, <2>2, <2>3
<1>6. part \in Nat => q \in Nat
  BY <1>1, <1>2, <1>5
<1>7. InPermille(q, part, whole)
  BY <1>4 DEF InPermille, n
<1>8. QED
  BY <1>2, <1>6, <1>7

\* Exact as long as the part can be scaled, and 1000 for a larger one.
LEMMA PermilleFacts ==
    ASSUME NEW part \in Int, NEW whole \in Int
    PROVE  /\ permille(part, whole) \in Int
           /\ part \in Nat => permille(part, whole) \in Nat
           /\ whole > 0 /\ part \in Nat =>
                 \/ part * 1000 <= MaxInt /\ InPermille(permille(part, whole), part, whole)
                 \/ part * 1000 > MaxInt /\ permille(part, whole) = 1000
           /\ whole <= 0 => permille(part, whole) = 0
<1>1. CASE whole <= 0
  BY <1>1 DEF permille
<1>2. CASE whole > 0
  <2>1. MaxInt \in Nat
    BY BoundsAssumption
  <2> DEFINE n == part * 1000
             q == n \div whole
             fits == n \in -MaxInt - 1 .. MaxInt
  <2>2. permille(part, whole) = IF ~fits THEN (IF part > 0 THEN 1000 ELSE 0) ELSE q
    BY <1>2 DEF permille, Scales
  <2>3. q \in Int /\ (part \in Nat => q \in Nat) /\ InPermille(q, part, whole)
    BY <1>2, QuotientFacts
  <2>4. n \in Int /\ (part \in Nat => n >= 0) /\ (n > 0 => part > 0)
    OBVIOUS
  <2> HIDE DEF n, q
  <2>5. part \in Nat => (fits <=> n <= MaxInt)
    BY <2>1, <2>4
  <2> HIDE DEF fits
  <2>6. part \in Nat => \/ n <= MaxInt /\ InPermille(permille(part, whole), part, whole)
                        \/ n > MaxInt /\ permille(part, whole) = 1000
    <3> SUFFICES ASSUME part \in Nat
                 PROVE  \/ n <= MaxInt /\ InPermille(permille(part, whole), part, whole)
                        \/ n > MaxInt /\ permille(part, whole) = 1000
      OBVIOUS
    <3>1. CASE n <= MaxInt
      BY <2>2, <2>3, <2>5, <3>1
    <3>2. CASE n > MaxInt
      <4>1. ~fits /\ part > 0
        BY <2>1, <2>4, <2>5, <3>2
      <4>2. QED
        BY <2>2, <3>2, <4>1
    <3>3. QED
      BY <2>1, <2>4, <3>1, <3>2
  <2>7. permille(part, whole) \in Int /\ (part \in Nat => permille(part, whole) \in Nat)
    BY <2>2, <2>3
  <2>8. QED
    BY <1>2, <2>6, <2>7 DEF n
<1>3. QED
  BY <1>1, <1>2

LEMMA PermilleBounds ==
    \A part \in Nat, whole \in Int : whole > 0 =>
        /\ permille(part, whole) \in Int
        /\ \/ part * 1000 <= MaxInt /\ InPermille(permille(part, whole), part, whole)
           \/ part * 1000 > MaxInt /\ permille(part, whole) = 1000
<1>1. QED
  BY PermilleFacts

LEMMA PermilleNat == \A part \in Nat, whole \in Int : permille(part, whole) \in Nat
<1>1. QED
  BY PermilleFacts

(***************************************************************************)
(* What is derived from a snapshot                                         *)
(***************************************************************************)
LEMMA BandwidthNat ==
    ASSUME NEW s, validate_structure(s), NEW vs, vs \subseteq DOMAIN s.reservations
    PROVE  Bandwidth(s, vs) \in Nat
<1> DEFINE f == [v \in vs |-> s.reservations[v].bandwidth]
<1>1. IsFiniteSet(vs)
  BY FS_Subset DEF validate_structure, ValidSizes
<1>2. \A v \in vs : f[v] \in Nat
  BY DEF validate_structure, ValidReservations
<1> HIDE DEF f
<1>3. SumOver(f, vs) \in Nat
  BY <1>1, <1>2, SumNat
<1>4. QED
  BY <1>3 DEF Bandwidth, f

LEMMA DerivedFacts ==
    ASSUME NEW s, validate_structure(s)
    PROVE  /\ \A r \in DOMAIN s.resources : /\ claimed(s, r) \in Nat /\ available(s, r) \in Nat
                                            /\ s.resources[r].usable_capacity \in Nat
           /\ \A d \in DOMAIN s.demands : floor(s, d) \in Nat /\ desired(s, d) \in Nat
<1>1. ASSUME NEW r \in DOMAIN s.resources
      PROVE  /\ claimed(s, r) \in Nat /\ available(s, r) \in Nat
             /\ s.resources[r].usable_capacity \in Nat
  <2>1. reserved(s, r) \in Nat
    BY BandwidthNat DEF reserved
  <2>2. s.resources[r].committed_load \in Nat /\ s.resources[r].usable_capacity \in Nat
    BY DEF validate_structure, ValidCapacity
  <2>3. claimed(s, r) \in Nat
    BY <2>1, <2>2 DEF claimed
  <2> DEFINE left == s.resources[r].usable_capacity - claimed(s, r)
  <2>4. left \in Int
    BY <2>2, <2>3
  <2> HIDE DEF left
  <2>5. Max({0, left}) \in Nat
    BY <2>4, MaxPair
  <2>6. QED
    BY <2>2, <2>3, <2>5 DEF available, left
<1>2. ASSUME NEW d \in DOMAIN s.demands PROVE floor(s, d) \in Nat /\ desired(s, d) \in Nat
  <2>1. obligation(s, d) \in Nat
    BY BandwidthNat DEF obligation
  <2>2. s.demands[d].minimum_bandwidth \in Nat /\ s.demands[d].desired_bandwidth \in Nat
    BY DEF validate_structure, ValidDemands
  <2>3. floor(s, d) \in Nat
    BY <2>1, <2>2, MaxPair DEF floor
  <2>4. QED
    BY <2>2, <2>3, MaxPair DEF desired
<1>3. QED
  BY <1>1, <1>2

\* The policy of a valid snapshot is within its bounds.
LEMMA PolicyFacts ==
    ASSUME NEW s, validate_structure(s)
    PROVE  /\ s.policy.max_utilization_permille \in 1 .. 1000
           /\ s.policy.max_paths_per_demand \in Nat
           /\ s.policy.churn_improvement_threshold_permille \in 0 .. 1000
           /\ s.policy.churn_max_moved_bandwidth_permille \in 0 .. 1000
           /\ s.policy.churn_max_affected_demands \in Nat
<1>1. ValidPolicy(s)
  BY Zenon DEF validate_structure
<1>2. QED
  BY <1>1, SMTT(60) DEF ValidPolicy

\* Sorting and cutting leave finitely many paths.
LEMMA EligibleFinite ==
    ASSUME NEW s, validate_structure(s), NEW d
    PROVE  IsFiniteSet(Range(eligible_paths(s, d)))
<1> DEFINE S == {p \in DOMAIN s.paths : active(s, d) /\ Eligible(s, d, p)}
           Before(p) == {q \in S : path_less(s, q, p)}
           limit == s.policy.max_paths_per_demand
           count == IF limit = 0 THEN Cardinality(S) ELSE Min({limit, Cardinality(S)})
           f == [i \in 1 .. count |-> CHOOSE p \in S : Cardinality(Before(p)) = i - 1]
<1>1. Cardinality(S) \in Nat
  BY FS_Subset, FS_CardinalityType DEF validate_structure, ValidSizes
<1>2. limit \in Nat
  BY PolicyFacts
<1>3. count \in Nat
  <2> HIDE DEF limit, S
  <2>1. QED
    BY <1>1, <1>2, MinPair
<1>4. eligible_paths(s, d) = f
  BY DEF eligible_paths
<1> HIDE DEF count
<1>5. DOMAIN f = 1 .. count
  OBVIOUS
<1>6. IsFiniteSet(1 .. count)
  BY <1>3, FS_Interval
<1> HIDE DEF f
<1>7. Range(f) = {f[i] : i \in 1 .. count}
  BY <1>5 DEF Range
<1> DEFINE T == {f[i] : i \in 1 .. count}
           I == 1 .. count
<1>8. IsFiniteSet(T)
  <2>1. T = {f[i] : i \in I} /\ IsFiniteSet(I)
    BY <1>6
  <2> HIDE DEF T, I
  <2>2. QED
    BY <2>1, ImageFinite
<1>9. QED
  BY <1>4, <1>7, <1>8

(***************************************************************************)
(* What solve answers is an allocation                                     *)
(***************************************************************************)
LEMMA AnswerShares ==
    ASSUME NEW s, validate_structure(s), NEW f, DOMAIN f = DOMAIN s.demands,
           \A d \in DOMAIN s.demands : f[d] \in Shares(s, d),
           NEW a, a.shares = f
    PROVE  IsShares(a)
<1>1. IsFiniteSet(DOMAIN f)
  BY DEF validate_structure, ValidSizes
<1>2. ASSUME NEW d \in DOMAIN f
      PROVE  IsFiniteSet(DOMAIN f[d]) /\ \A p \in DOMAIN f[d] : f[d][p] \in Nat \ {0}
  <2>1. PICK ps \in SUBSET admitted(s, d) : f[d] \in [ps -> 1 .. MaxGrant]
    BY DEF Shares
  <2>2. IsFiniteSet(ps)
    BY EligibleFinite, FS_Subset, FS_EmptySet DEF admitted
  <2>3. \A p \in ps : f[d][p] \in 1 .. MaxGrant
    BY <2>1
  <2>4. MaxGrant \in Nat
    BY BoundsAssumption
  <2>5. \A x \in 1 .. MaxGrant : x \in Nat \ {0}
    BY <2>4
  <2>6. DOMAIN f[d] = ps
    BY <2>1
  <2>7. QED
    BY <2>2, <2>3, <2>5, <2>6
<1>3. QED
  BY <1>1, <1>2 DEF IsShares

LEMMA AnswerIsAllocation ==
    ASSUME NEW s \in Snapshots, NEW a \in Answers[s]
    PROVE  IsAllocation(a) /\ \A t \in DOMAIN s.objective : s.objective[t] > 0
<1>1. validate_structure(s)
  BY SnapshotsAssumption
<1>2. a \in Allocations(s)
  BY DEF Answers
<1> DEFINE D == DOMAIN s.demands
           R == DOMAIN s.resources
<1>3. \A t \in DOMAIN s.objective : s.objective[t] > 0
  BY <1>2 DEF Allocations
<1>4. PICK f \in [D -> UNION {Shares(s, d) : d \in D}] :
          (\A d \in D : f[d] \in Shares(s, d)) /\ a = Built(s, f)
  BY <1>2 DEF Allocations
<1>5. /\ a.shares = f /\ a.resources = [r \in R |-> Utilization(s, f, r)]
      /\ a = [shares |-> a.shares, resources |-> a.resources]
  BY <1>4 DEF Built
<1>6. IsShares(a) /\ IsShares([shares |-> f])
  BY <1>1, <1>4, <1>5, AnswerShares
<1>7. IsFiniteSet(R)
  BY <1>1 DEF validate_structure, ValidSizes
<1>8. ASSUME NEW r \in R
      PROVE  LET u == Utilization(s, f, r)
             IN  u.allocated \in Nat /\ u.available \in Nat /\ u.utilization_permille \in Nat
  <2> DEFINE b == [shares |-> f]
             keys == {key \in Keys(b) : r \in s.paths[key[2]].resources}
             allocated == Sum(b, keys)
             u == Utilization(s, f, r)
             usable == s.resources[r].usable_capacity
             load == claimed(s, r) + allocated
  <2>1. IsFiniteSet(keys)
    BY <1>6, KeysFinite, FS_Subset
  <2>2. allocated \in Nat
    <3> HIDE DEF b, keys
    <3>1. IsShares(b)
      BY <1>6 DEF b
    <3>2. QED
      BY <2>1, <3>1, SumFacts
  <2>3. /\ u.allocated = allocated /\ u.available = available(s, r)
        /\ u.utilization_permille = permille(load, usable)
    BY DEF Utilization
  <2> HIDE DEF allocated, u
  <2>4. claimed(s, r) \in Nat /\ available(s, r) \in Nat /\ usable \in Nat
    BY <1>1, DerivedFacts
  <2>5. load \in Nat
    BY <2>2, <2>4
  <2> HIDE DEF load, usable
  <2>6. permille(load, usable) \in Nat
    <3>1. usable \in Int
      BY <2>4
    <3>2. QED
      BY <2>5, <3>1, PermilleNat, Zenon
  <2>7. QED
    BY <2>2, <2>3, <2>4, <2>6 DEF u
<1>9. QED
  BY <1>3, <1>5, <1>6, <1>7, <1>8 DEF IsAllocation

(***************************************************************************)
(* The raw value of a term is a number, and only the churn term looks at   *)
(* an incumbent                                                            *)
(***************************************************************************)
LEMMA ShortfallFacts == \A target, given \in Nat : Shortfall(target, given) \in Nat
<1> SUFFICES ASSUME NEW target \in Nat, NEW given \in Nat PROVE Shortfall(target, given) \in Nat
  OBVIOUS
<1>1. target - given \in Int
  OBVIOUS
<1>2. QED
  BY <1>1, MaxPair DEF Shortfall

LEMMA MeasuredFacts ==
    ASSUME NEW s, validate_structure(s), NEW a, IsAllocation(a)
    PROVE  /\ IsFiniteSet(Measured(s, a))
           /\ \A d \in Measured(s, a) :
                 /\ d \in DOMAIN s.demands
                 /\ floor(s, d) \in Nat /\ desired(s, d) \in Nat /\ granted(a, d) \in Nat
                 /\ s.demands[d].priority \in 0 .. 255
                 /\ Shortfall(floor(s, d), granted(a, d)) \in Nat
                 /\ Shortfall(desired(s, d), granted(a, d)) \in Nat
<1>1. IsFiniteSet(Measured(s, a))
  BY FS_Subset DEF Measured, IsAllocation, IsShares
<1>2. ASSUME NEW d \in Measured(s, a)
      PROVE  /\ d \in DOMAIN s.demands
             /\ floor(s, d) \in Nat /\ desired(s, d) \in Nat /\ granted(a, d) \in Nat
             /\ s.demands[d].priority \in 0 .. 255
  <2>1. d \in DOMAIN s.demands
    BY DEF Measured
  <2>2. granted(a, d) \in Nat
    BY GrantedFacts DEF IsAllocation
  <2>3. s.demands[d].priority \in 0 .. 255
    BY <2>1 DEF validate_structure, ValidDemands
  <2>4. QED
    BY <2>1, <2>2, <2>3, DerivedFacts
<1>3. QED
  BY <1>1, <1>2, ShortfallFacts

LEMMA AttainmentInt ==
    ASSUME NEW s, validate_structure(s), NEW a, IsAllocation(a), NEW tenant
    PROVE  Attainment(s, a, tenant) \in Int
<1> DEFINE of == {d \in Measured(s, a) : s.demands[d].tenant = tenant}
           f == [d \in of |-> desired(s, d)]
           g == [d \in of |-> granted(a, d)]
           wanted == sat(SumOver(f, of))
           given == SumOver(g, of)
<1>1. IsFiniteSet(of)
  BY MeasuredFacts, FS_Subset
<1>2. \A d \in of : f[d] \in Int /\ g[d] \in Int
  BY MeasuredFacts
<1>3. wanted \in Int /\ given \in Int
  <2> HIDE DEF of, f, g
  <2>1. SumOver(f, of) \in Int /\ SumOver(g, of) \in Int
    BY <1>1, <1>2, SumInt
  <2>2. QED
    BY <2>1, SatFacts
<1>4. Attainment(s, a, tenant) = IF wanted <= 0 THEN 1000 ELSE Min({1000, permille(given, wanted)})
  BY DEF Attainment
<1> HIDE DEF wanted, given
<1>5. permille(given, wanted) \in Int
  BY <1>3, PermilleFacts
<1>6. Min({1000, permille(given, wanted)}) \in Int
  BY <1>5, MinPair
<1>7. QED
  BY <1>4, <1>6

LEMMA DomainsFinite ==
    ASSUME NEW s, validate_structure(s), NEW a, IsShares(a)
    PROVE  IsFiniteSet(Domains(s, a))
<1> DEFINE K == {k \in Keys(a) : k[2] \in DOMAIN s.paths}
           f == [key \in K |-> s.paths[key[2]].failure_domains]
           F == {f[key] : key \in K}
<1>1. IsFiniteSet(K)
  BY KeysFinite, FS_Subset
<1>2. IsFiniteSet(F)
  <2> HIDE DEF K, f
  <2>1. QED
    BY <1>1, ImageFinite
<1>3. \A T \in F : IsFiniteSet(T)
  BY DEF validate_structure, ValidSizes
<1>4. Domains(s, a) = UNION F
  BY DEF Domains
<1> HIDE DEF F
<1>5. QED
  BY <1>2, <1>3, <1>4, FS_UNION

LEMMA MaxOfFacts ==
    ASSUME NEW S, IsFiniteSet(S), S \subseteq Int
    PROVE  MaxOf(S) \in Nat /\ (S = {} => MaxOf(S) = 0)
<1>1. IsFiniteSet(S \cup {0})
  BY FS_AddElement
<1>2. S \cup {0} # {} /\ S \cup {0} \subseteq Int
  OBVIOUS
<1>3. MaxOf(S) \in S \cup {0} /\ 0 <= MaxOf(S)
  BY <1>1, <1>2, MaxIn DEF MaxOf
<1> HIDE DEF MaxOf
<1>4. S = {} => MaxOf(S) = 0
  BY <1>3, Zenon
<1>5. MaxOf(S) \in Int /\ 0 <= MaxOf(S)
  BY <1>2, <1>3
<1>6. QED
  BY <1>4, <1>5

LEMMA MovedFacts ==
    ASSUME NEW a, IsShares(a), NEW b, IsShares(b)
    PROVE  moved_bandwidth(a, b) \in Nat
<1> DEFINE keys == Keys(a) \cup Keys(b)
           f == [key \in keys |-> Abs(Share(b, key) - Share(a, key))]
<1>1. IsFiniteSet(keys)
  BY KeysFinite, FS_Union
<1>2. ASSUME NEW key \in keys PROVE f[key] \in Nat
  <2>1. Share(a, key) \in Nat /\ Share(b, key) \in Nat
    BY ShareFacts
  <2>2. QED
    BY <2>1 DEF Abs
<1>3. SumOver(f, keys) \in Nat
  <2> HIDE DEF keys, f
  <2>1. QED
    BY <1>1, <1>2, SumNat
<1>4. QED
  BY <1>3 DEF moved_bandwidth

LEMMA RawDemandTerms ==
    ASSUME NEW s, validate_structure(s), NEW a, IsAllocation(a), NEW has, NEW before
    PROVE  \A term \in {"satisfy_minimums", "maximize_desired_bandwidth", "preserve_priority"} :
               /\ raw_value(term, s, a, has, before) \in Int
               /\ raw_value(term, s, a, has, before) = raw_value(term, s, a, FALSE, NoAllocation)
<1> DEFINE M == Measured(s, a)
           Short(d) == Shortfall(desired(s, d), granted(a, d))
           f == [d \in M |-> Shortfall(floor(s, d), granted(a, d))]
           g == [d \in M |-> Short(d)]
           h == [d \in M |-> Short(d) * (256 - s.demands[d].priority)]
<1>1. IsFiniteSet(M) /\ \A d \in M : f[d] \in Int /\ g[d] \in Int
  BY MeasuredFacts
<1>2. ASSUME NEW d \in M PROVE h[d] \in Int
  <2>1. Short(d) \in Int /\ 256 - s.demands[d].priority \in Int
    BY MeasuredFacts
  <2>2. QED
    BY <2>1
<1>3. sat(SumOver(f, M)) \in Int /\ sat(SumOver(g, M)) \in Int /\ sat(SumOver(h, M)) \in Int
  <2> HIDE DEF M, f, g, h
  <2>1. SumOver(f, M) \in Int /\ SumOver(g, M) \in Int /\ SumOver(h, M) \in Int
    BY <1>1, <1>2, SumInt
  <2>2. QED
    BY <2>1, SatFacts
<1>4. \A hi, be : /\ raw_value("satisfy_minimums", s, a, hi, be) = sat(SumOver(f, M))
                  /\ raw_value("maximize_desired_bandwidth", s, a, hi, be) = sat(SumOver(g, M))
                  /\ raw_value("preserve_priority", s, a, hi, be) = sat(SumOver(h, M))
  BY DEF raw_value
<1>5. QED
  BY <1>3, <1>4

LEMMA RawPathTerms ==
    ASSUME NEW s, validate_structure(s), NEW a, IsAllocation(a), NEW has, NEW before
    PROVE  \A term \in {"minimize_path_count", "minimize_total_path_cost"} :
               /\ raw_value(term, s, a, has, before) \in Int
               /\ raw_value(term, s, a, has, before) = raw_value(term, s, a, FALSE, NoAllocation)
<1> DEFINE M == Measured(s, a)
           used == {key \in Keys(a) : key[1] \in M}
           priced == {key \in used : key[2] \in DOMAIN s.paths}
           f == [key \in priced |-> Share(a, key) * s.paths[key[2]].cost]
<1>1. IsShares(a)
  BY DEF IsAllocation
<1>2. IsFiniteSet(used) /\ IsFiniteSet(priced)
  BY <1>1, KeysFinite, FS_Subset
<1>3. ASSUME NEW key \in priced PROVE f[key] \in Int
  <2>1. Share(a, key) \in Int
    BY <1>1, ShareFacts
  <2>2. s.paths[key[2]].cost \in Int
    BY DEF validate_structure, ValidPaths
  <2>3. QED
    BY <2>1, <2>2
<1>4. sat(SumOver(f, priced)) \in Int
  <2> HIDE DEF priced, f
  <2>1. SumOver(f, priced) \in Int
    BY <1>2, <1>3, SumInt
  <2>2. QED
    BY <2>1, SatFacts
<1>5. Cardinality(used) \in Int
  BY <1>2, FS_CardinalityType
<1>6. \A hi, be : /\ raw_value("minimize_path_count", s, a, hi, be) = Cardinality(used)
                  /\ raw_value("minimize_total_path_cost", s, a, hi, be) = sat(SumOver(f, priced))
  BY DEF raw_value
<1>7. QED
  BY <1>4, <1>5, <1>6

LEMMA RawFairness ==
    ASSUME NEW s, validate_structure(s), NEW a, IsAllocation(a), NEW has, NEW before
    PROVE  LET term == "fairness_across_groups"
           IN  /\ raw_value(term, s, a, has, before) \in Int
               /\ raw_value(term, s, a, has, before) = raw_value(term, s, a, FALSE, NoAllocation)
<1> DEFINE M == Measured(s, a)
           f == [d \in M |-> Attainment(s, a, s.demands[d].tenant)]
           ratios == {Attainment(s, a, s.demands[d].tenant) : d \in M}
<1>1. IsFiniteSet(M)
  BY MeasuredFacts
<1>2. ratios = {f[d] : d \in M} /\ ratios \subseteq Int
  BY AttainmentInt
<1>3. IsFiniteSet(ratios)
  <2> HIDE DEF M, f, ratios
  <2>1. QED
    BY <1>1, <1>2, ImageFinite
<1>4. ratios # {} => Max(ratios) \in Int /\ Min(ratios) \in Int
  <2> HIDE DEF ratios
  <2>1. QED
    BY <1>2, <1>3, MaxIn, MinIn
<1>5. \A hi, be : raw_value("fairness_across_groups", s, a, hi, be)
                    = IF ratios = {} THEN 0 ELSE Max(ratios) - Min(ratios)
  BY DEF raw_value
<1> DEFINE spread == IF ratios = {} THEN 0 ELSE Max(ratios) - Min(ratios)
<1>6. spread \in Int
  <2> HIDE DEF ratios
  <2>1. QED
    BY <1>4
<1> HIDE DEF spread
<1>7. QED
  BY <1>5, <1>6, Zenon DEF spread

\* What the terms that look at the table are worth, which without one is nothing.
LEMMA RawResourceTerms ==
    ASSUME NEW s, validate_structure(s), NEW a, IsAllocation(a), NEW has, NEW before
    PROVE  \A term \in {"minimize_max_utilization", "minimize_congestion_exposure"} :
               /\ raw_value(term, s, a, has, before) \in Nat
               /\ raw_value(term, s, a, has, before) = raw_value(term, s, a, FALSE, NoAllocation)
               /\ DOMAIN a.resources = {} => raw_value(term, s, a, has, before) = 0
<1> DEFINE R == DOMAIN a.resources
           t == a.resources
           table == {a.resources[r] : r \in DOMAIN a.resources}
           u == [r \in R |-> t[r].utilization_permille]
           U == {x.utilization_permille : x \in table}
           exposed == {r \in R : t[r].available > 0}
           Exposure(r) == sat(t[r].allocated * permille(t[r].allocated, t[r].available)) \div 1000
           f == [r \in exposed |-> Exposure(r)]
<1>1. IsFiniteSet(R) /\ IsFiniteSet(exposed)
  BY FS_Subset DEF IsAllocation
<1>2. U = {u[r] : r \in R}
  OBVIOUS
<1>3. U \subseteq Nat
  BY DEF IsAllocation
<1>4. MaxOf(U) \in Nat
  <2> HIDE DEF U, u, R
  <2>1. IsFiniteSet(U)
    BY <1>1, <1>2, ImageFinite
  <2>2. U \subseteq Int
    BY <1>3
  <2>3. QED
    BY <2>1, <2>2, MaxOfFacts
<1>5. ASSUME NEW r \in exposed PROVE f[r] \in Nat
  <2> DEFINE allocated == t[r].allocated
             free == t[r].available
  <2>1. allocated \in Nat /\ free \in Nat
    BY DEF IsAllocation
  <2> HIDE DEF allocated, free
  <2>2. permille(allocated, free) \in Nat
    BY <2>1, PermilleFacts
  <2> DEFINE m == allocated * permille(allocated, free)
             n == sat(m)
  <2>3. m \in Nat
    BY <2>1, <2>2
  <2> HIDE DEF m
  <2>4. n \in Nat
    BY <2>3, SatFacts
  <2> HIDE DEF n
  <2>5. n \div 1000 \in Nat
    BY <2>4
  <2>6. f[r] = n \div 1000
    BY DEF n, m, allocated, free
  <2>7. QED
    BY <2>5, <2>6
<1>6. sat(SumOver(f, exposed)) \in Nat
  <2> HIDE DEF exposed, f
  <2>1. SumOver(f, exposed) \in Nat
    BY <1>1, <1>5, SumNat
  <2>2. QED
    BY <2>1, SatFacts
<1>7. \A hi, be : /\ raw_value("minimize_max_utilization", s, a, hi, be) = MaxOf(U)
                  /\ raw_value("minimize_congestion_exposure", s, a, hi, be)
                       = sat(SumOver(f, exposed))
  BY DEF raw_value
<1>8. ASSUME R = {} PROVE MaxOf(U) = 0 /\ sat(SumOver(f, exposed)) = 0
  <2>1. U = {} /\ exposed = {}
    BY <1>8
  <2> HIDE DEF U, exposed, f
  <2>2. MaxOf(U) = 0
    BY <2>1, FS_EmptySet, MaxOfFacts
  <2>3. SumOver(f, exposed) = 0
    BY <2>1, SumEmpty
  <2>4. sat(0) = 0
    <3>1. MaxInt \in Nat
      BY BoundsAssumption
    <3>2. QED
      BY <3>1, MinPair DEF sat
  <2>5. QED
    BY <2>2, <2>3, <2>4
<1>9. QED
  <2> HIDE DEF U, exposed, f
  <2>1. QED
    BY <1>4, <1>6, <1>7, <1>8

LEMMA RawOtherTerms ==
    ASSUME NEW s, validate_structure(s), NEW a, IsAllocation(a), NEW has, NEW before
    PROVE  \A term \in {"preserve_reservations", "minimize_failure_domain_concentration"} :
               /\ raw_value(term, s, a, has, before) \in Int
               /\ raw_value(term, s, a, has, before) = raw_value(term, s, a, FALSE, NoAllocation)
<1> DEFINE V == {v \in DOMAIN s.reservations : Accounting(s, v).displaceable /\ Accounting(s, v).active}
           F == Domains(s, a)
           g == [x \in F |-> Sum(a, Crossing(s, a, x))]
           C == {Sum(a, Crossing(s, a, x)) : x \in F}
<1>1. IsShares(a) /\ IsFiniteSet(F)
  BY DomainsFinite DEF IsAllocation
<1>2. Cardinality(V) \in Int
  BY FS_Subset, FS_CardinalityType DEF validate_structure, ValidSizes
<1>3. ASSUME NEW x \in F PROVE Sum(a, Crossing(s, a, x)) \in Int
  <2>1. IsFiniteSet(Crossing(s, a, x))
    BY <1>1, KeysFinite, FS_Subset DEF Crossing
  <2>2. QED
    BY <1>1, <2>1, SumFacts
<1>4. C = {g[x] : x \in F} /\ C \subseteq Int
  BY <1>3
<1>5. MaxOf(C) \in Int
  <2> HIDE DEF C, g, F
  <2>1. IsFiniteSet(C)
    BY <1>1, <1>4, ImageFinite
  <2>2. QED
    BY <1>4, <2>1, MaxOfFacts
<1>6. \A hi, be : /\ raw_value("preserve_reservations", s, a, hi, be) = Cardinality(V)
                  /\ raw_value("minimize_failure_domain_concentration", s, a, hi, be) = MaxOf(C)
  BY DEF raw_value
<1>7. QED
  BY <1>2, <1>5, <1>6

\* With the incumbent in the options a term is worth the same, except for churn,
\* which is worth the bandwidth moved.
LEMMA RawFacts ==
    ASSUME NEW s, validate_structure(s), NEW a, IsAllocation(a), NEW before, IsAllocation(before),
           NEW term \in ObjectiveTerms
    PROVE  LET with == raw_value(term, s, a, TRUE, before)
               without == raw_value(term, s, a, FALSE, NoAllocation)
           IN  with \in Int /\ without \in Int /\ without <= with
<1> DEFINE with == raw_value(term, s, a, TRUE, before)
           without == raw_value(term, s, a, FALSE, NoAllocation)
<1> SUFFICES with \in Int /\ without \in Int /\ without <= with
  OBVIOUS
<1>1. CASE term = "minimize_churn"
  <2>1. with = moved_bandwidth(before, a) /\ without = 0
    BY <1>1 DEF raw_value
  <2>2. moved_bandwidth(before, a) \in Nat
    BY MovedFacts DEF IsAllocation
  <2> HIDE DEF with, without
  <2>3. QED
    BY <2>1, <2>2
<1>2. CASE term # "minimize_churn"
  <2> DEFINE tabled == {"minimize_max_utilization", "minimize_congestion_exposure"}
  <2>1. term \in tabled => with \in Nat /\ with = without
    BY RawResourceTerms, Zenon
  <2>2. term \notin tabled => with \in Int /\ with = without
    BY <1>2, RawDemandTerms, RawPathTerms, RawFairness, RawOtherTerms, ZenonT(60)
       DEF ObjectiveTerms
  <2> HIDE DEF with, without, tabled
  <2>3. QED
    BY <2>1, <2>2
<1>3. QED
  BY <1>1, <1>2

(***************************************************************************)
(* Scores                                                                  *)
(***************************************************************************)
LEMMA TermsFinite == IsFiniteSet(ObjectiveTerms)
<1> DEFINE f == <<"satisfy_minimums", "minimize_max_utilization", "minimize_congestion_exposure",
                  "minimize_total_path_cost", "minimize_churn", "preserve_reservations",
                  "preserve_priority", "maximize_desired_bandwidth", "fairness_across_groups",
                  "minimize_failure_domain_concentration", "minimize_path_count">>
<1>1. \A i \in 1 .. 11 : f[i] \in ObjectiveTerms
  BY DEF ObjectiveTerms
<1>2. \A t \in ObjectiveTerms : \E i \in 1 .. 11 : t = f[i]
  BY DEF ObjectiveTerms
<1> HIDE DEF f
<1>3. ObjectiveTerms = {f[i] : i \in 1 .. 11}
  BY <1>1, <1>2
<1>4. IsFiniteSet(1 .. 11)
  <2>1. \A n \in Nat : IsFiniteSet(1 .. n)
    BY FS_Interval
  <2>2. 11 \in Nat
    OBVIOUS
  <2>3. QED
    BY <2>1, <2>2, Zenon
<1>5. QED
  BY <1>3, <1>4, ImageFinite

\* A score is monotone in what its terms are worth.
LEMMA WeightedLeq ==
    ASSUME NEW T, IsFiniteSet(T), NEW c, NEW x, NEW y,
           \A t \in T : c[t] \in Int /\ x[t] \in Int /\ y[t] \in Int /\ x[t] <= y[t],
           NEW f, f = [t \in T |-> c[t] * x[t]], NEW g, g = [t \in T |-> c[t] * y[t]]
    PROVE  /\ sat(SumOver(f, T)) \in Int /\ sat(SumOver(g, T)) \in Int
           /\ (\A t \in T : c[t] > 0) => sat(SumOver(f, T)) <= sat(SumOver(g, T))
<1>1. \A t \in T : f[t] = c[t] * x[t] /\ g[t] = c[t] * y[t]
  OBVIOUS
<1>2. \A t \in T : f[t] \in Int /\ g[t] \in Int
  BY <1>1
<1>3. SumOver(f, T) \in Int /\ SumOver(g, T) \in Int
  BY <1>2, SumInt
<1>4. ASSUME \A t \in T : c[t] > 0 PROVE SumOver(f, T) <= SumOver(g, T)
  <2>1. ASSUME NEW t \in T PROVE f[t] <= g[t]
    <3> DEFINE k == c[t]
               m == x[t]
               n == y[t]
    <3>1. k \in Int /\ k > 0 /\ m \in Int /\ n \in Int /\ m <= n
      BY <1>4
    <3>2. f[t] = k * m /\ g[t] = k * n
      BY <1>1
    <3> HIDE DEF k, m, n
    <3>3. k * m <= k * n
      <4>1. n - m \in Nat /\ k \in Nat
        BY <3>1
      <4>2. k * (n - m) >= 0
        BY <4>1
      <4>3. k * (n - m) = k * n - k * m
        BY <3>1
      <4>4. k * m \in Int /\ k * n \in Int
        BY <3>1
      <4>5. QED
        BY <4>2, <4>3, <4>4
    <3>4. QED
      BY <3>2, <3>3
  <2>2. QED
    BY <1>2, <2>1, SumLeq
<1>5. QED
  BY <1>3, <1>4, SatFacts

LEMMA ScoreFacts ==
    ASSUME NEW s, validate_structure(s), NEW a, IsAllocation(a), NEW before, IsAllocation(before)
    PROVE  /\ score_allocation(s, a) \in Int /\ Score(s, a, TRUE, before) \in Int
           /\ (\A t \in DOMAIN s.objective : s.objective[t] > 0) =>
                  score_allocation(s, a) <= Score(s, a, TRUE, before)
<1> DEFINE T == DOMAIN s.objective
           v == [t \in T |-> raw_value(t, s, a, TRUE, before)]
           w == [t \in T |-> raw_value(t, s, a, FALSE, NoAllocation)]
           f == [t \in T |-> s.objective[t] * w[t]]
           g == [t \in T |-> s.objective[t] * v[t]]
<1>1. T \subseteq ObjectiveTerms /\ IsFiniteSet(T) /\ \A t \in T : s.objective[t] \in Int
  BY TermsFinite, FS_Subset DEF validate_structure, ValidObjective
<1>2. \A t \in T : v[t] \in Int /\ w[t] \in Int /\ w[t] <= v[t]
  BY <1>1, RawFacts
<1>3. /\ f = [t \in T |-> s.objective[t] * raw_value(t, s, a, FALSE, NoAllocation)]
      /\ g = [t \in T |-> s.objective[t] * raw_value(t, s, a, TRUE, before)]
  OBVIOUS
<1> HIDE DEF v, w
<1>4. /\ score_allocation(s, a) = sat(SumOver(f, T))
      /\ Score(s, a, TRUE, before) = sat(SumOver(g, T))
  BY <1>3, Zenon DEF score_allocation, Score
<1> DEFINE c == s.objective
<1>5. /\ f = [t \in T |-> c[t] * w[t]] /\ g = [t \in T |-> c[t] * v[t]]
      /\ \A t \in T : c[t] \in Int /\ w[t] \in Int /\ v[t] \in Int /\ w[t] <= v[t]
  BY <1>1, <1>2
<1> HIDE DEF f, g, c, T
<1>6. /\ sat(SumOver(f, T)) \in Int /\ sat(SumOver(g, T)) \in Int
      /\ (\A t \in T : c[t] > 0) => sat(SumOver(f, T)) <= sat(SumOver(g, T))
  BY <1>1, <1>5, WeightedLeq
<1>7. QED
  BY <1>4, <1>6 DEF c, T

\* Two allocations with the same shares are worth the same on every term that
\* does not look at the table.
LEMMA SameShares ==
    ASSUME NEW s, NEW a, NEW b, a.shares = b.shares,
           NEW term \in ObjectiveTerms \ {"minimize_max_utilization", "minimize_congestion_exposure"}
    PROVE  raw_value(term, s, a, FALSE, NoAllocation) = raw_value(term, s, b, FALSE, NoAllocation)
<1>1. Keys(a) = Keys(b)
  BY DEF Keys
<1>2. \A key : Share(a, key) = Share(b, key)
  BY <1>1 DEF Share
<1>3. \A keys : Sum(a, keys) = Sum(b, keys)
  BY <1>2 DEF Sum
<1>4. Measured(s, a) = Measured(s, b)
  BY DEF Measured
<1>5. \A d : granted(a, d) = granted(b, d)
  BY <1>1, <1>3 DEF granted
<1>6. ASSUME NEW tenant PROVE Attainment(s, a, tenant) = Attainment(s, b, tenant)
  <2> DEFINE of == {d \in Measured(s, b) : s.demands[d].tenant = tenant}
  <2>1. [d \in of |-> granted(a, d)] = [d \in of |-> granted(b, d)]
    BY <1>5
  <2> DEFINE wanted == sat(SumOver([d \in of |-> desired(s, d)], of))
             Ratio(given) == IF wanted <= 0 THEN 1000 ELSE Min({1000, permille(given, wanted)})
  <2>2. /\ Attainment(s, a, tenant) = Ratio(SumOver([d \in of |-> granted(a, d)], of))
        /\ Attainment(s, b, tenant) = Ratio(SumOver([d \in of |-> granted(b, d)], of))
    BY <1>4 DEF Attainment
  <2> HIDE DEF Ratio
  <2>3. QED
    BY <2>1, <2>2
<1>7. \A x : Crossing(s, a, x) = Crossing(s, b, x)
  BY <1>1 DEF Crossing
<1>8. Domains(s, a) = Domains(s, b)
  BY <1>1 DEF Domains
<1> DEFINE M == Measured(s, b)
           used == {key \in Keys(b) : key[1] \in M}
           priced == {key \in used : key[2] \in DOMAIN s.paths}
<1>9. /\ [d \in M |-> Shortfall(floor(s, d), granted(a, d))]
           = [d \in M |-> Shortfall(floor(s, d), granted(b, d))]
      /\ [d \in M |-> Shortfall(desired(s, d), granted(a, d))]
           = [d \in M |-> Shortfall(desired(s, d), granted(b, d))]
      /\ [d \in M |-> Shortfall(desired(s, d), granted(a, d)) * (256 - s.demands[d].priority)]
           = [d \in M |-> Shortfall(desired(s, d), granted(b, d)) * (256 - s.demands[d].priority)]
      /\ [key \in priced |-> Share(a, key) * s.paths[key[2]].cost]
           = [key \in priced |-> Share(b, key) * s.paths[key[2]].cost]
  BY <1>2, <1>5
<1>10. /\ {Attainment(s, a, s.demands[d].tenant) : d \in M}
            = {Attainment(s, b, s.demands[d].tenant) : d \in M}
       /\ {Sum(a, Crossing(s, a, x)) : x \in Domains(s, b)}
            = {Sum(b, Crossing(s, b, x)) : x \in Domains(s, b)}
  BY <1>3, <1>6, <1>7
<1>11. CASE term \in {"satisfy_minimums", "maximize_desired_bandwidth", "preserve_priority"}
  BY <1>4, <1>9, <1>11 DEF raw_value
<1>12. CASE term \in {"minimize_path_count", "minimize_total_path_cost"}
  BY <1>1, <1>4, <1>9, <1>12 DEF raw_value
<1>13. CASE term = "fairness_across_groups"
  BY <1>4, <1>10, <1>13 DEF raw_value
<1>14. CASE term = "minimize_failure_domain_concentration"
  BY <1>8, <1>10, <1>14 DEF raw_value
<1>15. CASE term \in {"minimize_churn", "preserve_reservations"}
  BY <1>15 DEF raw_value
<1>16. QED
  BY <1>11, <1>12, <1>13, <1>14, <1>15 DEF ObjectiveTerms

\* So an incumbent whose table was lost on the wire is scored no higher.
LEMMA LostTable ==
    ASSUME NEW s, validate_structure(s), \A t \in DOMAIN s.objective : s.objective[t] > 0,
           NEW a, IsAllocation(a), NEW b, IsAllocation(b), a.shares = b.shares,
           a.resources = b.resources \/ DOMAIN a.resources = {}
    PROVE  /\ score_allocation(s, a) \in Int /\ score_allocation(s, b) \in Int
           /\ score_allocation(s, a) <= score_allocation(s, b)
<1> DEFINE T == DOMAIN s.objective
           v == [t \in T |-> raw_value(t, s, b, FALSE, NoAllocation)]
           w == [t \in T |-> raw_value(t, s, a, FALSE, NoAllocation)]
           f == [t \in T |-> s.objective[t] * w[t]]
           g == [t \in T |-> s.objective[t] * v[t]]
<1>1. T \subseteq ObjectiveTerms /\ IsFiniteSet(T) /\ \A t \in T : s.objective[t] \in Int
  BY TermsFinite, FS_Subset DEF validate_structure, ValidObjective
<1>2. ASSUME NEW t \in T PROVE v[t] \in Int /\ w[t] \in Int /\ w[t] <= v[t]
  <2>1. v[t] \in Int /\ w[t] \in Int
    BY <1>1, NoAllocationIsOne, RawFacts
  <2>2. CASE t \notin {"minimize_max_utilization", "minimize_congestion_exposure"}
    <3>1. v[t] = w[t]
      BY <1>1, <2>2, SameShares
    <3> HIDE DEF v, w
    <3>2. QED
      BY <2>1, <3>1
  <2>3. CASE t \in {"minimize_max_utilization", "minimize_congestion_exposure"}
    <3>1. v[t] \in Nat /\ (DOMAIN a.resources = {} => w[t] = 0)
      BY <2>3, RawResourceTerms, Zenon
    <3>2. a.resources = b.resources => v[t] = w[t]
      <4>1. CASE t = "minimize_max_utilization"
        BY <4>1 DEF raw_value
      <4>2. CASE t = "minimize_congestion_exposure"
        BY <4>2, SMTT(60) DEF raw_value
      <4>3. QED
        BY <2>3, <4>1, <4>2
    <3> HIDE DEF v, w
    <3>3. QED
      BY <2>1, <3>1, <3>2
  <2>4. QED
    BY <2>2, <2>3
<1>3. /\ f = [t \in T |-> s.objective[t] * raw_value(t, s, a, FALSE, NoAllocation)]
      /\ g = [t \in T |-> s.objective[t] * raw_value(t, s, b, FALSE, NoAllocation)]
  OBVIOUS
<1> HIDE DEF v, w
<1>4. score_allocation(s, a) = sat(SumOver(f, T)) /\ score_allocation(s, b) = sat(SumOver(g, T))
  BY <1>3, Zenon DEF score_allocation, Score
<1> DEFINE c == s.objective
<1>5. /\ f = [t \in T |-> c[t] * w[t]] /\ g = [t \in T |-> c[t] * v[t]]
      /\ \A t \in T : c[t] \in Int /\ c[t] > 0 /\ w[t] \in Int /\ v[t] \in Int /\ w[t] <= v[t]
  BY <1>1, <1>2
<1> HIDE DEF f, g, c, T
<1>6. /\ sat(SumOver(f, T)) \in Int /\ sat(SumOver(g, T)) \in Int
      /\ (\A t \in T : c[t] > 0) => sat(SumOver(f, T)) <= sat(SumOver(g, T))
  BY <1>1, <1>5, WeightedLeq
<1>7. QED
  BY <1>4, <1>5, <1>6

(***************************************************************************)
(* What compare_churn accepts                                              *)
(***************************************************************************)
\* scored is what the incumbent was scored at, at most old; with is the score of
\* the proposal with the churn term, at least new.
LEMMA AcceptedImprovement ==
    ASSUME NEW old \in Int, NEW scored \in Int, scored <= old,
           NEW new \in Int, NEW with \in Int, new <= with, with <= scored,
           NEW threshold \in 0 .. 1000, improvement_permille(scored, with) >= threshold
    PROVE  ImprovesBy(threshold, old, new)
<1>1. MaxInt \in Nat
  BY BoundsAssumption
<1> DEFINE gain == scored - with
<1>2. gain \in Nat /\ gain <= old - new /\ gain * 1000 <= (old - new) * 1000
  OBVIOUS
<1>3. CASE scored > 0
  <2> DEFINE q == permille(gain, scored)
  <2>1. q >= threshold
    BY <1>3 DEF improvement_permille
  <2>2. q \in Int /\ \/ gain * 1000 <= MaxInt /\ InPermille(q, gain, scored)
                     \/ gain * 1000 > MaxInt /\ q = 1000
    <3> HIDE DEF gain
    <3>1. QED
      BY <1>2, <1>3, PermilleBounds
  <2>3. CASE gain * 1000 > MaxInt
    <3>1. (old - new) * 1000 > MaxInt
      <4>1. gain * 1000 \in Int /\ (old - new) * 1000 \in Int
        BY <1>2
      <4>2. QED
        BY <1>1, <1>2, <2>3, <4>1
    <3>2. QED
      BY <3>1 DEF ImprovesBy
  <2>4. CASE InPermille(q, gain, scored)
    <3>1. q * scored <= gain * 1000
      BY <2>4 DEF InPermille
    <3> HIDE DEF q
    <3>2. threshold * scored <= q * scored
      <4>1. q - threshold \in Nat /\ scored \in Nat
        BY <1>3, <2>1, <2>2
      <4>2. (q - threshold) * scored >= 0
        BY <4>1
      <4>3. (q - threshold) * scored = q * scored - threshold * scored
        BY <2>2
      <4>4. q * scored \in Int /\ threshold * scored \in Int
        BY <2>2
      <4>5. QED
        BY <4>2, <4>3, <4>4
    <3>3. threshold * (old - scored) <= 1000 * (old - scored)
      <4> DEFINE lost == old - scored
      <4>1. lost \in Nat /\ 1000 - threshold \in Nat
        OBVIOUS
      <4> HIDE DEF lost
      <4>2. (1000 - threshold) * lost >= 0
        BY <4>1
      <4>3. (1000 - threshold) * lost = 1000 * lost - threshold * lost
        BY <4>1
      <4>4. threshold * lost \in Int
        BY <4>1
      <4>5. threshold * lost <= 1000 * lost
        BY <4>1, <4>2, <4>3, <4>4
      <4>6. QED
        BY <4>5 DEF lost
    <3>4. /\ threshold * old = threshold * (old - scored) + threshold * scored
          /\ threshold * (old - scored) \in Int /\ threshold * scored \in Int
          /\ q * scored \in Int
      BY <2>2
    <3>5. 1000 * (old - scored) + gain * 1000 <= (old - new) * 1000
      OBVIOUS
    <3>6. threshold * old <= (old - new) * 1000
      <4> DEFINE A == threshold * (old - scored)
                 B == threshold * scored
                 C == q * scored
                 D == 1000 * (old - scored)
                 E == gain * 1000
                 F == (old - new) * 1000
                 G == threshold * old
      <4>1. A \in Int /\ B \in Int /\ C \in Int /\ D \in Int /\ E \in Int /\ F \in Int
        BY <1>2, <3>4
      <4>2. G = A + B /\ A <= D /\ B <= C /\ C <= E /\ D + E <= F
        BY <3>1, <3>2, <3>3, <3>4, <3>5
      <4> HIDE DEF A, B, C, D, E, F, G
      <4>3. G <= F
        BY <4>1, <4>2
      <4>4. QED
        BY <4>3 DEF F, G
    <3>7. (old - new) * 1000 \in Int /\ threshold * old \in Int
      OBVIOUS
    <3>8. QED
      BY <3>6, <3>7 DEF ImprovesBy
  <2>5. QED
    BY <2>2, <2>3, <2>4
<1>4. CASE ~(scored > 0)
  <2>1. with <= 0
    BY <1>4
  <2>2. threshold = 0
    BY <1>4, <2>1 DEF improvement_permille
  <2>3. (old - new) * 1000 >= 0
    BY <1>2
  <2>4. QED
    BY <2>2, <2>3 DEF ImprovesBy
<1>5. QED
  BY <1>3, <1>4

\* What is moved is what either carries beyond what both carry.
LEMMA MovedIsRest ==
    ASSUME NEW a, IsShares(a), NEW b, IsShares(b)
    PROVE  /\ moved_bandwidth(a, b) = total_granted(a) + total_granted(b) - 2 * Both(a, b)
           /\ moved_bandwidth(a, b) \in Nat /\ Both(a, b) \in Nat
<1> DEFINE K == Keys(a) \cup Keys(b)
           f == [key \in K |-> Share(a, key)]
           g == [key \in K |-> Share(b, key)]
           h == [key \in K |-> Abs(Share(b, key) - Share(a, key))]
           m == [key \in K |-> Min({Share(a, key), Share(b, key)})]
           fa == [key \in Keys(a) |-> Share(a, key)]
           gb == [key \in Keys(b) |-> Share(b, key)]
           ma == [key \in Keys(a) |-> Min({Share(a, key), Share(b, key)})]
           fg == [key \in K |-> f[key] + g[key]]
           hm == [key \in K |-> h[key] + m[key]]
<1>1. IsFiniteSet(K) /\ IsFiniteSet(Keys(a)) /\ IsFiniteSet(Keys(b))
  BY KeysFinite, FS_Union
<1>2. ASSUME NEW key \in K
      PROVE  /\ f[key] \in Int /\ g[key] \in Int /\ h[key] \in Int /\ m[key] \in Nat
             /\ f[key] + g[key] = (h[key] + m[key]) + m[key]
             /\ key \notin Keys(a) => f[key] = 0 /\ m[key] = 0
             /\ key \notin Keys(b) => g[key] = 0
  <2> DEFINE x == Share(a, key)
             y == Share(b, key)
  <2>1. x \in Nat /\ y \in Nat /\ (key \notin Keys(a) => x = 0) /\ (key \notin Keys(b) => y = 0)
    BY ShareFacts
  <2>2. f[key] = x /\ g[key] = y /\ h[key] = Abs(y - x) /\ m[key] = Min({x, y})
    OBVIOUS
  <2> HIDE DEF x, y, f, g, h, m, K
  <2>3. Min({x, y}) = IF x <= y THEN x ELSE y
    BY <2>1, MinPair
  <2>4. QED
    BY <2>1, <2>2, <2>3 DEF Abs
<1>3. /\ \A key \in Keys(a) : fa[key] = f[key] /\ ma[key] = m[key]
      /\ \A key \in Keys(b) : gb[key] = g[key]
  OBVIOUS
<1>4. /\ moved_bandwidth(a, b) = SumOver(h, K) /\ Both(a, b) = SumOver(ma, Keys(a))
      /\ total_granted(a) = SumOver(fa, Keys(a)) /\ total_granted(b) = SumOver(gb, Keys(b))
  BY DEF moved_bandwidth, Both, total_granted, Sum
<1>5. \A key \in K : fg[key] = f[key] + g[key] /\ hm[key] = h[key] + m[key]
  OBVIOUS
<1>6. Keys(a) \in SUBSET K /\ Keys(b) \in SUBSET K
  OBVIOUS
<1> HIDE DEF f, g, h, m, fa, gb, ma, fg, hm, K
<1>7. /\ SumOver(fa, Keys(a)) = SumOver(f, Keys(a)) /\ SumOver(ma, Keys(a)) = SumOver(m, Keys(a))
      /\ SumOver(gb, Keys(b)) = SumOver(g, Keys(b))
  BY <1>1, <1>3, SumCongruence
<1>8. SumOver(f, K) = SumOver(f, Keys(a)) /\ SumOver(m, K) = SumOver(m, Keys(a))
  BY <1>1, <1>2, <1>6, SumOutside
<1>9. SumOver(g, K) = SumOver(g, Keys(b))
  BY <1>1, <1>2, <1>6, SumOutside
<1>10. SumOver(fg, K) = SumOver(f, K) + SumOver(g, K)
  BY <1>1, <1>2, <1>5, SumPlus
<1>11. SumOver(hm, K) = SumOver(h, K) + SumOver(m, K)
  BY <1>1, <1>2, <1>5, SumPlus
<1>12. SumOver(fg, K) = SumOver(hm, K) + SumOver(m, K)
  <2>1. \A key \in K : hm[key] \in Int /\ m[key] \in Int /\ fg[key] = hm[key] + m[key]
    BY <1>2, <1>5
  <2>2. QED
    BY <1>1, <2>1, SumPlus
<1>13. SumOver(m, K) \in Nat
  BY <1>1, <1>2, SumNat
<1>14. moved_bandwidth(a, b) \in Nat
  BY MovedFacts
<1>15. total_granted(a) \in Nat /\ total_granted(b) \in Nat
  BY GrantedFacts
<1>16. /\ Both(a, b) = SumOver(m, K)
       /\ total_granted(a) + total_granted(b) = (moved_bandwidth(a, b) + Both(a, b)) + Both(a, b)
  BY <1>4, <1>7, <1>8, <1>9, <1>10, <1>11, <1>12
<1> DEFINE x == moved_bandwidth(a, b)
           y == Both(a, b)
           t == total_granted(a)
           u == total_granted(b)
<1> HIDE DEF x, y, t, u
<1>17. x \in Nat /\ y \in Nat /\ t \in Nat /\ u \in Nat /\ t + u = (x + y) + y
  BY <1>13, <1>14, <1>15, <1>16 DEF x, y, t, u
<1>18. x = t + u - 2 * y
  BY <1>17
<1>19. QED
  BY <1>17, <1>18 DEF x, y, t, u

LEMMA ChangedFinite ==
    ASSUME NEW a, IsShares(a), NEW b, IsShares(b)
    PROVE  IsFiniteSet({key[1] : key \in ChangedKeys(a, b)})
<1> DEFINE C == ChangedKeys(a, b)
           f == [key \in C |-> key[1]]
           T == {key[1] : key \in C}
<1>1. IsFiniteSet(Keys(a) \cup Keys(b)) /\ C \subseteq Keys(a) \cup Keys(b)
  BY KeysFinite, FS_Union DEF ChangedKeys
<1>2. IsFiniteSet(C)
  BY <1>1, FS_Subset
<1>3. T = {f[key] : key \in C}
  OBVIOUS
<1> HIDE DEF f, C
<1>4. IsFiniteSet(T)
  <2> HIDE DEF T
  <2>1. QED
    BY <1>2, <1>3, ImageFinite
<1>5. QED
  BY <1>4 DEF C

\* A demand whose row is not the same in both has a share that changed.
LEMMA RowChanged ==
    ASSUME NEW a, IsShares(a), NEW b, IsShares(b), NEW d,
           NEW key \in Keys(a), key[1] = d,
           <<key, Share(a, key)>> \notin {<<k, Share(b, k)>> : k \in {l \in Keys(b) : l[1] = d}}
    PROVE  key \in ChangedKeys(a, b) /\ key \in ChangedKeys(b, a)
<1>1. ASSUME Share(a, key) = Share(b, key) PROVE FALSE
  <2>1. Share(b, key) # 0
    BY <1>1, ShareFacts
  <2>2. key \in Keys(b)
    BY <2>1, ShareFacts
  <2>3. QED
    BY <1>1, <2>2
<1>2. QED
  BY <1>1 DEF ChangedKeys

LEMMA AcceptedConfined ==
    ASSUME NEW s, validate_structure(s), NEW a, IsShares(a), NEW b, IsShares(b), Confined(s, a, b)
    PROVE  WithinPolicy(s, a, b)
<1> DEFINE x == moved_bandwidth(a, b)
           t == total_granted(a)
           u == total_granted(b)
           y == Both(a, b)
           total == Max({t, u})
           bound == s.policy.churn_max_moved_bandwidth_permille
           moved == t + u - 2 * y
           most == s.policy.churn_max_affected_demands
           listed == DOMAIN a.shares \cup DOMAIN b.shares
           Row(c, d) == {<<key, Share(c, key)>> : key \in {k \in Keys(c) : k[1] = d}}
           affected == {d \in listed : Row(a, d) # Row(b, d)}
           changed == {key[1] : key \in ChangedKeys(a, b)}
<1>1. x = t + u - 2 * y /\ x \in Nat /\ y \in Nat /\ t \in Nat /\ u \in Nat
  BY MovedIsRest, GrantedFacts
<1>2. bound \in Nat /\ bound <= 1000 /\ most \in Nat
  <2>1. bound \in 0 .. 1000 /\ most \in Nat
    BY PolicyFacts, SMTT(60)
  <2> HIDE DEF bound
  <2>2. QED
    BY <2>1
<1>3. permille(x, total) <= bound
  BY DEF Confined, moved_permille
<1>4. most = 0 \/ Cardinality(changed) <= most
  BY DEF Confined, demands_changed
<1>5. 1000 * x < (bound + 1) * total \/ x = 0 \/ (1000 * x > MaxInt /\ bound = 1000)
  <2> HIDE DEF x, t, u, y, bound
  <2>1. total = IF t >= u THEN t ELSE u
    BY <1>1, MaxPair
  <2> HIDE DEF total
  <2>2. total \in Nat /\ t <= total /\ u <= total
    BY <1>1, <2>1
  <2>3. CASE total = 0
    BY <1>1, <2>2, <2>3
  <2>4. CASE total > 0
    <3> DEFINE q == permille(x, total)
    <3>1. x \in Nat /\ total \in Int
      BY <1>1, <2>2
    <3>2. q \in Int /\ (x * 1000 < (q + 1) * total \/ (1000 * x > MaxInt /\ q = 1000))
      <4>1. q \in Int /\ (InPermille(q, x, total) \/ (x * 1000 > MaxInt /\ q = 1000))
        BY <2>4, <3>1, PermilleBounds
      <4>2. 1000 * x = x * 1000
        BY <3>1
      <4>3. QED
        BY <4>1, <4>2 DEF InPermille
    <3> HIDE DEF q
    <3>3. q <= bound
      BY <1>3 DEF q
    <3>4. (q + 1) * total <= (bound + 1) * total
      <4>1. bound - q \in Nat
        BY <1>2, <3>2, <3>3
      <4>2. (bound - q) * total >= 0
        BY <2>2, <4>1
      <4>3. (bound + 1) * total = (q + 1) * total + (bound - q) * total
        BY <1>2, <2>2, <3>2
      <4>4. (q + 1) * total \in Int /\ (bound - q) * total \in Int
        BY <1>2, <2>2, <3>2
      <4>5. QED
        BY <4>2, <4>3, <4>4
    <3>5. (q + 1) * total \in Int /\ (bound + 1) * total \in Int
      BY <1>2, <2>2, <3>2
    <3>6. CASE x * 1000 < (q + 1) * total
      BY <1>1, <3>4, <3>5, <3>6
    <3>7. CASE 1000 * x > MaxInt /\ q = 1000
      BY <1>2, <3>3, <3>7
    <3>8. QED
      BY <3>2, <3>6, <3>7
  <2>5. QED
    BY <2>2, <2>3, <2>4
<1>6. most = 0 \/ Cardinality(affected) <= most
  <2>1. ASSUME NEW d \in affected PROVE d \in changed
    <3>1. CASE \E e \in Row(a, d) : e \notin Row(b, d)
      <4>1. PICK key \in Keys(a) : key[1] = d /\ <<key, Share(a, key)>> \notin Row(b, d)
        BY <3>1
      <4>2. key \in ChangedKeys(a, b)
        BY <4>1, RowChanged
      <4>3. QED
        BY <4>1, <4>2
    <3>2. CASE \E e \in Row(b, d) : e \notin Row(a, d)
      <4>1. PICK key \in Keys(b) : key[1] = d /\ <<key, Share(b, key)>> \notin Row(a, d)
        BY <3>2
      <4>2. key \in ChangedKeys(a, b)
        BY <4>1, RowChanged
      <4>3. QED
        BY <4>1, <4>2
    <3>3. QED
      BY <3>1, <3>2
  <2>2. IsFiniteSet(changed)
    BY ChangedFinite
  <2>3. affected \subseteq changed
    BY <2>1
  <2> HIDE DEF affected, changed, most
  <2>4. IsFiniteSet(affected) /\ Cardinality(affected) <= Cardinality(changed)
    BY <2>2, <2>3, FS_Subset
  <2>5. Cardinality(affected) \in Nat /\ Cardinality(changed) \in Nat
    BY <2>2, <2>4, FS_CardinalityType
  <2>6. QED
    BY <1>2, <1>4, <2>4, <2>5
<1>7. \/ 1000 * moved < (bound + 1) * total
      \/ moved = 0
      \/ 1000 * moved > MaxInt /\ bound = 1000
  <2>1. moved = x
    BY <1>1
  <2> HIDE DEF moved, x
  <2>2. QED
    BY <1>5, <2>1
<1>8. QED
  BY <1>6, <1>7, ZenonT(60) DEF WithinPolicy

\* The bounds are on shares.
LEMMA WithinByShares ==
    ASSUME NEW s, NEW a, NEW b, NEW c, a.shares = c.shares, WithinPolicy(s, a, b)
    PROVE  WithinPolicy(s, c, b)
<1>1. Keys(a) = Keys(c)
  BY DEF Keys
<1>2. \A key : Share(a, key) = Share(c, key)
  BY <1>1 DEF Share
<1>3. total_granted(a) = total_granted(c) /\ Both(a, b) = Both(c, b)
  BY <1>1, <1>2 DEF total_granted, Sum, Both
<1> DEFINE listed == DOMAIN a.shares \cup DOMAIN b.shares
           Row(e, d) == {<<key, Share(e, key)>> : key \in {k \in Keys(e) : k[1] = d}}
<1>4. ASSUME NEW d PROVE Row(a, d) = Row(c, d)
  BY <1>1, <1>2
<1>5. {d \in listed : Row(a, d) # Row(b, d)} = {d \in listed : Row(c, d) # Row(b, d)}
  <2> HIDE DEF Row
  <2>1. QED
    BY <1>4
<1>6. listed = DOMAIN c.shares \cup DOMAIN b.shares
  OBVIOUS
<1> DEFINE bound == s.policy.churn_max_moved_bandwidth_permille
           most == s.policy.churn_max_affected_demands
           Little(total, moved) == \/ 1000 * moved < (bound + 1) * total
                                   \/ moved = 0
                                   \/ 1000 * moved > MaxInt /\ bound = 1000
           Few(ds) == most = 0 \/ Cardinality(ds) <= most
           Within(e) == /\ Little(Max({total_granted(e), total_granted(b)}),
                                  total_granted(e) + total_granted(b) - 2 * Both(e, b))
                        /\ Few({d \in DOMAIN e.shares \cup DOMAIN b.shares : Row(e, d) # Row(b, d)})
<1>7. \A e : WithinPolicy(s, e, b) <=> Within(e)
  BY Zenon DEF WithinPolicy
<1> HIDE DEF Little, Few, Row
<1>8. Within(a) <=> Within(c)
  BY <1>3, <1>5, <1>6
<1>9. QED
  BY <1>7, <1>8

(***************************************************************************)
(* The inductive invariant                                                 *)
(***************************************************************************)
\* What compare_churn is given by solve.
Comparison(s, before, a) ==
    compare_churn(s, before, a, score_allocation(s, before), Score(s, a, TRUE, before))

Declared(x) ==
    /\ IsAllocation(x.incumbent)
    /\ x.has_incumbent \/ x.incumbent = NoAllocation

\* A plan with an answer carries the comparison of that answer with the
\* incumbent it was declared with, and is authorized only if it was not refused.
Answered(s, x) ==
    /\ x = [state |-> x.state, has_incumbent |-> x.has_incumbent, incumbent |-> x.incumbent,
            allocation |-> x.allocation, churn |-> x.churn]
    /\ x.allocation \in Answers[s]
    /\ x.has_incumbent => x.churn = Comparison(s, x.incumbent, x.allocation)
    /\ x.state = "authorized" => x.churn.decision \notin {"hold_incumbent", "reject_regression"}

SlotOK(s, x) ==
    \/ x = Free
    \/ x.state = "validated" /\ Declared(x)
    \/ x.state \in {"proposed", "authorized"} /\ Declared(x) /\ Answered(s, x)

ChurnInv ==
    /\ snapshot \in Snapshots /\ IsAllocation(incumbent)
    /\ plans = [p \in Plans |-> plans[p]]
    /\ \A p \in Plans : SlotOK(snapshot, plans[p])

LEMMA FreeState == Free.state = "free"
<1>1. QED
  BY DEF Free

LEMMA ChurnInit == ASSUME Init PROVE ChurnInv
<1>1. QED
  BY NoAllocationIsOne DEF Init, ChurnInv, SlotOK

\* One slot changes, and what it becomes is fit for the snapshot.
LEMMA SlotStep ==
    ASSUME ChurnInv, NEW p \in Plans, NEW x, SlotOK(snapshot, x),
           plans' = [plans EXCEPT ![p] = x], snapshot' = snapshot, IsAllocation(incumbent')
    PROVE  ChurnInv'
<1>1. plans' = [q \in Plans |-> IF q = p THEN x ELSE plans[q]]
  BY DEF ChurnInv
<1>2. \A q \in Plans : plans'[q] = IF q = p THEN x ELSE plans[q]
  BY <1>1
<1>3. plans' = [q \in Plans |-> plans'[q]]
  BY <1>1, <1>2
<1>4. \A q \in Plans : SlotOK(snapshot, plans'[q])
  BY <1>2 DEF ChurnInv
<1>5. QED
  BY <1>3, <1>4 DEF ChurnInv

LEMMA SolveStep == ASSUME ChurnInv, NEW p \in Plans, Solve(p) PROVE ChurnInv'
<1>1. PICK a \in Answers[snapshot] :
          LET before == plans[p].incumbent
              churn == IF plans[p].has_incumbent
                       THEN compare_churn(snapshot, before, a, score_allocation(snapshot, before),
                                          Score(snapshot, a, TRUE, before))
                       ELSE NotCompared
          IN  plans' = [plans EXCEPT ![p] =
                          [state |-> "proposed", has_incumbent |-> plans[p].has_incumbent,
                           incumbent |-> before, allocation |-> a, churn |-> churn]]
  BY DEF Solve
<1> DEFINE before == plans[p].incumbent
           churn == IF plans[p].has_incumbent THEN Comparison(snapshot, before, a) ELSE NotCompared
           x == [state |-> "proposed", has_incumbent |-> plans[p].has_incumbent,
                 incumbent |-> before, allocation |-> a, churn |-> churn]
<1>2. plans' = [plans EXCEPT ![p] = x]
  BY <1>1, Zenon DEF Comparison
<1>3. plans[p].state = "validated" /\ snapshot' = snapshot /\ incumbent' = incumbent
  BY DEF Solve
<1>4. Declared(plans[p])
  BY <1>3, FreeState DEF ChurnInv, SlotOK
<1>5. plans[p].has_incumbent => churn = Comparison(snapshot, before, a)
  BY Zenon
<1> HIDE DEF churn
<1>6. Answered(snapshot, x)
  BY <1>5 DEF Answered
<1>7. Declared(x)
  BY <1>4 DEF Declared
<1>8. SlotOK(snapshot, x)
  BY <1>6, <1>7 DEF SlotOK
<1> HIDE DEF x
<1>9. IsAllocation(incumbent')
  BY <1>3 DEF ChurnInv
<1>10. QED
  BY <1>2, <1>3, <1>8, <1>9, SlotStep

LEMMA AuthorizeStep == ASSUME ChurnInv, NEW p \in Plans, Authorize(p) PROVE ChurnInv'
<1> DEFINE y == plans[p]
           x == [state |-> "authorized", has_incumbent |-> y.has_incumbent,
                 incumbent |-> y.incumbent, allocation |-> y.allocation, churn |-> y.churn]
<1>1. y.state = "proposed" /\ ~Refused(p) /\ snapshot' = snapshot /\ incumbent' = incumbent
  BY DEF Authorize
<1>2. Declared(y) /\ Answered(snapshot, y)
  BY <1>1, FreeState DEF ChurnInv, SlotOK
<1>3. plans' = [plans EXCEPT ![p] = x]
  <2>1. plans' = [plans EXCEPT ![p] = [y EXCEPT !.state = "authorized"]]
    BY DEF Authorize
  <2>2. [y EXCEPT !.state = "authorized"] = x
    <3>1. y = [state |-> y.state, has_incumbent |-> y.has_incumbent, incumbent |-> y.incumbent,
               allocation |-> y.allocation, churn |-> y.churn]
      BY <1>2 DEF Answered
    <3> HIDE DEF y
    <3>2. QED
      BY <3>1
  <2>3. QED
    BY <2>1, <2>2
<1>4. y.churn.decision \notin {"hold_incumbent", "reject_regression"}
  BY <1>1, Zenon DEF Refused
<1>5. Answered(snapshot, x) /\ Declared(x)
  BY <1>2, <1>4 DEF Answered, Declared
<1>6. SlotOK(snapshot, x)
  BY <1>5 DEF SlotOK
<1> HIDE DEF x, y
<1>7. IsAllocation(incumbent')
  BY <1>1 DEF ChurnInv
<1>8. QED
  BY <1>1, <1>3, <1>6, <1>7, SlotStep

\* Why the incumbent is an allocation: it is an answer for some snapshot.
LEMMA CommitStep == ASSUME ChurnInv, NEW p \in Plans, Commit(p) PROVE ChurnInv'
<1>1. /\ plans[p].state = "authorized" /\ snapshot' = snapshot
      /\ incumbent' = plans[p].allocation /\ plans' = [plans EXCEPT ![p] = Free]
  BY DEF Commit
<1>2. plans[p].allocation \in Answers[snapshot]
  BY <1>1, FreeState DEF ChurnInv, SlotOK, Answered
<1>3. IsAllocation(incumbent')
  BY <1>1, <1>2, AnswerIsAllocation DEF ChurnInv
<1>4. SlotOK(snapshot, Free)
  BY DEF SlotOK
<1>5. QED
  BY <1>1, <1>3, <1>4, SlotStep

\* With its table or without it.
LEMMA HandedIsAllocation ==
    ASSUME ChurnInv, NEW handed \in Handed
    PROVE  /\ IsAllocation(handed) /\ handed.shares = incumbent.shares
           /\ handed.resources = incumbent.resources \/ DOMAIN handed.resources = {}
<1>1. /\ IsAllocation(incumbent)
      /\ incumbent = [shares |-> incumbent.shares, resources |-> incumbent.resources]
  BY DEF ChurnInv, IsAllocation
<1>2. CASE handed = incumbent
  BY <1>1, <1>2
<1>3. CASE handed = [incumbent EXCEPT !.resources = <<>>]
  <2>1. handed.shares = incumbent.shares /\ handed.resources = <<>>
    BY <1>1, <1>3
  <2>2. handed = [shares |-> handed.shares, resources |-> handed.resources]
    BY <1>1, <1>3
  <2>3. DOMAIN <<>> = {}
    OBVIOUS
  <2>4. IsShares(handed)
    BY <1>1, <2>1 DEF IsAllocation, IsShares
  <2>5. QED
    BY <2>1, <2>2, <2>3, <2>4, FS_EmptySet DEF IsAllocation
<1>4. QED
  BY <1>2, <1>3 DEF Handed

LEMMA ChurnNext == ASSUME ChurnInv, [Next]_vars PROVE ChurnInv'
<1>1. ASSUME NEW s \in Snapshots, SubmitSnapshot(s) PROVE ChurnInv'
  BY <1>1 DEF SubmitSnapshot, ChurnInv, SlotOK
<1>2. ASSUME NEW p \in Plans, Declare(p) PROVE ChurnInv'
  <2>1. PICK has \in BOOLEAN, handed \in Handed :
            plans' = [plans EXCEPT ![p] = [state |-> "validated", has_incumbent |-> has,
                                           incumbent |-> IF has THEN handed ELSE NoAllocation]]
    BY <1>2 DEF Declare
  <2> DEFINE x == [state |-> "validated", has_incumbent |-> has,
                   incumbent |-> IF has THEN handed ELSE NoAllocation]
  <2>2. snapshot' = snapshot /\ incumbent' = incumbent
    BY <1>2 DEF Declare
  <2>3. Declared(x)
    BY HandedIsAllocation, NoAllocationIsOne DEF Declared
  <2>4. SlotOK(snapshot, x)
    BY <2>3 DEF SlotOK
  <2> HIDE DEF x
  <2>5. IsAllocation(incumbent') /\ plans' = [plans EXCEPT ![p] = x]
    BY <2>1, <2>2 DEF ChurnInv, x
  <2>6. QED
    BY <2>2, <2>4, <2>5, SlotStep
<1>3. ASSUME NEW p \in Plans, Discard(p) PROVE ChurnInv'
  <2>1. plans' = [plans EXCEPT ![p] = Free] /\ snapshot' = snapshot /\ incumbent' = incumbent
    BY <1>3 DEF Discard
  <2>2. SlotOK(snapshot, Free) /\ IsAllocation(incumbent')
    BY <2>1 DEF SlotOK, ChurnInv
  <2>3. QED
    BY <2>1, <2>2, SlotStep
<1>4. CASE UNCHANGED vars
  BY <1>4 DEF ChurnInv, vars
<1>5. QED
  BY <1>1, <1>2, <1>3, <1>4, SolveStep, AuthorizeStep, CommitStep DEF Next

\* Whatever a live plan reports was computed for the snapshot in force and for
\* the incumbent its publisher supplied, and every incumbent was once an answer.
THEOREM ChurnInvHolds == Spec => []ChurnInv
<1>1. Init => ChurnInv
  BY ChurnInit
<1>2. ChurnInv /\ [Next]_vars => ChurnInv'
  BY ChurnNext
<1>3. QED
  BY <1>1, <1>2, PTL DEF Spec

(***************************************************************************)
(* Replacing an incumbent                                                  *)
(***************************************************************************)
LEMMA ReplacementAccepted ==
    ASSUME ChurnInv, NEW p \in Plans, Replaces(p), DOMAIN incumbent.shares # {}
    PROVE  LET a == plans[p].allocation
               before == plans[p].incumbent
               with == Score(snapshot, a, TRUE, before)
               scored == score_allocation(snapshot, before)
           IN  /\ a \in Answers[snapshot] /\ before \in Handed /\ ~(with > scored)
               /\ Improves(snapshot, scored, with) /\ Confined(snapshot, before, a)
<1> DEFINE x == plans[p]
           a == x.allocation
           before == x.incumbent
           with == Score(snapshot, a, TRUE, before)
           scored == score_allocation(snapshot, before)
<1>1. x.state = "authorized" /\ before \in Handed
  BY DEF Replaces
<1>2. Declared(x) /\ Answered(snapshot, x)
  BY <1>1, FreeState DEF ChurnInv, SlotOK
<1>3. before.shares = incumbent.shares
  BY <1>1, HandedIsAllocation
<1>4. x.has_incumbent
  <2>1. DOMAIN NoAllocation.shares = {}
    BY DEF NoAllocation
  <2>2. QED
    BY <1>2, <1>3, <2>1 DEF Declared
<1>5. x.churn = compare_churn(snapshot, before, a, scored, with)
  BY <1>2, <1>4, Zenon DEF Answered, Comparison
<1>6. x.churn.decision \notin {"hold_incumbent", "reject_regression"} /\ a \in Answers[snapshot]
  BY <1>1, <1>2 DEF Answered
<1> HIDE DEF x, a, before, with, scored
<1>7. /\ ~(with > scored) /\ Improves(snapshot, scored, with) /\ Confined(snapshot, before, a)
  <2>1. DOMAIN before.shares # {}
    BY <1>3
  <2>2. QED
    BY <1>5, <1>6, <2>1 DEF compare_churn
<1>8. QED
  BY <1>1, <1>6, <1>7 DEF x, a, before, with, scored

\* A plan that replaces the incumbent it was compared with scores better than it by
\* at least the policy's threshold, or by more than permille can scale, although the
\* two scores that compare_churn is given are not on the same footing: only the
\* proposal's counts the churn term, and only the proposal is sure to have a table.
THEOREM ReplacementImprovesHolds == Spec => ReplacementImproves
<1> DEFINE Step ==
               \A p \in Plans : Replaces(p) /\ DOMAIN incumbent.shares # {} =>
                   ImprovesBy(snapshot.policy.churn_improvement_threshold_permille,
                              score_allocation(snapshot, incumbent),
                              score_allocation(snapshot, plans[p].allocation))
<1>1. ASSUME ChurnInv PROVE Step
  <2> SUFFICES ASSUME NEW p \in Plans, Replaces(p), DOMAIN incumbent.shares # {}
               PROVE  ImprovesBy(snapshot.policy.churn_improvement_threshold_permille,
                                 score_allocation(snapshot, incumbent),
                                 score_allocation(snapshot, plans[p].allocation))
    OBVIOUS
  <2> DEFINE a == plans[p].allocation
             before == plans[p].incumbent
             with == Score(snapshot, a, TRUE, before)
             scored == score_allocation(snapshot, before)
             old == score_allocation(snapshot, incumbent)
             new == score_allocation(snapshot, a)
             threshold == snapshot.policy.churn_improvement_threshold_permille
  <2>1. /\ a \in Answers[snapshot] /\ before \in Handed
        /\ ~(with > scored) /\ Improves(snapshot, scored, with)
    BY <1>1, ReplacementAccepted
  <2>2. snapshot \in Snapshots /\ validate_structure(snapshot) /\ IsAllocation(incumbent)
    BY <1>1, SnapshotsAssumption DEF ChurnInv
  <2>3. IsAllocation(a) /\ \A t \in DOMAIN snapshot.objective : snapshot.objective[t] > 0
    BY <2>1, <2>2, AnswerIsAllocation
  <2>4. /\ IsAllocation(before) /\ before.shares = incumbent.shares
        /\ before.resources = incumbent.resources \/ DOMAIN before.resources = {}
    BY <1>1, <2>1, HandedIsAllocation
  <2>5. new \in Int /\ with \in Int /\ new <= with
    BY <2>2, <2>3, <2>4, ScoreFacts
  <2>6. scored \in Int /\ old \in Int /\ scored <= old
    BY <2>2, <2>3, <2>4, LostTable
  <2>7. threshold \in 0 .. 1000
    BY <2>2, PolicyFacts, SMTT(60)
  <2>8. improvement_permille(scored, with) >= threshold
    BY <2>1 DEF Improves
  <2> HIDE DEF a, before, with, scored, old, new, threshold
  <2>9. with <= scored
    BY <2>1, <2>5, <2>6
  <2>10. ImprovesBy(threshold, old, new)
    <3> DEFINE gain == improvement_permille(scored, with)
    <3>1. gain >= threshold
      BY <2>8
    <3>2. ASSUME gain >= threshold PROVE ImprovesBy(threshold, old, new)
      BY <2>5, <2>6, <2>7, <2>9, <3>2, AcceptedImprovement, ZenonT(60)
    <3>3. QED
      BY <3>1, <3>2
  <2>11. QED
    BY <2>10 DEF old, new, threshold, a
<1>2. ChurnInv /\ [Next]_vars => [Step]_vars
  BY <1>1
<1>3. QED
  BY <1>2, ChurnInvHolds, PTL DEF Spec, ReplacementImproves

\* And it moves no more bandwidth and touches no more demands than the policy
\* allows, measured by what the two allocations have in common.
THEOREM ReplacementConfinedHolds == Spec => ReplacementConfined
<1> DEFINE Step ==
               \A p \in Plans : Replaces(p) /\ DOMAIN incumbent.shares # {} =>
                   WithinPolicy(snapshot, incumbent, plans[p].allocation)
<1>1. ASSUME ChurnInv PROVE Step
  <2> SUFFICES ASSUME NEW p \in Plans, Replaces(p), DOMAIN incumbent.shares # {}
               PROVE  WithinPolicy(snapshot, incumbent, plans[p].allocation)
    OBVIOUS
  <2> DEFINE a == plans[p].allocation
             before == plans[p].incumbent
  <2>1. a \in Answers[snapshot] /\ before \in Handed /\ Confined(snapshot, before, a)
    BY <1>1, ReplacementAccepted
  <2>2. snapshot \in Snapshots /\ validate_structure(snapshot) /\ IsAllocation(incumbent)
    BY <1>1, SnapshotsAssumption DEF ChurnInv
  <2>3. IsAllocation(a)
    BY <2>1, <2>2, AnswerIsAllocation
  <2>4. IsAllocation(before) /\ before.shares = incumbent.shares
    BY <1>1, <2>1, HandedIsAllocation
  <2>5. WithinPolicy(snapshot, before, a)
    BY <2>1, <2>2, <2>3, <2>4, AcceptedConfined DEF IsAllocation
  <2>6. QED
    BY <2>4, <2>5, WithinByShares
<1>2. ChurnInv /\ [Next]_vars => [Step]_vars
  BY <1>1
<1>3. QED
  BY <1>2, ChurnInvHolds, PTL DEF Spec, ReplacementConfined

(***************************************************************************)
(* The problem of a valid snapshot                                         *)
(***************************************************************************)
LEMMA PathFields ==
    ASSUME NEW s, validate_structure(s), NEW p \in DOMAIN s.paths
    PROVE  /\ p \in Nat \ {0} /\ s.paths[p].cost \in Nat
           /\ s.paths[p].latency_micros \in Int /\ s.paths[p].latency_micros >= -1
<1>1. p \in Nat \ {0}
  BY DEF validate_structure, ValidPaths, Identities, Absent
<1>2. s.paths[p].cost \in Nat /\ OptionalNat(s.paths[p].latency_micros)
  BY DEF validate_structure, ValidPaths
<1>3. QED
  BY <1>1, <1>2 DEF OptionalNat, None

\* derive's order of paths is a strict total order.
LEMMA PathOrder ==
    ASSUME NEW s, validate_structure(s)
    PROVE  /\ \A p \in DOMAIN s.paths : ~path_less(s, p, p)
           /\ \A p, q \in DOMAIN s.paths : p = q \/ path_less(s, p, q) \/ path_less(s, q, p)
           /\ \A p, q, r \in DOMAIN s.paths :
                 path_less(s, p, q) /\ path_less(s, q, r) => path_less(s, p, r)
<1>1. \A p \in DOMAIN s.paths :
          /\ p \in Int /\ s.paths[p].cost \in Int
          /\ s.paths[p].latency_micros \in Int /\ s.paths[p].latency_micros >= -1
  BY PathFields
<1>2. \A p \in DOMAIN s.paths : ~path_less(s, p, p)
  BY <1>1 DEF path_less
<1>3. \A p, q \in DOMAIN s.paths : p = q \/ path_less(s, p, q) \/ path_less(s, q, p)
  BY <1>1 DEF path_less, None
<1>4. \A p, q, r \in DOMAIN s.paths :
          path_less(s, p, q) /\ path_less(s, q, r) => path_less(s, p, r)
  BY <1>1 DEF path_less, None
<1>5. QED
  BY <1>2, <1>3, <1>4

\* Each place of the list is taken by one path.
LEMMA Ranks ==
    ASSUME NEW s, validate_structure(s), NEW S \in SUBSET DOMAIN s.paths, NEW rank,
           rank = [p \in S |-> Cardinality({q \in S : path_less(s, q, p)})]
    PROVE  /\ IsFiniteSet(S) /\ Cardinality(S) \in Nat
           /\ \A i \in 1 .. Cardinality(S) : \E p \in S : rank[p] = i - 1
<1> DEFINE Before(p) == {q \in S : path_less(s, q, p)}
           n == Cardinality(S)
           T == {rank[p] : p \in S}
           N == 0 .. n - 1
           r == [p \in S |-> rank[p]]
<1>1. IsFiniteSet(S) /\ n \in Nat
  BY FS_Subset, FS_CardinalityType DEF validate_structure, ValidSizes
<1>2. \A p \in S : IsFiniteSet(Before(p)) /\ Cardinality(Before(p)) \in Nat
  BY <1>1, FS_Subset, FS_CardinalityType
<1>3. ASSUME NEW p \in S PROVE rank[p] \in N
  <2>1. Before(p) \subseteq S /\ Before(p) # S
    BY PathOrder
  <2>2. Cardinality(Before(p)) <= n /\ Cardinality(Before(p)) # n
    BY <1>1, <2>1, FS_Subset
  <2>3. rank[p] = Cardinality(Before(p))
    OBVIOUS
  <2> HIDE DEF Before, n
  <2>4. QED
    BY <1>1, <1>2, <2>2, <2>3
<1>4. ASSUME NEW p \in S, NEW q \in S, path_less(s, p, q) PROVE rank[p] # rank[q]
  <2>1. Before(p) \subseteq Before(q) /\ p \in Before(q) /\ p \notin Before(p)
    BY <1>4, PathOrder
  <2>2. Cardinality(Before(p)) # Cardinality(Before(q))
    <3> DEFINE U == Before(p)
               V == Before(q)
    <3>1. U \subseteq V /\ U # V /\ IsFiniteSet(V)
      BY <1>2, <2>1
    <3> HIDE DEF U, V
    <3>2. Cardinality(U) # Cardinality(V)
      BY <3>1, FS_Subset
    <3>3. QED
      BY <3>2 DEF U, V
  <2>3. QED
    BY <2>2
<1>5. \A p, q \in S : p # q => rank[p] # rank[q]
  BY <1>4, PathOrder
<1>6. r \in Surjection(S, T) /\ r \in Injection(S, T)
  BY <1>5 DEF Surjection, Injection, IsInjective
<1>7. Cardinality(T) = n
  BY <1>1, <1>6, FS_Surjection
<1>8. IsFiniteSet(N) /\ Cardinality(N) = n
  <2> HIDE DEF n
  <2>1. 0 \in Int /\ n - 1 \in Int
    BY <1>1
  <2>2. Cardinality(0 .. n - 1) = (IF 0 > n - 1 THEN 0 ELSE n - 1 - 0 + 1) /\ IsFiniteSet(0 .. n - 1)
    BY <2>1, FS_Interval
  <2>3. QED
    BY <1>1, <2>2
<1>9. T \subseteq N
  BY <1>3
<1>10. T = N
  <2> HIDE DEF T, N, n
  <2>1. QED
    BY <1>7, <1>8, <1>9, FS_Subset
<1>11. ASSUME NEW i \in 1 .. n PROVE \E p \in S : rank[p] = i - 1
  <2>1. i - 1 \in N
    <3> HIDE DEF n
    <3>1. QED
      BY <1>1
  <2>2. QED
    BY <1>10, <2>1
<1>12. QED
  BY <1>1, <1>11

LEMMA EligibleIsList ==
    ASSUME NEW s, validate_structure(s), NEW d
    PROVE  /\ eligible_paths(s, d) \in Seq(DOMAIN s.paths)
           /\ \A i, j \in DOMAIN eligible_paths(s, d) :
                 i # j => eligible_paths(s, d)[i] # eligible_paths(s, d)[j]
<1> DEFINE S == {p \in DOMAIN s.paths : active(s, d) /\ Eligible(s, d, p)}
           Before(p) == {q \in S : path_less(s, q, p)}
           limit == s.policy.max_paths_per_demand
           n == Cardinality(S)
           count == IF limit = 0 THEN n ELSE Min({limit, n})
           f == [i \in 1 .. count |-> CHOOSE p \in S : Cardinality(Before(p)) = i - 1]
           rank == [p \in S |-> Cardinality(Before(p))]
<1>1. S \in SUBSET DOMAIN s.paths
  OBVIOUS
<1>2. rank = [p \in S |-> Cardinality({q \in S : path_less(s, q, p)})]
  OBVIOUS
<1>3. limit \in Nat
  BY PolicyFacts
<1>4. eligible_paths(s, d) = f
  BY DEF eligible_paths
<1>5. n \in Nat /\ \A i \in 1 .. n : \E p \in S : rank[p] = i - 1
  <2> HIDE DEF S, rank
  <2>1. QED
    BY <1>1, <1>2, Ranks
<1>6. count \in Nat /\ count <= n
  <2> HIDE DEF limit, n
  <2>1. QED
    BY <1>3, <1>5, MinPair
<1>7. ASSUME NEW i \in 1 .. count PROVE f[i] \in S /\ rank[f[i]] = i - 1
  <2>1. i \in 1 .. n
    <3> HIDE DEF count, n
    <3>1. QED
      BY <1>5, <1>6
  <2>2. \E p \in S : Cardinality(Before(p)) = i - 1
    BY <1>5, <2>1
  <2> DEFINE x == CHOOSE p \in S : Cardinality(Before(p)) = i - 1
  <2>3. x \in S /\ Cardinality(Before(x)) = i - 1
    BY <2>2
  <2>4. f[i] = x
    OBVIOUS
  <2> HIDE DEF x, f
  <2>5. rank[x] = Cardinality(Before(x))
    BY <2>3
  <2>6. QED
    BY <2>3, <2>4, <2>5
<1>8. DOMAIN f = 1 .. count /\ f \in [1 .. count -> S]
  BY <1>7
<1> HIDE DEF f, rank, count
<1>9. f \in Seq(DOMAIN s.paths)
  <2>1. f \in [1 .. count -> DOMAIN s.paths]
    BY <1>8
  <2>2. QED
    BY <1>6, <2>1
<1>10. ASSUME NEW i \in 1 .. count, NEW j \in 1 .. count, i # j PROVE f[i] # f[j]
  <2>1. rank[f[i]] = i - 1 /\ rank[f[j]] = j - 1
    BY <1>7
  <2>2. i - 1 # j - 1
    BY <1>6, <1>10
  <2>3. QED
    BY <2>1, <2>2
<1>11. QED
  BY <1>4, <1>8, <1>9, <1>10

\* What Solver assumes of its problems holds of the problem of every snapshot that
\* validate_structure admits, under options that solve does not refuse.
THEOREM ValidSnapshotIsProblem ==
    ASSUME NEW s, validate_structure(s), NEW options, options.max_iterations \in Nat \ {0}
    PROVE  IsProblem(make_problem(s, options))
<1> DEFINE D == DOMAIN s.demands
           R == DOMAIN s.resources
           P == DOMAIN s.paths
           p == make_problem(s, options)
<1>1. /\ p.demands = D /\ p.resources = R /\ p.paths = P
      /\ p.usable = [r \in R |-> s.resources[r].usable_capacity]
      /\ p.claimed = [r \in R |-> claimed(s, r)]
      /\ p.available = [r \in R |-> available(s, r)]
  BY DEF make_problem, derive
<1>2. /\ p.active = [d \in D |-> active(s, d)]
      /\ p.excluded = [d \in D |-> excluded(s, d)]
      /\ p.floor = [d \in D |-> floor(s, d)]
      /\ p.desired = [d \in D |-> desired(s, d)]
      /\ p.maximum = [d \in D |-> s.demands[d].maximum_bandwidth]
      /\ p.priority = [d \in D |-> s.demands[d].priority]
      /\ p.eligible = [d \in D |-> eligible_paths(s, d)]
  BY DEF make_problem, derive, desired
<1>3. /\ p.through = [x \in P |-> s.paths[x].resources]
      /\ p.failure_domains = [x \in P |-> s.paths[x].failure_domains]
      /\ p.less = {pair \in P \X P : path_less(s, pair[1], pair[2])}
      /\ p.policy_ceiling = s.policy.max_utilization_permille
      /\ p.max_iterations = options.max_iterations
  BY DEF make_problem, derive
<1> HIDE DEF p
<1>4. /\ D \subseteq Nat \ {0} /\ P \subseteq Nat /\ R \subseteq Nat
      /\ IsFiniteSet(D) /\ IsFiniteSet(P) /\ IsFiniteSet(R)
  BY DEF validate_structure, ValidSizes, ValidDemands, ValidPaths, ValidCapacity, Identities, Absent
<1>5. /\ p.usable \in [R -> Nat] /\ p.claimed \in [R -> Nat] /\ p.available \in [R -> Nat]
      /\ p.floor \in [D -> Nat] /\ p.desired \in [D -> Nat]
  BY <1>1, <1>2, DerivedFacts
<1>6. p.maximum \in [D -> Nat] /\ p.priority \in [D -> Nat]
  <2>1. \A d \in D : s.demands[d].maximum_bandwidth \in Nat /\ s.demands[d].priority \in 0 .. 255
    BY DEF validate_structure, ValidDemands
  <2>2. \A d \in D : s.demands[d].priority \in Nat
    BY <2>1
  <2>3. p.maximum = [d \in D |-> s.demands[d].maximum_bandwidth] /\ p.maximum \in [D -> Nat]
    BY <1>2, <2>1
  <2>4. p.priority = [d \in D |-> s.demands[d].priority] /\ p.priority \in [D -> Nat]
    BY <1>2, <2>2
  <2>5. QED
    BY <2>3, <2>4
<1>7. p.active \in [D -> BOOLEAN] /\ p.excluded \in [D -> BOOLEAN]
  <2>1. \A d \in D : active(s, d) \in BOOLEAN /\ excluded(s, d) \in BOOLEAN
    BY DEF active, excluded, covers
  <2>2. QED
    BY <1>2, <2>1
<1>8. /\ p.eligible \in [D -> Seq(P)]
      /\ \A d \in D : \A i, j \in DOMAIN p.eligible[d] :
             i # j => p.eligible[d][i] # p.eligible[d][j]
  BY <1>2, EligibleIsList
<1>9. \A x, y \in P : <<x, y>> \in p.less => <<y, x>> \notin p.less
  <2> SUFFICES ASSUME NEW x \in P, NEW y \in P, path_less(s, x, y), path_less(s, y, x) PROVE FALSE
    BY <1>3
  <2>1. path_less(s, x, x)
    BY PathOrder
  <2>2. QED
    BY <2>1, PathOrder
<1>10. /\ p.through \in [P -> (SUBSET R) \ {{}}]
       /\ \A x \in P : IsFiniteSet(p.failure_domains[x])
  BY <1>3 DEF validate_structure, ValidPaths, ValidSizes
<1>11. p.policy_ceiling \in 1 .. 1000
  <2>1. s.policy.max_utilization_permille \in 1 .. 1000
    BY PolicyFacts, SMTT(60)
  <2>2. QED
    BY <1>3, <2>1
<1>12. IsProblem(p)
  BY <1>1, <1>3, <1>4, <1>5, <1>6, <1>7, <1>8, <1>9, <1>10, <1>11 DEF IsProblem
<1>13. QED
  BY <1>12 DEF p

===============================================================================
