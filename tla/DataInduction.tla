---------------------------- MODULE DataInduction ----------------------------
(***************************************************************************)
(* Induction over data for the proofs of the other modules.  What is to be *)
(* shown of every number, or of every part of a finite set, is given as    *)
(* the set of those it holds of: a first-order statement, to which the     *)
(* provers can supply that set.                                            *)
(***************************************************************************)
EXTENDS Integers, Sums, FiniteSets, FiniteSetTheorems, WellFoundedInduction, TLAPS

\* A set of naturals that is not empty has a least element.
LEMMA LeastElement ==
    ASSUME NEW T \in SUBSET Nat, T # {}
    PROVE  \E m \in T : \A k \in T : m <= k
<1> DEFINE R == OpToRel(<, Nat)
<1>1. IsWellFoundedOn(R, Nat)
  BY NatLessThanWellFounded
<1>2. \A i, j \in Nat : i < j => <<i, j>> \in R
  BY DEF OpToRel
<1> HIDE DEF R
<1>3. \E m \in T : \A k \in T : ~(<<k, m>> \in R)
  BY <1>1, WFMin
<1>4. PICK m \in T : \A k \in T : ~(<<k, m>> \in R)
  BY <1>3
<1>5. ASSUME NEW k \in T PROVE m <= k
  <2>1. k \in Nat /\ m \in Nat
    OBVIOUS
  <2>2. ~(k < m)
    BY <1>2, <1>4, <2>1
  <2>3. QED
    BY <2>1, <2>2
<1>6. QED
  BY <1>5

\* Induction over the naturals, for the numbers of a set.
LEMMA NatSetInduction ==
    ASSUME NEW Good, 0 \in Good, \A n \in Nat : n \in Good => n + 1 \in Good
    PROVE  Nat \subseteq Good
<1> DEFINE T == Nat \ Good
<1>1. SUFFICES ASSUME T # {} PROVE FALSE
  OBVIOUS
<1>2. PICK m \in T : \A k \in T : m <= k
  BY <1>1, LeastElement
<1>3. m # 0 /\ m - 1 \in Nat
  OBVIOUS
<1>4. m - 1 \in Good
  BY <1>2, <1>3
<1>5. QED
  BY <1>3, <1>4

\* Induction over a finite set: it is built from the empty one by adding
\* elements.
LEMMA SetInduction ==
    ASSUME NEW T, IsFiniteSet(T), NEW Good, {} \in Good,
           \A s \in SUBSET T, x \in T : s \in Good /\ x \notin s => s \cup {x} \in Good
    PROVE  T \in Good
<1> DEFINE Sized == {n \in Nat : \A s \in SUBSET T : Cardinality(s) = n => s \in Good}
<1>1. \A s \in SUBSET T : IsFiniteSet(s) /\ Cardinality(s) \in Nat
  BY FS_Subset, FS_CardinalityType
<1>2. 0 \in Sized
  BY <1>1, FS_EmptySet
<1>3. ASSUME NEW n \in Nat, n \in Sized PROVE n + 1 \in Sized
  <2> SUFFICES ASSUME NEW s \in SUBSET T, Cardinality(s) = n + 1 PROVE s \in Good
    OBVIOUS
  <2>1. s # {}
    BY FS_EmptySet
  <2>2. PICK x \in s : TRUE
    BY <2>1
  <2>3. Cardinality(s \ {x}) = Cardinality(s) - 1
    BY <1>1, FS_RemoveElement
  <2>4. s \ {x} \in SUBSET T /\ Cardinality(s \ {x}) = n
    BY <2>3
  <2>5. s \ {x} \in Good
    BY <1>3, <2>4
  <2>6. s = (s \ {x}) \cup {x}
    OBVIOUS
  <2>7. QED
    BY <2>4, <2>5, <2>6
<1>4. Nat \subseteq Sized
  BY <1>2, <1>3, NatSetInduction
<1>5. QED
  BY <1>1, <1>4

\* The same, from all smaller parts.
LEMMA StrongSetInduction ==
    ASSUME NEW T, IsFiniteSet(T), NEW Good,
           \A s \in SUBSET T : (\A t \in SUBSET s : t # s => t \in Good) => s \in Good
    PROVE  SUBSET T \subseteq Good
<1> DEFINE Sized == {n \in Nat : \A s \in SUBSET T : Cardinality(s) <= n => s \in Good}
<1>1. \A s \in SUBSET T : IsFiniteSet(s) /\ Cardinality(s) \in Nat
  BY FS_Subset, FS_CardinalityType
<1>2. \A s \in SUBSET T : \A t \in SUBSET s : t # s => Cardinality(t) < Cardinality(s)
  BY <1>1, FS_Subset
<1>3. 0 \in Sized
  <2> SUFFICES ASSUME NEW s \in SUBSET T, Cardinality(s) <= 0 PROVE s \in Good
    OBVIOUS
  <2>1. \A t \in SUBSET s : t \in SUBSET T /\ (t # s => FALSE)
    BY <1>1, <1>2
  <2>2. QED
    BY <2>1
<1>4. ASSUME NEW n \in Nat, n \in Sized PROVE n + 1 \in Sized
  <2> SUFFICES ASSUME NEW s \in SUBSET T, Cardinality(s) <= n + 1 PROVE s \in Good
    OBVIOUS
  <2>1. ASSUME NEW t \in SUBSET s, t # s PROVE t \in Good
    <3>1. t \in SUBSET T /\ Cardinality(t) < Cardinality(s)
      BY <1>2, <2>1
    <3>2. Cardinality(t) <= n
      BY <1>1, <3>1
    <3>3. QED
      BY <1>4, <3>1, <3>2
  <2>2. QED
    BY <2>1
<1>5. Nat \subseteq Sized
  BY <1>3, <1>4, NatSetInduction
<1>6. QED
  BY <1>1, <1>5

(***************************************************************************)
(* Sums                                                                    *)
(***************************************************************************)
Pick(s) == CHOOSE x \in s : TRUE
SumStep(f, g, s) == IF s = {} THEN 0 ELSE f[Pick(s)] + g[s \ {Pick(s)}]
SumTable(f, S) == CHOOSE g : g = [s \in SUBSET S |-> SumStep(f, g, s)]

LEMMA PickIn == ASSUME NEW s, s # {} PROVE Pick(s) \in s /\ s \ {Pick(s)} # s
<1>1. Pick(s) \in s
  BY DEF Pick
<1>2. QED
  BY <1>1

\* The table the sum is read from exists.
LEMMA SumTableDefined ==
    ASSUME NEW S, IsFiniteSet(S), NEW f
    PROVE  \A s \in SUBSET S : SumTable(f, S)[s] = SumStep(f, SumTable(f, S), s)
<1> DEFINE Small(n) == {s \in SUBSET S : Cardinality(s) <= n}
           Fcn(g, n) == [s \in Small(n) |-> SumStep(f, g, s)]
           Good == {n \in Nat : \E g : g = Fcn(g, n)}
<1>1. \A s \in SUBSET S : IsFiniteSet(s) /\ Cardinality(s) \in Nat /\ Cardinality(s) <= Cardinality(S)
  BY FS_Subset, FS_CardinalityType
<1>2. \A s \in SUBSET S : s # {} => /\ s \ {Pick(s)} \in SUBSET S
                                    /\ Cardinality(s \ {Pick(s)}) = Cardinality(s) - 1
  BY <1>1, FS_RemoveElement, PickIn
<1>3. \A s \in SUBSET S : Cardinality(s) <= 0 => s = {}
  BY <1>1, FS_EmptySet
<1> HIDE DEF Small
<1>4. 0 \in Good
  <2> DEFINE g == [s \in Small(0) |-> 0]
  <2>1. \A s \in Small(0) : s = {}
    BY <1>3 DEF Small
  <2>2. \A s \in Small(0) : SumStep(f, g, s) = 0
    BY <2>1 DEF SumStep
  <2>3. g = Fcn(g, 0)
    BY <2>2
  <2> HIDE DEF g
  <2>4. \E h : h = Fcn(h, 0)
    BY <2>3
  <2>5. QED
    BY <2>4
<1>5. ASSUME NEW n \in Nat, n \in Good PROVE n + 1 \in Good
  <2>1. PICK g : g = Fcn(g, n)
    BY <1>5
  <2> DEFINE h == [s \in Small(n + 1) |-> IF s \in Small(n) THEN g[s] ELSE SumStep(f, g, s)]
  <2>2. Small(n) \subseteq Small(n + 1)
    BY <1>1 DEF Small
  <2>3. \A s \in Small(n) : h[s] = g[s]
    BY <2>2
  <2>4. \A s \in Small(n + 1) : s # {} => s \ {Pick(s)} \in Small(n)
    BY <1>1, <1>2 DEF Small
  <2>5. \A s \in Small(n) : g[s] = SumStep(f, g, s)
    BY <2>1
  <2>6. \A s \in Small(n + 1) : h[s] = SumStep(f, g, s)
    BY <2>3, <2>5
  <2> HIDE DEF h
  <2>7. \A s \in Small(n + 1) : SumStep(f, g, s) = SumStep(f, h, s)
    BY <2>3, <2>4 DEF SumStep
  <2>8. h = [s \in Small(n + 1) |-> SumStep(f, h, s)]
    <3>1. h = [s \in Small(n + 1) |-> h[s]]
      BY DEF h
    <3>2. \A s \in Small(n + 1) : h[s] = SumStep(f, h, s)
      BY <2>6, <2>7
    <3>3. QED
      BY <3>1, <3>2
  <2>9. \E k : k = Fcn(k, n + 1)
    BY <2>8
  <2>10. QED
    BY <2>9
<1>6. Nat \subseteq Good
  BY <1>4, <1>5, NatSetInduction
<1>7. Small(Cardinality(S)) = SUBSET S
  BY <1>1 DEF Small
<1>8. \E g : g = Fcn(g, Cardinality(S))
  <2>1. Cardinality(S) \in Nat
    BY FS_CardinalityType
  <2>2. QED
    BY <1>6, <2>1
<1>9. \E g : g = [s \in SUBSET S |-> SumStep(f, g, s)]
  BY <1>7, <1>8
<1>10. SumTable(f, S) = [s \in SUBSET S |-> SumStep(f, SumTable(f, S), s)]
  BY <1>9 DEF SumTable
<1> DEFINE t == SumTable(f, S)
<1> HIDE DEF t
<1>11. t = [s \in SUBSET S |-> SumStep(f, t, s)]
  BY <1>10 DEF t
<1>12. \A s \in SUBSET S : t[s] = SumStep(f, t, s)
  BY <1>11
<1>13. QED
  BY <1>12 DEF t

LEMMA SumIsTable == ASSUME NEW f, NEW S PROVE SumOver(f, S) = SumTable(f, S)[S]
<1>1. QED
  BY DEF SumOver, MapThenSumSet, MapThenFoldSet, SumTable, SumStep, Pick

\* A part has the same sum in the table of any set that contains it.
LEMMA SumRecursion ==
    ASSUME NEW S, IsFiniteSet(S), NEW f
    PROVE  /\ S = {} => SumOver(f, S) = 0
           /\ S # {} => SumOver(f, S) = f[Pick(S)] + SumOver(f, S \ {Pick(S)})
<1>1. SumOver(f, S) = SumStep(f, SumTable(f, S), S)
  BY SumTableDefined, SumIsTable
<1>2. ASSUME S # {} PROVE SumOver(f, S) = f[Pick(S)] + SumOver(f, S \ {Pick(S)})
  <2> DEFINE T == S \ {Pick(S)}
             t == SumTable(f, T)
             u == SumTable(f, S)
             Good == {s \in SUBSET T : t[s] = u[s]}
  <2>1. IsFiniteSet(T)
    BY FS_Subset
  <2>2. /\ \A s \in SUBSET T : t[s] = SumStep(f, t, s)
        /\ \A s \in SUBSET S : u[s] = SumStep(f, u, s)
    BY <2>1, SumTableDefined
  <2>3. SumOver(f, T) = t[T] /\ SumOver(f, S) = u[S]
    BY SumIsTable
  <2>4. T \in SUBSET S
    OBVIOUS
  <2> HIDE DEF t, u, T
  <2>5. ASSUME NEW s \in SUBSET T, \A r \in SUBSET s : r # s => r \in Good PROVE s \in Good
    <3>1. s # {} => t[s \ {Pick(s)}] = u[s \ {Pick(s)}]
      BY <2>5, PickIn
    <3>2. SumStep(f, t, s) = SumStep(f, u, s)
      BY <3>1 DEF SumStep
    <3>3. QED
      BY <2>2, <2>4, <3>2
  <2>6. SUBSET T \subseteq Good
    <3> HIDE DEF Good
    <3>1. QED
      BY <2>1, <2>5, StrongSetInduction
  <2>7. t[T] = u[T]
    BY <2>6
  <2>8. u[S] = f[Pick(S)] + u[T]
    BY <1>2, <2>2 DEF SumStep, T
  <2>9. QED
    BY <2>3, <2>7, <2>8 DEF T
<1>3. QED
  BY <1>1, <1>2 DEF SumStep

\* The sum depends on the values over the set only, and is of their kind.
LEMMA SumCongruence ==
    ASSUME NEW S, IsFiniteSet(S), NEW f, NEW g, \A x \in S : f[x] = g[x]
    PROVE  SumOver(f, S) = SumOver(g, S)
<1> DEFINE Good == {s \in SUBSET S : SumOver(f, s) = SumOver(g, s)}
<1>1. ASSUME NEW s \in SUBSET S, \A t \in SUBSET s : t # s => t \in Good PROVE s \in Good
  <2>1. IsFiniteSet(s)
    BY FS_Subset
  <2>2. CASE s = {}
    BY <2>1, <2>2, SumRecursion
  <2>3. CASE s # {}
    <3>1. Pick(s) \in s /\ s \ {Pick(s)} \in Good
      BY <1>1, <2>3, PickIn
    <3>2. f[Pick(s)] = g[Pick(s)] /\ SumOver(f, s \ {Pick(s)}) = SumOver(g, s \ {Pick(s)})
      BY <3>1
    <3>3. QED
      BY <2>1, <2>3, <3>2, SumRecursion
  <2>4. QED
    BY <2>2, <2>3
<1>2. SUBSET S \subseteq Good
  <2> HIDE DEF Good
  <2>1. QED
    BY <1>1, StrongSetInduction
<1>3. QED
  BY <1>2

LEMMA SumInt ==
    ASSUME NEW S, IsFiniteSet(S), NEW f, \A x \in S : f[x] \in Int
    PROVE  SumOver(f, S) \in Int
<1> DEFINE Good == {s \in SUBSET S : SumOver(f, s) \in Int}
<1>1. ASSUME NEW s \in SUBSET S, \A t \in SUBSET s : t # s => t \in Good PROVE s \in Good
  <2>1. IsFiniteSet(s)
    BY FS_Subset
  <2>2. CASE s = {}
    BY <2>1, <2>2, SumRecursion
  <2>3. CASE s # {}
    <3>1. Pick(s) \in s /\ s \ {Pick(s)} \in Good
      BY <1>1, <2>3, PickIn
    <3>2. f[Pick(s)] \in Int /\ SumOver(f, s \ {Pick(s)}) \in Int
      BY <3>1
    <3>3. SumOver(f, s) = f[Pick(s)] + SumOver(f, s \ {Pick(s)})
      BY <2>1, <2>3, SumRecursion
    <3>4. QED
      BY <3>2, <3>3
  <2>4. QED
    BY <2>2, <2>3
<1>2. SUBSET S \subseteq Good
  <2> HIDE DEF Good
  <2>1. QED
    BY <1>1, StrongSetInduction
<1>3. QED
  BY <1>2

\* Any element may be taken out first.
LEMMA SumSplit ==
    ASSUME NEW S, IsFiniteSet(S), NEW f, \A y \in S : f[y] \in Int
    PROVE  \A x \in S : SumOver(f, S) = f[x] + SumOver(f, S \ {x})
<1> DEFINE Good == {s \in SUBSET S : \A x \in s : SumOver(f, s) = f[x] + SumOver(f, s \ {x})}
<1>1. ASSUME NEW s \in SUBSET S, \A t \in SUBSET s : t # s => t \in Good PROVE s \in Good
  <2> SUFFICES ASSUME NEW x \in s PROVE SumOver(f, s) = f[x] + SumOver(f, s \ {x})
    OBVIOUS
  <2> DEFINE y == Pick(s)
             u == (s \ {x}) \ {y}
  <2>1. y \in s /\ s # {}
    BY PickIn
  <2> HIDE DEF y
  <2>2. IsFiniteSet(s) /\ IsFiniteSet(u)
    BY FS_Subset
  <2>3. SumOver(f, s) = f[y] + SumOver(f, s \ {y})
    BY <2>1, <2>2, SumRecursion DEF y
  <2>4. CASE x = y
    BY <2>3, <2>4
  <2>5. CASE x # y
    <3>1. s \ {y} \in Good /\ s \ {x} \in Good /\ x \in s \ {y} /\ y \in s \ {x}
      BY <1>1, <2>1, <2>5
    <3>2. (s \ {y}) \ {x} = u
      OBVIOUS
    <3>3. SumOver(f, s \ {y}) = f[x] + SumOver(f, u)
      BY <3>1, <3>2
    <3>4. SumOver(f, s \ {x}) = f[y] + SumOver(f, u)
      BY <3>1
    <3>5. SumOver(f, u) \in Int
      BY <2>2, SumInt
    <3>6. f[x] \in Int /\ f[y] \in Int
      BY <2>1
    <3> HIDE DEF u
    <3>7. QED
      BY <2>3, <3>3, <3>4, <3>5, <3>6
  <2>6. QED
    BY <2>4, <2>5
<1>2. SUBSET S \subseteq Good
  <2> HIDE DEF Good
  <2>1. QED
    BY <1>1, StrongSetInduction
<1>3. QED
  BY <1>2

LEMMA SumEmpty == ASSUME NEW f PROVE SumOver(f, {}) = 0
<1>1. QED
  BY SumRecursion, FS_EmptySet

LEMMA SumAdd ==
    ASSUME NEW S, IsFiniteSet(S), NEW x, x \notin S, NEW f, \A y \in S \cup {x} : f[y] \in Int
    PROVE  SumOver(f, S \cup {x}) = f[x] + SumOver(f, S)
<1>1. IsFiniteSet(S \cup {x}) /\ (S \cup {x}) \ {x} = S
  BY FS_AddElement
<1>2. QED
  BY <1>1, SumSplit

\* What a change of one value does to the sum.
LEMMA SumChange ==
    ASSUME NEW S, IsFiniteSet(S), NEW f, NEW g, NEW x,
           \A y \in S : f[y] \in Int /\ g[y] \in Int, \A y \in S : y # x => g[y] = f[y]
    PROVE  SumOver(g, S) = IF x \in S THEN SumOver(f, S) + (g[x] - f[x]) ELSE SumOver(f, S)
<1>1. CASE x \in S
  <2> DEFINE T == S \ {x}
  <2>1. IsFiniteSet(T)
    BY FS_Subset
  <2>2. SumOver(f, S) = f[x] + SumOver(f, T) /\ SumOver(g, S) = g[x] + SumOver(g, T)
    BY <1>1, SumSplit
  <2>3. SumOver(f, T) = SumOver(g, T)
    BY <2>1, SumCongruence
  <2>4. SumOver(f, T) \in Int /\ f[x] \in Int /\ g[x] \in Int
    BY <1>1, <2>1, SumInt
  <2> HIDE DEF T
  <2>5. SumOver(g, S) = SumOver(f, S) + (g[x] - f[x])
    BY <2>2, <2>3, <2>4
  <2>6. QED
    BY <1>1, <2>5
<1>2. CASE x \notin S
  <2>1. SumOver(f, S) = SumOver(g, S)
    BY <1>2, SumCongruence
  <2>2. QED
    BY <1>2, <2>1
<1>3. QED
  BY <1>1, <1>2

\* Sums of naturals: not less than any part of them.
LEMMA SumNat ==
    ASSUME NEW S, IsFiniteSet(S), NEW f, \A x \in S : f[x] \in Nat
    PROVE  SumOver(f, S) \in Nat /\ \A x \in S : f[x] <= SumOver(f, S)
<1> DEFINE Good == {s \in SUBSET S : SumOver(f, s) \in Nat}
<1>1. \A s \in SUBSET S : IsFiniteSet(s)
  BY FS_Subset
<1>2. {} \in Good
  BY SumEmpty
<1>3. ASSUME NEW s \in SUBSET S, NEW x \in S, s \in Good, x \notin s PROVE s \cup {x} \in Good
  <2>1. IsFiniteSet(s) /\ \A y \in s \cup {x} : f[y] \in Int
    BY <1>1
  <2>2. SumOver(f, s \cup {x}) = f[x] + SumOver(f, s)
    BY <1>3, <2>1, SumAdd
  <2>3. QED
    BY <1>3, <2>2
<1>4. \A s \in SUBSET S : s \in Good
  <2> HIDE DEF Good
  <2> SUFFICES ASSUME NEW s \in SUBSET S PROVE s \in Good
    OBVIOUS
  <2>1. \A t \in SUBSET s, x \in s : t \in Good /\ x \notin t => t \cup {x} \in Good
    BY <1>3
  <2>2. QED
    BY <1>1, <1>2, <2>1, SetInduction
<1>5. ASSUME NEW x \in S PROVE f[x] <= SumOver(f, S)
  <2>1. SumOver(f, S) = f[x] + SumOver(f, S \ {x})
    BY SumSplit
  <2>2. SumOver(f, S \ {x}) \in Nat
    BY <1>4
  <2>3. QED
    BY <2>1, <2>2
<1>6. QED
  BY <1>4, <1>5

LEMMA SumZero ==
    ASSUME NEW S, IsFiniteSet(S), NEW f, \A x \in S : f[x] = 0
    PROVE  SumOver(f, S) = 0
<1> DEFINE Good == {s \in SUBSET S : SumOver(f, s) = 0}
<1>1. {} \in Good
  BY SumEmpty
<1>2. ASSUME NEW s \in SUBSET S, NEW x \in S, s \in Good, x \notin s PROVE s \cup {x} \in Good
  <2>1. IsFiniteSet(s) /\ \A y \in s \cup {x} : f[y] \in Int
    BY FS_Subset
  <2>2. SumOver(f, s \cup {x}) = f[x] + SumOver(f, s)
    BY <1>2, <2>1, SumAdd
  <2>3. QED
    BY <1>2, <2>2
<1>3. S \in Good
  <2> HIDE DEF Good
  <2>1. QED
    BY <1>1, <1>2, SetInduction
<1>4. QED
  BY <1>3

\* Sums over two sets.
LEMMA SumUnion ==
    ASSUME NEW S, IsFiniteSet(S), NEW T, IsFiniteSet(T), S \cap T = {}, NEW f,
           \A x \in S \cup T : f[x] \in Int
    PROVE  SumOver(f, S \cup T) = SumOver(f, S) + SumOver(f, T)
<1> DEFINE Good == {t \in SUBSET T : SumOver(f, S \cup t) = SumOver(f, S) + SumOver(f, t)}
<1>1. SumOver(f, S) \in Int
  BY SumInt
<1>2. {} \in Good
  <2>1. S \cup {} = S /\ SumOver(f, {}) = 0
    BY SumEmpty
  <2>2. QED
    BY <1>1, <2>1
<1>3. ASSUME NEW t \in SUBSET T, NEW x \in T, t \in Good, x \notin t PROVE t \cup {x} \in Good
  <2> DEFINE u == S \cup t
  <2>1. IsFiniteSet(t) /\ IsFiniteSet(u)
    BY FS_Subset, FS_Union
  <2>2. x \notin u /\ S \cup (t \cup {x}) = u \cup {x}
    BY <1>3
  <2>3. \A y \in u \cup {x} : f[y] \in Int
    OBVIOUS
  <2>4. SumOver(f, t \cup {x}) = f[x] + SumOver(f, t)
    BY <1>3, <2>1, SumAdd
  <2>5. SumOver(f, u) = SumOver(f, S) + SumOver(f, t)
    BY <1>3
  <2>6. SumOver(f, t) \in Int /\ f[x] \in Int
    BY <2>1, SumInt
  <2> HIDE DEF u
  <2>7. SumOver(f, u \cup {x}) = f[x] + SumOver(f, u)
    BY <2>1, <2>2, <2>3, SumAdd
  <2>8. SumOver(f, u \cup {x}) = SumOver(f, S) + SumOver(f, t \cup {x})
    BY <1>1, <2>4, <2>5, <2>6, <2>7
  <2>9. QED
    BY <2>2, <2>8
<1>4. T \in Good
  <2> HIDE DEF Good
  <2>1. QED
    BY <1>2, <1>3, SetInduction
<1>5. QED
  BY <1>4

LEMMA SumMonotone ==
    ASSUME NEW T, IsFiniteSet(T), NEW S \in SUBSET T, NEW f, \A x \in T : f[x] \in Nat
    PROVE  SumOver(f, S) \in Nat /\ SumOver(f, T) \in Nat /\ SumOver(f, S) <= SumOver(f, T)
<1> DEFINE U == T \ S
<1>1. IsFiniteSet(S) /\ IsFiniteSet(U)
  BY FS_Subset
<1>2. SumOver(f, S) \in Nat /\ SumOver(f, U) \in Nat /\ SumOver(f, T) \in Nat
  BY <1>1, SumNat
<1>3. S \cap U = {} /\ S \cup U = T /\ \A x \in S \cup U : f[x] \in Int
  OBVIOUS
<1> HIDE DEF U
<1>4. SumOver(f, S \cup U) = SumOver(f, S) + SumOver(f, U)
  BY <1>1, <1>3, SumUnion
<1>5. SumOver(f, T) = SumOver(f, S) + SumOver(f, U)
  BY <1>3, <1>4
<1>6. QED
  BY <1>2, <1>5

LEMMA SumSubadditive ==
    ASSUME NEW S, IsFiniteSet(S), NEW T, IsFiniteSet(T), NEW f, \A x \in S \cup T : f[x] \in Nat
    PROVE  SumOver(f, S \cup T) <= SumOver(f, S) + SumOver(f, T)
<1> DEFINE U == T \ S
<1>1. IsFiniteSet(U) /\ U \in SUBSET T
  BY FS_Subset
<1>2. S \cap U = {} /\ S \cup U = S \cup T /\ \A x \in S \cup U : f[x] \in Int
  OBVIOUS
<1>3. \A x \in T : f[x] \in Nat
  OBVIOUS
<1> HIDE DEF U
<1>4. SumOver(f, S \cup U) = SumOver(f, S) + SumOver(f, U)
  BY <1>1, <1>2, SumUnion
<1>5. SumOver(f, U) \in Nat /\ SumOver(f, T) \in Nat /\ SumOver(f, U) <= SumOver(f, T)
  BY <1>1, <1>3, SumMonotone
<1>6. SumOver(f, S) \in Nat
  BY SumNat
<1>7. SumOver(f, S \cup T) = SumOver(f, S) + SumOver(f, U)
  BY <1>2, <1>4
<1>8. QED
  BY <1>5, <1>6, <1>7

\* The sum over a set that is cut into disjoint parts is the sum of the sums.
LEMMA SumParts ==
    ASSUME NEW D, IsFiniteSet(D), NEW P, \A d \in D : IsFiniteSet(P[d]),
           \A d, e \in D : d # e => P[d] \cap P[e] = {},
           NEW f, \A d \in D : \A x \in P[d] : f[x] \in Int,
           NEW g, \A d \in D : g[d] = SumOver(f, P[d]),
           NEW Whole, Whole = UNION {P[d] : d \in D}
    PROVE  IsFiniteSet(Whole) /\ SumOver(f, Whole) = SumOver(g, D)
<1> DEFINE U(s) == UNION {P[d] : d \in s}
           Good == {s \in SUBSET D : IsFiniteSet(U(s)) /\ SumOver(f, U(s)) = SumOver(g, s)}
<1>1. \A s \in SUBSET D : IsFiniteSet(s)
  BY FS_Subset
<1>2. {} \in Good
  <2>1. U({}) = {}
    OBVIOUS
  <2>2. QED
    BY <2>1, SumEmpty, FS_EmptySet
<1>3. ASSUME NEW s \in SUBSET D, NEW x \in D, s \in Good, x \notin s PROVE s \cup {x} \in Good
  <2>1. U(s \cup {x}) = U(s) \cup P[x] /\ U(s) \cap P[x] = {}
    BY <1>3
  <2>2. IsFiniteSet(U(s)) /\ IsFiniteSet(P[x]) /\ IsFiniteSet(U(s) \cup P[x])
    BY <1>3, FS_Union
  <2>3. \A y \in U(s) \cup P[x] : f[y] \in Int
    BY <1>3
  <2>4. SumOver(f, U(s) \cup P[x]) = SumOver(f, U(s)) + SumOver(f, P[x])
    <3> HIDE DEF U
    <3>1. QED
      BY <2>1, <2>2, <2>3, SumUnion
  <2>5. \A d \in s \cup {x} : g[d] \in Int
    <3>1. SUFFICES ASSUME NEW d \in D PROVE g[d] \in Int
      BY <1>3
    <3>2. IsFiniteSet(P[d]) /\ \A y \in P[d] : f[y] \in Int
      OBVIOUS
    <3>3. SumOver(f, P[d]) \in Int
      BY <3>2, SumInt
    <3>4. QED
      BY <3>3
  <2>6. SumOver(g, s \cup {x}) = g[x] + SumOver(g, s)
    BY <1>1, <1>3, <2>5, SumAdd
  <2>7. SumOver(g, s) \in Int /\ g[x] \in Int
    BY <1>1, <1>3, <2>5, SumInt
  <2>8. SumOver(f, U(s)) = SumOver(g, s) /\ SumOver(f, P[x]) = g[x]
    BY <1>3
  <2>9. SumOver(f, U(s \cup {x})) = SumOver(g, s \cup {x})
    <3>1. SumOver(f, U(s \cup {x})) = SumOver(f, U(s) \cup P[x])
      BY <2>1
    <3> DEFINE whole == SumOver(f, U(s) \cup P[x])
               old == SumOver(f, U(s))
               part == SumOver(f, P[x])
               sum == SumOver(g, s)
    <3>2. whole = sum + g[x]
      <4>1. /\ whole = old + part /\ old = sum /\ part = g[x] /\ sum \in Int /\ g[x] \in Int
        BY <2>4, <2>7, <2>8
      <4> HIDE DEF whole, old, part, sum
      <4>2. QED
        BY <4>1
    <3>3. g[x] + sum = sum + g[x]
      <4> HIDE DEF sum
      <4>1. QED
        BY <2>7 DEF sum
    <3>4. QED
      BY <2>6, <3>1, <3>2, <3>3
  <2>10. QED
    BY <1>3, <2>1, <2>2, <2>9
<1>4. D \in Good
  <2> HIDE DEF Good
  <2>1. QED
    BY <1>2, <1>3, SetInduction
<1>5. QED
  BY <1>4

\* The sum over a set covered by parts is at most the sum of what bounds each.
LEMMA SumCover ==
    ASSUME NEW D, IsFiniteSet(D), NEW P, \A d \in D : IsFiniteSet(P[d]),
           NEW f, \A d \in D : \A x \in P[d] : f[x] \in Nat,
           NEW g, \A d \in D : g[d] \in Nat /\ SumOver(f, P[d]) <= g[d],
           NEW Whole, Whole = UNION {P[d] : d \in D}
    PROVE  IsFiniteSet(Whole) /\ SumOver(f, Whole) <= SumOver(g, D)
<1> DEFINE U(s) == UNION {P[d] : d \in s}
           Good == {s \in SUBSET D : IsFiniteSet(U(s)) /\ SumOver(f, U(s)) <= SumOver(g, s)}
<1>1. \A s \in SUBSET D : IsFiniteSet(s)
  BY FS_Subset
<1>2. {} \in Good
  <2>1. U({}) = {}
    OBVIOUS
  <2>2. QED
    BY <2>1, SumEmpty, FS_EmptySet
<1>3. ASSUME NEW s \in SUBSET D, NEW x \in D, s \in Good, x \notin s PROVE s \cup {x} \in Good
  <2>1. U(s \cup {x}) = U(s) \cup P[x]
    BY <1>3
  <2>2. IsFiniteSet(U(s)) /\ IsFiniteSet(P[x]) /\ IsFiniteSet(U(s) \cup P[x])
    BY <1>3, FS_Union
  <2>3. \A y \in U(s) \cup P[x] : f[y] \in Nat
    BY <1>3
  <2>4. /\ SumOver(f, U(s) \cup P[x]) <= SumOver(f, U(s)) + SumOver(f, P[x])
        /\ SumOver(f, U(s) \cup P[x]) \in Nat /\ SumOver(f, U(s)) \in Nat /\ SumOver(f, P[x]) \in Nat
    <3> HIDE DEF U
    <3>1. SumOver(f, U(s) \cup P[x]) <= SumOver(f, U(s)) + SumOver(f, P[x])
      BY <2>2, <2>3, SumSubadditive
    <3>2. (\A y \in U(s) : f[y] \in Nat) /\ (\A y \in P[x] : f[y] \in Nat)
      BY <2>3
    <3>3. QED
      BY <2>2, <2>3, <3>1, <3>2, SumNat
  <2>5. \A d \in s \cup {x} : g[d] \in Int /\ g[d] \in Nat
    BY <1>3
  <2>6. SumOver(g, s \cup {x}) = g[x] + SumOver(g, s)
    BY <1>1, <1>3, <2>5, SumAdd
  <2>7. SumOver(g, s) \in Int /\ g[x] \in Int
    BY <1>1, <1>3, <2>5, SumInt
  <2>8. SumOver(f, U(s)) <= SumOver(g, s) /\ SumOver(f, P[x]) <= g[x]
    BY <1>3
  <2>9. SumOver(f, U(s \cup {x})) <= SumOver(g, s \cup {x})
    <3>1. SumOver(f, U(s \cup {x})) = SumOver(f, U(s) \cup P[x])
      BY <2>1
    <3> DEFINE whole == SumOver(f, U(s) \cup P[x])
               old == SumOver(f, U(s))
               part == SumOver(f, P[x])
               sum == SumOver(g, s)
    <3>2. whole <= sum + g[x]
      <4>1. /\ whole <= old + part /\ old <= sum /\ part <= g[x] /\ sum \in Int /\ g[x] \in Int
            /\ whole \in Int /\ old \in Int /\ part \in Int
        BY <2>4, <2>7, <2>8
      <4> HIDE DEF whole, old, part, sum
      <4>2. QED
        BY <4>1
    <3>3. g[x] + sum = sum + g[x]
      <4> HIDE DEF sum
      <4>1. QED
        BY <2>7 DEF sum
    <3>4. QED
      BY <2>6, <3>1, <3>2, <3>3
  <2>10. QED
    BY <1>3, <2>1, <2>2, <2>9
<1>4. D \in Good
  <2> HIDE DEF Good
  <2>1. QED
    BY <1>2, <1>3, SetInduction
<1>5. QED
  BY <1>4

\* A sum does not depend on what its terms are called.
LEMMA SumRenamed ==
    ASSUME NEW E, IsFiniteSet(E), NEW e, \A p, q \in E : p # q => e[p] # e[q], NEW f, NEW F,
           \A p \in E : f[p] \in Int /\ F[e[p]] = f[p],
           NEW Whole, Whole = {e[p] : p \in E}
    PROVE  IsFiniteSet(Whole) /\ SumOver(F, Whole) = SumOver(f, E)
<1> DEFINE U(s) == {e[p] : p \in s}
           Good == {s \in SUBSET E : IsFiniteSet(U(s)) /\ SumOver(F, U(s)) = SumOver(f, s)}
<1>1. \A s \in SUBSET E : IsFiniteSet(s)
  BY FS_Subset
<1>2. {} \in Good
  <2>1. U({}) = {}
    OBVIOUS
  <2>2. QED
    BY <2>1, SumEmpty, FS_EmptySet
<1>3. ASSUME NEW s \in SUBSET E, NEW x \in E, s \in Good, x \notin s PROVE s \cup {x} \in Good
  <2>1. U(s \cup {x}) = U(s) \cup {e[x]} /\ e[x] \notin U(s)
    BY <1>3
  <2>2. IsFiniteSet(U(s)) /\ IsFiniteSet(U(s) \cup {e[x]})
    BY <1>3, FS_AddElement
  <2>3. \A y \in U(s) \cup {e[x]} : F[y] \in Int
    BY <1>3
  <2>4. SumOver(F, U(s) \cup {e[x]}) = F[e[x]] + SumOver(F, U(s))
    <3> HIDE DEF U
    <3>1. QED
      BY <2>1, <2>2, <2>3, SumAdd
  <2>5. \A y \in s \cup {x} : f[y] \in Int
    BY <1>3
  <2>6. SumOver(f, s \cup {x}) = f[x] + SumOver(f, s)
    BY <1>1, <1>3, <2>5, SumAdd
  <2>7. SumOver(F, U(s \cup {x})) = SumOver(f, s \cup {x})
    BY <1>3, <2>1, <2>4, <2>6
  <2>8. QED
    BY <1>3, <2>1, <2>2, <2>7
<1>4. E \in Good
  <2> HIDE DEF Good
  <2>1. QED
    BY <1>2, <1>3, SetInduction
<1>5. QED
  BY <1>4

\* Sums of sums, of what is smaller everywhere, and of what is zero outside a part.
LEMMA SumPlus ==
    ASSUME NEW S, IsFiniteSet(S), NEW f, NEW g, NEW h,
           \A x \in S : f[x] \in Int /\ g[x] \in Int /\ h[x] = f[x] + g[x]
    PROVE  SumOver(h, S) = SumOver(f, S) + SumOver(g, S)
<1> DEFINE Good == {s \in SUBSET S : SumOver(h, s) = SumOver(f, s) + SumOver(g, s)}
<1>1. {} \in Good
  BY SumEmpty
<1>2. ASSUME NEW s \in SUBSET S, NEW x \in S, s \in Good, x \notin s PROVE s \cup {x} \in Good
  <2>1. IsFiniteSet(s) /\ \A y \in s \cup {x} : f[y] \in Int /\ g[y] \in Int /\ h[y] \in Int
    BY FS_Subset
  <2>2. /\ SumOver(f, s \cup {x}) = f[x] + SumOver(f, s)
        /\ SumOver(g, s \cup {x}) = g[x] + SumOver(g, s)
        /\ SumOver(h, s \cup {x}) = h[x] + SumOver(h, s)
    BY <1>2, <2>1, SumAdd
  <2>3. SumOver(f, s) \in Int /\ SumOver(g, s) \in Int
    BY <2>1, SumInt
  <2>4. SumOver(h, s) = SumOver(f, s) + SumOver(g, s) /\ h[x] = f[x] + g[x]
    BY <1>2
  <2>5. SumOver(h, s \cup {x}) = SumOver(f, s \cup {x}) + SumOver(g, s \cup {x})
    BY <2>1, <2>2, <2>3, <2>4
  <2>6. QED
    BY <2>5
<1>3. S \in Good
  <2> HIDE DEF Good
  <2>1. QED
    BY <1>1, <1>2, SetInduction
<1>4. QED
  BY <1>3

LEMMA SumLeq ==
    ASSUME NEW S, IsFiniteSet(S), NEW f, NEW g,
           \A x \in S : f[x] \in Int /\ g[x] \in Int /\ f[x] <= g[x]
    PROVE  SumOver(f, S) <= SumOver(g, S)
<1> DEFINE d == [x \in S |-> g[x] - f[x]]
<1>1. \A x \in S : d[x] \in Nat /\ f[x] \in Int /\ d[x] \in Int /\ g[x] = f[x] + d[x]
  OBVIOUS
<1> HIDE DEF d
<1>2. SumOver(g, S) = SumOver(f, S) + SumOver(d, S)
  BY <1>1, SumPlus
<1>3. SumOver(d, S) \in Nat /\ SumOver(f, S) \in Int
  BY <1>1, SumNat, SumInt
<1>4. QED
  BY <1>2, <1>3

LEMMA SumOutside ==
    ASSUME NEW T, IsFiniteSet(T), NEW S \in SUBSET T, NEW f,
           \A x \in T : f[x] \in Int, \A x \in T \ S : f[x] = 0
    PROVE  SumOver(f, T) = SumOver(f, S)
<1> DEFINE U == T \ S
<1>1. IsFiniteSet(S) /\ IsFiniteSet(U)
  BY FS_Subset
<1>2. S \cap U = {} /\ S \cup U = T /\ \A x \in S \cup U : f[x] \in Int
  OBVIOUS
<1>3. SumOver(f, U) = 0
  BY <1>1, SumZero
<1>4. SumOver(f, S) \in Int
  BY <1>1, <1>2, SumInt
<1> HIDE DEF U
<1>5. SumOver(f, S \cup U) = SumOver(f, S) + SumOver(f, U)
  BY <1>1, <1>2, SumUnion
<1>6. SumOver(f, S \cup U) = SumOver(f, S)
  BY <1>3, <1>4, <1>5
<1>7. QED
  BY <1>2, <1>6, Zenon

===============================================================================
