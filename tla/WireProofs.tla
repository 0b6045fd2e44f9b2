------------------------------ MODULE WireProofs ------------------------------
(***************************************************************************)
(* Proofs about the codec and what it carries.                             *)
(***************************************************************************)
EXTENDS Wire, DataInduction, SequenceTheorems

(***************************************************************************)
(* Buffers.  b holds the units u at an offset, or ends within them.        *)
(***************************************************************************)
Buffers == Seq(Nat)
Offsets == Nat \ {0}

HoldsAt(b, at, u) ==
    at - 1 + Len(u) <= Len(b) /\ \A i \in 1 .. Len(u) : b[at - 1 + i] = u[i]
CutAt(b, at, u) ==
    /\ at <= Len(b) + 1 /\ Len(b) < at - 1 + Len(u)
    /\ \A i \in 1 .. Len(u) : at - 1 + i <= Len(b) => b[at - 1 + i] = u[i]

LEMMA HoldsConcat ==
    ASSUME NEW b \in Buffers, NEW at \in Offsets, NEW u \in Buffers, NEW w \in Buffers
    PROVE  HoldsAt(b, at, u \o w) <=> HoldsAt(b, at, u) /\ HoldsAt(b, at + Len(u), w)
<1>1. HoldsAt(b, at, u \o w) => HoldsAt(b, at, u)
  BY DEF HoldsAt, Buffers, Offsets
<1>2. HoldsAt(b, at, u \o w) => HoldsAt(b, at + Len(u), w)
  <2> SUFFICES ASSUME HoldsAt(b, at, u \o w) PROVE HoldsAt(b, at + Len(u), w)
    OBVIOUS
  <2>1. \A i \in 1 .. Len(w) : b[(at + Len(u)) - 1 + i] = w[i]
    <3> TAKE i \in 1 .. Len(w)
    <3>1. Len(u) + i \in 1 .. Len(u \o w) /\ (u \o w)[Len(u) + i] = w[i]
      BY DEF Buffers
    <3>2. b[at - 1 + (Len(u) + i)] = w[i]
      BY <3>1 DEF HoldsAt
    <3>3. at - 1 + (Len(u) + i) = (at + Len(u)) - 1 + i
      BY DEF Buffers, Offsets
    <3>4. QED
      BY <3>2, <3>3
  <2>2. QED
    BY <2>1 DEF HoldsAt, Buffers, Offsets
<1>3. HoldsAt(b, at, u) /\ HoldsAt(b, at + Len(u), w) => HoldsAt(b, at, u \o w)
  <2> SUFFICES ASSUME HoldsAt(b, at, u), HoldsAt(b, at + Len(u), w) PROVE HoldsAt(b, at, u \o w)
    OBVIOUS
  <2>0. \A k \in 1 .. Len(w) : b[(at + Len(u)) - 1 + k] = w[k]
    BY DEF HoldsAt
  <2>1. ASSUME NEW i \in 1 .. Len(u \o w) PROVE b[at - 1 + i] = (u \o w)[i]
    <3>1. CASE i <= Len(u)
      BY <3>1 DEF HoldsAt, Buffers, Offsets
    <3>2. CASE i > Len(u)
      <4> DEFINE j == i - Len(u)
      <4>1. j \in 1 .. Len(w) /\ (u \o w)[i] = w[j]
        BY <3>2 DEF Buffers
      <4>3. (at + Len(u)) - 1 + j = at - 1 + i
        BY DEF Buffers, Offsets
      <4> HIDE DEF j
      <4>2. b[(at + Len(u)) - 1 + j] = w[j]
        BY <2>0, <4>1
      <4>5. QED
        BY <4>1, <4>2, <4>3
    <3>3. QED
      BY <3>1, <3>2 DEF Buffers
  <2>2. QED
    BY <2>1 DEF HoldsAt, Buffers, Offsets
<1>4. QED
  BY <1>1, <1>2, <1>3

LEMMA CutConcat ==
    ASSUME NEW b \in Buffers, NEW at \in Offsets, NEW u \in Buffers, NEW w \in Buffers,
           CutAt(b, at, u \o w)
    PROVE  CutAt(b, at, u) \/ (HoldsAt(b, at, u) /\ CutAt(b, at + Len(u), w))
<1>1. \A i \in 1 .. Len(u) : at - 1 + i <= Len(b) => b[at - 1 + i] = u[i]
  <2> TAKE i \in 1 .. Len(u)
  <2>1. i \in 1 .. Len(u \o w) /\ (u \o w)[i] = u[i]
    BY DEF Buffers
  <2>2. QED
    BY <2>1 DEF CutAt
<1>2. CASE Len(b) < at - 1 + Len(u)
  BY <1>1, <1>2 DEF CutAt, Buffers, Offsets
<1>3. CASE ~(Len(b) < at - 1 + Len(u))
  <2>1. HoldsAt(b, at, u)
    BY <1>1, <1>3 DEF HoldsAt, Buffers, Offsets
  <2>2. \A i \in 1 .. Len(w) : (at + Len(u)) - 1 + i <= Len(b) => b[(at + Len(u)) - 1 + i] = w[i]
    <3> TAKE i \in 1 .. Len(w)
    <3>1. Len(u) + i \in 1 .. Len(u \o w) /\ (u \o w)[Len(u) + i] = w[i]
      BY DEF Buffers
    <3>2. at - 1 + (Len(u) + i) <= Len(b) => b[at - 1 + (Len(u) + i)] = w[i]
      BY <3>1 DEF CutAt
    <3>3. at - 1 + (Len(u) + i) = (at + Len(u)) - 1 + i
      BY DEF Buffers, Offsets
    <3>4. QED
      BY <3>2, <3>3
  <2>3. CutAt(b, at + Len(u), w)
    <3>1. Len(u \o w) = Len(u) + Len(w) /\ Len(u) \in Nat /\ Len(w) \in Nat /\ Len(b) \in Nat
      BY DEF Buffers
    <3>2. Len(b) < at - 1 + Len(u \o w)
      BY DEF CutAt
    <3>3. QED
      BY <1>3, <2>2, <3>1, <3>2 DEF CutAt, Buffers, Offsets
  <2>4. QED
    BY <2>1, <2>3
<1>4. QED
  BY <1>2, <1>3


(***************************************************************************)
(* Sequences of pieces.  The recursive functions of the model satisfy the  *)
(* equations they are defined by.                                          *)
(***************************************************************************)
FlattenStep(s, g, i) == IF i = 1 THEN s[i] ELSE g[i - 1] \o s[i]
FlattenTable(s) == CHOOSE g : g = [i \in 1 .. Len(s) |-> FlattenStep(s, g, i)]

LEMMA FlattenTableDefined ==
    ASSUME NEW s, Len(s) \in Nat
    PROVE  \A i \in 1 .. Len(s) : FlattenTable(s)[i] = FlattenStep(s, FlattenTable(s), i)
<1> DEFINE Fcn(g, n) == [i \in 1 .. n |-> FlattenStep(s, g, i)]
           Good == {n \in Nat : \E g : g = Fcn(g, n)}
<1>1. 0 \in Good
  <2> DEFINE g == [i \in 1 .. 0 |-> 0]
  <2>1. g = Fcn(g, 0)
    OBVIOUS
  <2> HIDE DEF g
  <2>2. QED
    BY <2>1
<1>2. ASSUME NEW n \in Nat, n \in Good PROVE n + 1 \in Good
  <2>1. PICK g : g = Fcn(g, n)
    BY <1>2
  <2> DEFINE h == [i \in 1 .. n + 1 |-> IF i \in 1 .. n THEN g[i] ELSE FlattenStep(s, g, i)]
  <2>2. \A i \in 1 .. n : h[i] = g[i] /\ g[i] = FlattenStep(s, g, i)
    BY <2>1
  <2>3. \A i \in 1 .. n + 1 : h[i] = FlattenStep(s, g, i)
    BY <2>2
  <2>4. h = [i \in 1 .. n + 1 |-> h[i]]
    OBVIOUS
  <2> HIDE DEF h
  <2>5. \A i \in 1 .. n + 1 : FlattenStep(s, g, i) = FlattenStep(s, h, i)
    <3> TAKE i \in 1 .. n + 1
    <3>1. i # 1 => i - 1 \in 1 .. n
      OBVIOUS
    <3>2. QED
      BY <2>2, <3>1 DEF FlattenStep
  <2>6. h = Fcn(h, n + 1)
    BY <2>3, <2>4, <2>5
  <2>7. QED
    BY <2>6
<1>3. Nat \subseteq Good
  BY <1>1, <1>2, NatSetInduction
<1>4. \E g : g = Fcn(g, Len(s))
  BY <1>3
<1> DEFINE t == FlattenTable(s)
<1>5. t = Fcn(t, Len(s))
  BY <1>4 DEF FlattenTable
<1> HIDE DEF t
<1>6. \A i \in 1 .. Len(s) : t[i] = FlattenStep(s, t, i)
  BY <1>5
<1>7. QED
  BY <1>6 DEF t

\* p[i] is what the first i pieces make.
Pieces(s, p) ==
    /\ p \in [0 .. Len(s) -> Buffers]
    /\ p[0] = << >>
    /\ \A i \in 1 .. Len(s) : p[i] = p[i - 1] \o s[i]

LEMMA FlattenPieces ==
    ASSUME NEW s \in Seq(Buffers)
    PROVE  FlattenSeq(s) \in Buffers /\ \E p : Pieces(s, p) /\ p[Len(s)] = FlattenSeq(s)
<1> DEFINE t == FlattenTable(s)
           p == [i \in 0 .. Len(s) |-> IF i = 0 THEN << >> ELSE t[i]]
<1>1. Len(s) \in Nat /\ \A i \in 1 .. Len(s) : s[i] \in Buffers
  OBVIOUS
<1>2. \A i \in 1 .. Len(s) : t[i] = FlattenStep(s, t, i)
  BY <1>1, FlattenTableDefined
<1>3. Len(s) # 0 => FlattenSeq(s) = t[Len(s)]
  BY DEF FlattenSeq, FlattenTable, FlattenStep
<1>4. Len(s) = 0 => FlattenSeq(s) = << >>
  BY DEF FlattenSeq
<1> HIDE DEF t
<1>5. p[0] = << >> /\ p[Len(s)] = FlattenSeq(s)
  BY <1>1, <1>3, <1>4
<1>6. \A i \in 1 .. Len(s) : p[i] = t[i] /\ (i # 1 => p[i - 1] = t[i - 1])
  BY <1>1
<1> DEFINE Good == {i \in Nat : i <= Len(s) => p[i] \in Buffers /\
        (i # 0 => p[i] = p[i - 1] \o s[i])}
<1>7. 0 \in Good
  BY <1>5 DEF Buffers
<1> HIDE DEF p
<1>8. ASSUME NEW i \in Nat, i \in Good PROVE i + 1 \in Good
  <2>0. (i + 1) - 1 = i /\ i + 1 \in Nat /\ i + 1 # 0
    OBVIOUS
  <2> SUFFICES ASSUME i + 1 <= Len(s) PROVE p[i + 1] \in Buffers /\ p[i + 1] = p[i] \o s[i + 1]
    BY <2>0
  <2>1. i + 1 \in 1 .. Len(s) /\ p[i] \in Buffers /\ s[i + 1] \in Buffers
    <3>1. i + 1 \in 1 .. Len(s) /\ i <= Len(s)
      BY <1>1
    <3>2. p[i] \in Buffers
      BY <1>8, <3>1
    <3>3. QED
      BY <1>1, <3>1, <3>2
  <2>2. p[i + 1] = FlattenStep(s, t, i + 1)
    BY <1>2, <1>6, <2>1
  <2>3. CASE i = 0
    <3>1. p[i + 1] = s[i + 1]
      BY <2>2, <2>3 DEF FlattenStep
    <3>2. p[i] = << >>
      BY <1>5, <2>3
    <3>3. QED
      BY <2>1, <3>1, <3>2 DEF Buffers
  <2>4. CASE i # 0
    <3>1. p[(i + 1) - 1] = t[(i + 1) - 1] /\ (i + 1) - 1 = i
      BY <1>6, <2>1, <2>4
    <3>2. FlattenStep(s, t, i + 1) = t[(i + 1) - 1] \o s[i + 1]
      <4>1. i + 1 # 1
        BY <2>4
      <4>2. QED
        BY <4>1 DEF FlattenStep
    <3>4. p[i + 1] = p[i] \o s[i + 1]
      BY <2>2, <3>1, <3>2
    <3>3. QED
      BY <2>1, <3>4 DEF Buffers
  <2>5. QED
    BY <2>3, <2>4
<1>9. Nat \subseteq Good
  <2> HIDE DEF Good
  <2>1. QED
    BY <1>7, <1>8, NatSetInduction
<1>10. \A i \in 0 .. Len(s) : p[i] \in Buffers /\ (i # 0 => p[i] = p[i - 1] \o s[i])
  <2> TAKE i \in 0 .. Len(s)
  <2>1. i \in Nat /\ i <= Len(s)
    BY <1>1
  <2>2. i \in Good
    BY <1>9, <2>1
  <2>3. QED
    BY <2>1, <2>2
<1>11. Pieces(s, p)
  <2>1. p \in [0 .. Len(s) -> Buffers]
    BY <1>10 DEF p
  <2>2. QED
    BY <1>1, <1>5, <1>10, <2>1 DEF Pieces
<1>12. FlattenSeq(s) \in Buffers
  <2>1. Len(s) \in 0 .. Len(s)
    BY <1>1
  <2>2. QED
    BY <1>5, <1>10, <2>1
<1>13. QED
  BY <1>5, <1>11, <1>12

\* A buffer that holds all pieces holds each behind the ones before it; one that
\* ends within them holds some and ends within the next.
LEMMA HoldsPieces ==
    ASSUME NEW s \in Seq(Buffers), NEW p, Pieces(s, p), NEW b \in Buffers, NEW at \in Offsets
    PROVE  /\ HoldsAt(b, at, p[Len(s)]) =>
                \A i \in 1 .. Len(s) : HoldsAt(b, at + Len(p[i - 1]), s[i])
           /\ CutAt(b, at, p[Len(s)]) =>
                \E i \in 1 .. Len(s) :
                    /\ \A j \in 1 .. i - 1 : HoldsAt(b, at + Len(p[j - 1]), s[j])
                    /\ CutAt(b, at + Len(p[i - 1]), s[i])
<1> DEFINE Each(n) == \A i \in 1 .. n : HoldsAt(b, at + Len(p[i - 1]), s[i])
           Ends(n) == \E i \in 1 .. n : Each(i - 1) /\ CutAt(b, at + Len(p[i - 1]), s[i])
           Good == {n \in Nat : n <= Len(s) => /\ HoldsAt(b, at, p[n]) => Each(n)
                                               /\ CutAt(b, at, p[n]) => Ends(n)}
<1>1. Len(s) \in Nat /\ Len(b) \in Nat /\ \A i \in 1 .. Len(s) : s[i] \in Buffers
  BY DEF Buffers
<1>2. p[0] = << >> /\ \A i \in 0 .. Len(s) : p[i] \in Buffers
  BY DEF Pieces
<1>3. 0 \in Good
  <2>1. ~CutAt(b, at, << >>)
    BY <1>1 DEF CutAt, Offsets
  <2>2. QED
    BY <1>2, <2>1
<1>4. ASSUME NEW n \in Nat, n \in Good PROVE n + 1 \in Good
  <2> SUFFICES ASSUME n + 1 <= Len(s)
               PROVE  /\ HoldsAt(b, at, p[n + 1]) => Each(n + 1)
                      /\ CutAt(b, at, p[n + 1]) => Ends(n + 1)
    OBVIOUS
  <2>1. n + 1 \in 1 .. Len(s) /\ n \in 0 .. Len(s) /\ (n + 1) - 1 = n
    BY <1>1
  <2>2. p[n + 1] = p[n] \o s[n + 1]
    BY <2>1 DEF Pieces
  <2>3. p[n] \in Buffers /\ s[n + 1] \in Buffers
    BY <1>1, <1>2, <2>1
  <2>4. /\ HoldsAt(b, at, p[n]) => Each(n)
        /\ CutAt(b, at, p[n]) => Ends(n)
    BY <1>4, <2>1
  <2>5. ASSUME Each(n), HoldsAt(b, at + Len(p[n]), s[n + 1]) PROVE Each(n + 1)
    BY <2>1, <2>5
  <2>6. ASSUME Ends(n) PROVE Ends(n + 1)
    BY <2>6
  <2>7. ASSUME Each(n), CutAt(b, at + Len(p[n]), s[n + 1]) PROVE Ends(n + 1)
    <3>1. Each((n + 1) - 1) /\ CutAt(b, at + Len(p[(n + 1) - 1]), s[n + 1])
      BY <2>1, <2>7
    <3>2. n + 1 \in 1 .. n + 1
      OBVIOUS
    <3> HIDE DEF Each
    <3>3. QED
      BY <3>1, <3>2
  <2> HIDE DEF Each, Ends
  <2>8. HoldsAt(b, at, p[n + 1]) => Each(n + 1)
    BY <2>2, <2>3, <2>4, <2>5, HoldsConcat
  <2>9. CutAt(b, at, p[n + 1]) => Ends(n + 1)
    BY <2>2, <2>3, <2>4, <2>6, <2>7, CutConcat
  <2>10. QED
    BY <2>8, <2>9
<1>5. Nat \subseteq Good
  <2> HIDE DEF Good
  <2>1. QED
    BY <1>3, <1>4, NatSetInduction
<1>6. QED
  BY <1>1, <1>5


(***************************************************************************)
(* Reads.  A read at an offset where a buffer holds the units of a value   *)
(* finds that value and stops behind it, or it fails; where the buffer     *)
(* ends within the units it fails.                                         *)
(***************************************************************************)
Reads(r, b, at, u, v) ==
    /\ HoldsAt(b, at, u) => r \in {Got(v, at + Len(u)), Failed}
    /\ CutAt(b, at, u) => r = Failed

LEMMA Outcomes ==
    /\ ~Failed.ok
    /\ \A v, at : Got(v, at).ok /\ Got(v, at).value = v /\ Got(v, at).at = at
  BY DEF Failed, Got

LEMMA OneUnit == \A x \in Nat : <<x>> \in Buffers /\ Len(<<x>>) = 1 /\ <<x>>[1] = x
  BY DEF Buffers

LEMMA UnitReads ==
    ASSUME NEW x \in Nat, NEW b \in Buffers, NEW at \in Offsets
    PROVE  /\ HoldsAt(b, at, <<x>>) => Unit(b, at) = Got(x, at + 1)
           /\ CutAt(b, at, <<x>>) => Unit(b, at) = Failed
<1>1. Len(<<x>>) = 1 /\ <<x>>[1] = x
  BY OneUnit
<1>2. Len(b) \in Nat /\ at \in Nat
  BY DEF Buffers, Offsets
<1>3. ASSUME HoldsAt(b, at, <<x>>) PROVE Unit(b, at) = Got(x, at + 1)
  <2>1. at - 1 + 1 <= Len(b) /\ b[at - 1 + 1] = x
    BY <1>1, <1>3 DEF HoldsAt
  <2>2. at - 1 + 1 = at /\ ~(at > Len(b))
    BY <1>2, <2>1
  <2>3. QED
    BY <2>1, <2>2 DEF Unit
<1>4. ASSUME CutAt(b, at, <<x>>) PROVE Unit(b, at) = Failed
  <2>1. at > Len(b)
    BY <1>1, <1>2, <1>4 DEF CutAt
  <2>2. QED
    BY <2>1 DEF Unit
<1>5. QED
  BY <1>3, <1>4

LEMMA PrefixedUnits ==
    ASSUME NEW u \in Buffers
    PROVE  /\ Prefixed(u) = <<Len(u)>> \o u
           /\ Prefixed(u) \in Buffers /\ Len(Prefixed(u)) = Len(u) + 1 /\ Len(u) \in Nat
           /\ <<Len(u)>> \in Buffers /\ Len(<<Len(u)>>) = 1
<1>1. Len(u) \in Nat /\ <<Len(u)>> \in Buffers /\ Len(<<Len(u)>>) = 1
  BY OneUnit DEF Buffers
<1>2. Prefixed(u) = <<Len(u)>> \o u
  BY DEF Prefixed
<1>3. Prefixed(u) \in Buffers /\ Len(Prefixed(u)) = Len(u) + 1
  BY <1>1, <1>2 DEF Buffers
<1>4. QED
  BY <1>1, <1>2, <1>3

LEMMA HeldSubSeq ==
    ASSUME NEW b \in Buffers, NEW at \in Offsets, NEW u \in Buffers, HoldsAt(b, at + 1, u)
    PROVE  SubSeq(b, at + 1, at + Len(u)) = u
<1> DEFINE s == SubSeq(b, at + 1, at + Len(u))
<1>1. Len(b) \in Nat /\ Len(u) \in Nat /\ at \in Nat /\ at >= 1
  BY DEF Buffers, Offsets
<1>2. /\ (at + 1) - 1 + Len(u) <= Len(b)
      /\ \A i \in 1 .. Len(u) : b[(at + 1) - 1 + i] = u[i]
  BY DEF HoldsAt
<1>3. s \in Seq(Nat) /\ Len(s) = Len(u) /\ \A i \in 1 .. Len(u) : s[i] = b[at + i]
  <2>1. at + 1 \in 1 .. Len(b) + 1 /\ at + Len(u) \in at .. Len(b)
    BY <1>1, <1>2
  <2>2. s \in Seq(Nat)
    BY <1>1, <2>1 DEF Buffers
  <2>3. Len(s) = Len(u)
    BY <1>1, <2>1 DEF Buffers
  <2>4. \A i \in 1 .. Len(u) : s[i] = b[at + i]
    <3> TAKE i \in 1 .. Len(u)
    <3>1. (at + 1) + i - 1 = at + i /\ i \in 1 .. (at + Len(u)) - (at + 1) + 1
      BY <1>1
    <3>2. QED
      BY <1>1, <2>1, <3>1 DEF Buffers
  <2>5. QED
    BY <2>2, <2>3, <2>4
<1> HIDE DEF s
<1>4. \A i \in 1 .. Len(u) : s[i] = u[i]
  <2> TAKE i \in 1 .. Len(u)
  <2>1. (at + 1) - 1 + i = at + i
    BY <1>1
  <2>2. QED
    BY <1>2, <1>3, <2>1
<1>5. s = u
  BY <1>3, <1>4, SeqEqual DEF Buffers
<1>6. QED
  BY <1>5 DEF s

LEMMA RunReads ==
    ASSUME NEW u \in Buffers, NEW max \in Nat, NEW b \in Buffers, NEW at \in Offsets
    PROVE  /\ HoldsAt(b, at, Prefixed(u)) =>
                Run(b, at, max) = IF Len(u) > max THEN Failed ELSE Got(u, at + Len(Prefixed(u)))
           /\ CutAt(b, at, Prefixed(u)) => Run(b, at, max) = Failed
<1>1. /\ Prefixed(u) = <<Len(u)>> \o u /\ Len(Prefixed(u)) = Len(u) + 1 /\ Len(u) \in Nat
      /\ <<Len(u)>> \in Buffers /\ Len(<<Len(u)>>) = 1
  BY PrefixedUnits
<1>2. Len(b) \in Nat /\ at \in Nat /\ at >= 1
  BY DEF Buffers, Offsets
<1>3. Unit(b, at) = Failed => Run(b, at, max) = Failed
  BY Outcomes DEF Run, Then
<1>4. ASSUME Unit(b, at) = Got(Len(u), at + 1)
      PROVE  Run(b, at, max) =
                IF Len(u) > max \/ Len(u) > Len(b) - at THEN Failed
                ELSE Got(SubSeq(b, at + 1, at + Len(u)), (at + 1) + Len(u))
  BY <1>4, Outcomes DEF Run, Then
<1>5. ASSUME HoldsAt(b, at, Prefixed(u))
      PROVE  Run(b, at, max) = IF Len(u) > max THEN Failed ELSE Got(u, at + Len(Prefixed(u)))
  <2>1. HoldsAt(b, at, <<Len(u)>>) /\ HoldsAt(b, at + 1, u)
    BY <1>1, <1>5, HoldsConcat, ZenonT(60)
  <2>2. Unit(b, at) = Got(Len(u), at + 1)
    BY <1>1, <2>1, UnitReads
  <2>3. ~(Len(u) > Len(b) - at)
    BY <1>1, <1>2, <2>1 DEF HoldsAt
  <2>4. SubSeq(b, at + 1, at + Len(u)) = u
    BY <2>1, HeldSubSeq
  <2>5. (at + 1) + Len(u) = at + Len(Prefixed(u))
    BY <1>1, <1>2
  <2>6. QED
    BY <1>4, <2>2, <2>3, <2>4, <2>5
<1>6. ASSUME CutAt(b, at, Prefixed(u)) PROVE Run(b, at, max) = Failed
  <2>1. CASE CutAt(b, at, <<Len(u)>>)
    BY <1>1, <1>3, <2>1, UnitReads
  <2>2. CASE HoldsAt(b, at, <<Len(u)>>) /\ CutAt(b, at + 1, u)
    <3>1. Unit(b, at) = Got(Len(u), at + 1)
      BY <1>1, <2>2, UnitReads
    <3>2. Len(u) > Len(b) - at
      BY <1>1, <1>2, <2>2 DEF CutAt
    <3>3. QED
      BY <1>4, <3>1, <3>2
  <2>3. QED
    BY <1>1, <1>6, <2>1, <2>2, CutConcat
<1>7. QED
  BY <1>5, <1>6

(***************************************************************************)
(* One read after the other                                                *)
(***************************************************************************)
EachStep(reads, at, g, n) ==
    IF n = 0 THEN Got(<< >>, at)
    ELSE Then(g[n - 1], LAMBDA values, i :
         Then(reads[n][i], LAMBDA v, next : Got(Append(values, v), next)))
EachTable(reads, at) == CHOOSE g : g = [n \in 0 .. Len(reads) |-> EachStep(reads, at, g, n)]

LEMMA EachTableDefined ==
    ASSUME NEW reads, NEW at, Len(reads) \in Nat
    PROVE  /\ GetEach(reads, at) = EachTable(reads, at)[Len(reads)]
           /\ \A n \in 0 .. Len(reads) :
                EachTable(reads, at)[n] = EachStep(reads, at, EachTable(reads, at), n)
<1> DEFINE Fcn(g, n) == [i \in 0 .. n |-> EachStep(reads, at, g, i)]
           Good == {n \in Nat : \E g : g = Fcn(g, n)}
<1>1. 0 \in Good
  <2> DEFINE g == [i \in 0 .. 0 |-> Got(<< >>, at)]
  <2>1. \A i \in 0 .. 0 : EachStep(reads, at, g, i) = Got(<< >>, at)
    BY DEF EachStep
  <2>2. g = Fcn(g, 0)
    BY <2>1
  <2> HIDE DEF g
  <2>3. QED
    BY <2>2
<1>2. ASSUME NEW n \in Nat, n \in Good PROVE n + 1 \in Good
  <2>1. PICK g : g = Fcn(g, n)
    BY <1>2
  <2> DEFINE h == [i \in 0 .. n + 1 |-> IF i \in 0 .. n THEN g[i] ELSE EachStep(reads, at, g, i)]
  <2>2. \A i \in 0 .. n : h[i] = g[i] /\ g[i] = EachStep(reads, at, g, i)
    BY <2>1
  <2>3. \A i \in 0 .. n + 1 : h[i] = EachStep(reads, at, g, i)
    BY <2>2
  <2>4. h = [i \in 0 .. n + 1 |-> h[i]]
    OBVIOUS
  <2> HIDE DEF h
  <2>5. \A i \in 0 .. n + 1 : EachStep(reads, at, g, i) = EachStep(reads, at, h, i)
    <3> TAKE i \in 0 .. n + 1
    <3>1. i # 0 => i - 1 \in 0 .. n
      OBVIOUS
    <3>2. i # 0 => g[i - 1] = h[i - 1]
      BY <2>2, <3>1
    <3>3. QED
      BY <3>2 DEF EachStep
  <2>6. h = Fcn(h, n + 1)
    BY <2>3, <2>4, <2>5
  <2>7. QED
    BY <2>6
<1>3. Nat \subseteq Good
  BY <1>1, <1>2, NatSetInduction
<1>4. \E g : g = Fcn(g, Len(reads))
  BY <1>3
<1> DEFINE t == EachTable(reads, at)
<1>5. t = Fcn(t, Len(reads))
  BY <1>4 DEF EachTable
<1>6. GetEach(reads, at) = t[Len(reads)]
  BY DEF GetEach, EachTable, EachStep
<1> HIDE DEF t
<1>7. \A n \in 0 .. Len(reads) : t[n] = EachStep(reads, at, t, n)
  BY <1>5
<1>8. QED
  BY <1>6, <1>7 DEF t

LEMMA EachStepOutcome ==
    ASSUME NEW reads, NEW at, NEW g, NEW n \in Nat
    PROVE  /\ g[n] = Failed => EachStep(reads, at, g, n + 1) = Failed
           /\ \A values, i : g[n] = Got(values, i) =>
                /\ reads[n + 1][i] = Failed => EachStep(reads, at, g, n + 1) = Failed
                /\ \A v, next : reads[n + 1][i] = Got(v, next) =>
                        EachStep(reads, at, g, n + 1) = Got(Append(values, v), next)
<1>1. n + 1 # 0 /\ (n + 1) - 1 = n
  OBVIOUS
<1>2. EachStep(reads, at, g, n + 1) =
        Then(g[n], LAMBDA values, i :
        Then(reads[n + 1][i], LAMBDA v, next : Got(Append(values, v), next)))
  BY <1>1 DEF EachStep
<1>3. QED
  BY <1>2, Outcomes DEF Then

LEMMA EachReads ==
    ASSUME NEW s \in Seq(Buffers), NEW T, NEW vals \in Seq(T), Len(vals) = Len(s),
           NEW reads, Len(reads) = Len(s), NEW b \in Buffers, NEW at \in Offsets,
           \A i \in 1 .. Len(s) : \A o \in Offsets : Reads(reads[i][o], b, o, s[i], vals[i])
    PROVE  Reads(GetEach(reads, at), b, at, FlattenSeq(s), vals)
<1> DEFINE t == EachTable(reads, at)
           front(k) == [i \in 1 .. k |-> vals[i]]
<1>1. PICK p : Pieces(s, p) /\ p[Len(s)] = FlattenSeq(s)
  BY FlattenPieces
<1>2. Len(s) \in Nat /\ \A i \in 1 .. Len(s) : s[i] \in Buffers /\ vals[i] \in T
  BY DEF Buffers
<1>3. p[0] = << >> /\ \A i \in 0 .. Len(s) : p[i] \in Buffers /\ Len(p[i]) \in Nat
  <2>1. p[0] = << >> /\ \A i \in 0 .. Len(s) : p[i] \in Buffers
    BY <1>1 DEF Pieces
  <2>2. \A u \in Buffers : Len(u) \in Nat
    BY DEF Buffers
  <2>3. QED
    BY <2>1, <2>2
<1>4. GetEach(reads, at) = t[Len(s)] /\ t[0] = Got(<< >>, at)
  <2>1. 0 \in 0 .. Len(s)
    BY <1>2
  <2>2. GetEach(reads, at) = t[Len(s)] /\ t[0] = EachStep(reads, at, t, 0)
    BY <1>2, <2>1, EachTableDefined
  <2>3. EachStep(reads, at, t, 0) = Got(<< >>, at)
    BY DEF EachStep
  <2>4. QED
    BY <2>2, <2>3
<1>5. ASSUME NEW k \in Nat, k + 1 <= Len(s)
      PROVE  /\ k + 1 \in 1 .. Len(s) /\ k \in 0 .. Len(s) /\ (k + 1) - 1 = k
             /\ t[k + 1] = EachStep(reads, at, t, k + 1)
             /\ p[k + 1] = p[k] \o s[k + 1] /\ p[k] \in Buffers /\ s[k + 1] \in Buffers
             /\ at + Len(p[k]) \in Offsets
             /\ (at + Len(p[k])) + Len(s[k + 1]) = at + Len(p[k + 1])
  <2>1. k + 1 \in 1 .. Len(s) /\ k \in 0 .. Len(s) /\ k + 1 \in 0 .. Len(s) /\ (k + 1) - 1 = k
    BY <1>2, <1>5
  <2>2. t[k + 1] = EachStep(reads, at, t, k + 1)
    BY <1>2, <2>1, EachTableDefined
  <2>3. p[k + 1] = p[k] \o s[k + 1] /\ p[k] \in Buffers /\ s[k + 1] \in Buffers
    BY <1>1, <1>2, <1>3, <2>1 DEF Pieces
  <2>4. Len(p[k + 1]) = Len(p[k]) + Len(s[k + 1]) /\ Len(p[k]) \in Nat /\ Len(s[k + 1]) \in Nat
    BY <2>3 DEF Buffers
  <2>5. at + Len(p[k]) \in Offsets /\ (at + Len(p[k])) + Len(s[k + 1]) = at + Len(p[k + 1])
    <3>1. \A x, y \in Nat : at + x \in Offsets /\ (at + x) + y = at + (x + y)
      BY DEF Offsets
    <3>2. at + Len(p[k]) \in Offsets
      BY <2>4, <3>1
    <3>3. (at + Len(p[k])) + Len(s[k + 1]) = at + (Len(p[k]) + Len(s[k + 1]))
      BY <2>4, <3>1
    <3>4. QED
      BY <2>4, <3>2, <3>3
  <2>6. QED
    BY <2>1, <2>2, <2>3, <2>5
<1> HIDE DEF t
<1>6. ASSUME NEW k \in Nat, k + 1 <= Len(s) PROVE Append(front(k), vals[k + 1]) = front(k + 1)
  <2>1. front(k) \in Seq(T) /\ vals[k + 1] \in T /\ Len(front(k)) = k
    BY <1>2, <1>6
  <2>2. front(k + 1) \in Seq(T) /\ Len(front(k + 1)) = k + 1
    BY <1>2, <1>6
  <2>3. Append(front(k), vals[k + 1]) \in Seq(T) /\ Len(Append(front(k), vals[k + 1])) = k + 1
    BY <2>1
  <2>4. \A i \in 1 .. k + 1 : Append(front(k), vals[k + 1])[i] = front(k + 1)[i]
    BY <2>1
  <2>5. QED
    BY <2>2, <2>3, <2>4, SeqEqual
<1>7. front(0) = << >> /\ front(Len(s)) = vals
  BY <1>2
<1> HIDE DEF front
<1> DEFINE Each(k) == \A i \in 1 .. k : HoldsAt(b, at + Len(p[i - 1]), s[i])
           Found(k) == t[k] \in {Got(front(k), at + Len(p[k])), Failed}
           Good == {k \in Nat : k <= Len(s) /\ Each(k) => Found(k)}
<1>8. 0 \in Good
  BY <1>3, <1>4, <1>7 DEF Offsets
<1>9. ASSUME NEW k \in Nat, k \in Good PROVE k + 1 \in Good
  <2> SUFFICES ASSUME k + 1 <= Len(s), Each(k + 1) PROVE Found(k + 1)
    OBVIOUS
  <2>1. k <= Len(s) /\ Each(k) /\ k + 1 \in 1 .. k + 1 /\ (k + 1) - 1 = k
    BY <1>2
  <2>2. Found(k) /\ HoldsAt(b, at + Len(p[k]), s[k + 1])
    BY <1>9, <2>1
  <2> DEFINE o == at + Len(p[k])
  <2>3. /\ o \in Offsets /\ t[k + 1] = EachStep(reads, at, t, k + 1) /\ k + 1 \in 1 .. Len(s)
        /\ o + Len(s[k + 1]) = at + Len(p[k + 1])
    BY <1>5
  <2>4. Append(front(k), vals[k + 1]) = front(k + 1)
    BY <1>6
  <2>5. reads[k + 1][o] \in {Got(vals[k + 1], at + Len(p[k + 1])), Failed}
    BY <2>2, <2>3 DEF Reads
  <2>6. CASE t[k] = Failed
    BY <2>3, <2>6, EachStepOutcome
  <2>7. CASE t[k] = Got(front(k), o)
    <3> HIDE DEF o
    <3>1. reads[k + 1][o] = Failed => t[k + 1] = Failed
      BY <2>3, <2>7, EachStepOutcome
    <3>2. reads[k + 1][o] = Got(vals[k + 1], at + Len(p[k + 1])) =>
            t[k + 1] = Got(front(k + 1), at + Len(p[k + 1]))
      <4>1. reads[k + 1][o] = Got(vals[k + 1], at + Len(p[k + 1])) =>
              EachStep(reads, at, t, k + 1) = Got(Append(front(k), vals[k + 1]), at + Len(p[k + 1]))
        BY <2>7, EachStepOutcome
      <4>2. QED
        BY <2>3, <2>4, <4>1
    <3>3. QED
      BY <2>5, <3>1, <3>2
  <2>8. QED
    BY <2>2, <2>6, <2>7
<1>10. Nat \subseteq Good
  <2> HIDE DEF Good
  <2>1. QED
    BY <1>8, <1>9, NatSetInduction
<1>11. ASSUME HoldsAt(b, at, FlattenSeq(s))
       PROVE  GetEach(reads, at) \in {Got(vals, at + Len(FlattenSeq(s))), Failed}
  <2>1. Each(Len(s))
    BY <1>1, <1>11, HoldsPieces
  <2>2. Found(Len(s))
    BY <1>2, <1>10, <2>1
  <2>3. QED
    BY <1>1, <1>4, <1>7, <2>2
<1>12. ASSUME CutAt(b, at, FlattenSeq(s)) PROVE GetEach(reads, at) = Failed
  <2>1. PICK m \in 1 .. Len(s) : Each(m - 1) /\ CutAt(b, at + Len(p[m - 1]), s[m])
    BY <1>1, <1>12, HoldsPieces
  <2> DEFINE k == m - 1
             Fails == {j \in Nat : m + j <= Len(s) => t[m + j] = Failed}
  <2>2. k \in Nat /\ k + 1 = m /\ k + 1 <= Len(s) /\ k <= Len(s)
    BY <1>2
  <2>3. Found(k) /\ CutAt(b, at + Len(p[k]), s[k + 1])
    BY <1>10, <2>1, <2>2
  <2> HIDE DEF k
  <2>4. /\ at + Len(p[k]) \in Offsets /\ t[k + 1] = EachStep(reads, at, t, k + 1)
        /\ k + 1 \in 1 .. Len(s)
    BY <1>5, <2>2
  <2>5. reads[k + 1][at + Len(p[k])] = Failed
    BY <2>3, <2>4 DEF Reads
  <2>6. t[m] = Failed
    BY <2>2, <2>3, <2>4, <2>5, EachStepOutcome
  <2>7. 0 \in Fails
    BY <2>6, <1>2
  <2>8. ASSUME NEW j \in Nat, j \in Fails PROVE j + 1 \in Fails
    <3> SUFFICES ASSUME m + (j + 1) <= Len(s) PROVE t[m + (j + 1)] = Failed
      OBVIOUS
    <3>1. m + (j + 1) = (m + j) + 1 /\ m + j \in Nat /\ (m + j) + 1 <= Len(s) /\ m + j <= Len(s)
      BY <1>2
    <3>2. t[m + j] = Failed
      BY <2>8, <3>1
    <3>3. t[(m + j) + 1] = EachStep(reads, at, t, (m + j) + 1)
      BY <1>5, <3>1
    <3>4. QED
      BY <3>1, <3>2, <3>3, EachStepOutcome
  <2>9. Nat \subseteq Fails
    <3> HIDE DEF Fails
    <3>1. QED
      BY <2>7, <2>8, NatSetInduction
  <2>10. Len(s) - m \in Nat /\ m + (Len(s) - m) = Len(s)
    BY <1>2
  <2>11. t[Len(s)] = Failed
    BY <1>2, <2>9, <2>10
  <2>12. QED
    BY <1>4, <2>11
<1>13. QED
  BY <1>11, <1>12 DEF Reads

(***************************************************************************)
(* Fields.  What a decoder reads is alike to what the encoder wrote when   *)
(* both give it one name and write it in one way, whatever else either     *)
(* knows or demands of it.                                                 *)
(***************************************************************************)
Nesting == {"part", "list", "blob", "optblob"}

Alike(f, g) ==
    /\ f.name = g.name
    /\ \/ f.kind \in Units /\ g.kind \in Units
       \/ f.kind \in Runs /\ g.kind \in Runs
       \/ f.kind = g.kind /\ f.kind \in {"flag", "ref"} \cup Nesting

\* What a demand leaves of a read.
Left(r) == IF r.ok THEN {r, Failed} ELSE {Failed}

LEMMA LeftReads ==
    ASSUME NEW q, NEW r \in Left(q), NEW b, NEW at, NEW u, NEW v, Reads(q, b, at, u, v)
    PROVE  Reads(r, b, at, u, v)
  BY Outcomes DEF Left, Reads

LEMMA UnitField ==
    ASSUME NEW f, NEW g, f.kind \in Units, g.kind \in Units, NEW v \in Nat, NEW put, NEW get,
           NEW b \in Buffers, NEW at \in Offsets
    PROVE  Put(f, v, put) = <<v>> /\ Reads(Get(g, b, at, get), b, at, <<v>>, v)
<1>1. Put(f, v, put) = <<v>>
  BY DEF Put, Units, Runs
<1>2. Unit(b, at).ok \/ Unit(b, at) = Failed
  BY Outcomes DEF Unit
<1>3. Get(g, b, at, get) \in Left(Unit(b, at))
  <2>1. CASE g.kind = "int"
    BY <1>2, <2>1 DEF Get, Left
  <2>2. CASE g.kind = "gen"
    BY <1>2, <2>2 DEF Get, Left, Demand, Then
  <2>3. CASE g.kind = "enum"
    BY <1>2, <2>3 DEF Get, Left, Demand, Then
  <2>4. CASE g.kind = "version"
    BY <1>2, <2>4 DEF Get, Left, Demand, Then
  <2>5. QED
    BY <2>1, <2>2, <2>3, <2>4 DEF Units
<1>4. Reads(Unit(b, at), b, at, <<v>>, v)
  BY UnitReads, OneUnit DEF Reads
<1>5. QED
  BY <1>1, <1>3, <1>4, LeftReads

LEMMA RunField ==
    ASSUME NEW f, NEW g, f.kind \in Runs, g.kind \in Runs, NEW v \in Buffers, NEW put, NEW get,
           NEW b \in Buffers, NEW at \in Offsets
    PROVE  Put(f, v, put) = Prefixed(v) /\ Reads(Get(g, b, at, get), b, at, Prefixed(v), v)
<1>1. Put(f, v, put) = Prefixed(v)
  BY DEF Put, Units, Runs
<1>2. ASSUME NEW max \in Nat PROVE Reads(Run(b, at, max), b, at, Prefixed(v), v)
  BY RunReads DEF Reads
<1>3. \E max \in Nat : Get(g, b, at, get) \in Left(Run(b, at, max))
  <2>1. ASSUME NEW max PROVE Run(b, at, max).ok \/ Run(b, at, max) = Failed
    BY Outcomes DEF Run, Then
  <2>2. MaxName \in Nat /\ MaxText \in Nat /\ MaxPayload \in Nat
    BY CodecAssumption
  <2>3. CASE g.kind = "id"
    <3>1. Get(g, b, at, get) \in Left(Run(b, at, MaxName))
      BY <2>1, <2>3 DEF Get, Left, Demand, Then
    <3>2. QED
      BY <2>2, <3>1
  <2>4. CASE g.kind = "optid"
    <3>1. Get(g, b, at, get) \in Left(Run(b, at, MaxName))
      BY <2>1, <2>4 DEF Get, Left
    <3>2. QED
      BY <2>2, <3>1
  <2>5. CASE g.kind = "text"
    <3>1. Get(g, b, at, get) \in Left(Run(b, at, MaxText))
      BY <2>1, <2>5 DEF Get, Left
    <3>2. QED
      BY <2>2, <3>1
  <2>6. CASE g.kind = "longtext"
    <3>1. Get(g, b, at, get) \in Left(Run(b, at, MaxPayload))
      BY <2>1, <2>6 DEF Get, Left
    <3>2. QED
      BY <2>2, <3>1
  <2>7. CASE g.kind = "opt"
    <3>1. Get(g, b, at, get) \in Left(Run(b, at, 1))
      BY <2>1, <2>7 DEF Get, Left
    <3>2. QED
      BY <3>1
  <2>8. QED
    BY <2>3, <2>4, <2>5, <2>6, <2>7 DEF Runs
<1>4. QED
  BY <1>1, <1>2, <1>3, LeftReads

LEMMA FlagField ==
    ASSUME NEW f, NEW g, f.kind = "flag", g.kind = "flag", NEW v \in BOOLEAN, NEW put, NEW get,
           NEW b \in Buffers, NEW at \in Offsets
    PROVE  Put(f, v, put) \in Buffers /\ Reads(Get(g, b, at, get), b, at, Put(f, v, put), v)
<1> DEFINE x == IF v THEN 1 ELSE 0
<1>1. Put(f, v, put) = <<x>>
  BY DEF Put, Units, Runs
<1>2. x \in {0, 1} /\ x <= 1 /\ (x = 1) = v
  OBVIOUS
<1> HIDE DEF x
<1>3. Get(g, b, at, get) =
        Then(Demand(Unit(b, at), LAMBDA n : n <= 1), LAMBDA n, next : Got(n = 1, next))
  BY DEF Get
<1>4. Unit(b, at) = Failed => Get(g, b, at, get) = Failed
  BY <1>3, Outcomes DEF Demand, Then
<1>5. Unit(b, at) = Got(x, at + 1) => Get(g, b, at, get) = Got(v, at + 1)
  <2> SUFFICES ASSUME Unit(b, at) = Got(x, at + 1) PROVE Get(g, b, at, get) = Got(v, at + 1)
    OBVIOUS
  <2>1. Demand(Unit(b, at), LAMBDA n : n <= 1) = Got(x, at + 1)
    BY <1>2, Outcomes DEF Demand, Then
  <2>2. Get(g, b, at, get) = Got(x = 1, at + 1)
    BY <1>3, <2>1, Outcomes DEF Then
  <2>3. QED
    BY <1>2, <2>2
<1>6. <<x>> \in Buffers /\ Len(<<x>>) = 1
  BY <1>2, OneUnit
<1>7. Reads(Get(g, b, at, get), b, at, <<x>>, v)
  BY <1>2, <1>4, <1>5, <1>6, UnitReads DEF Reads
<1>8. QED
  BY <1>1, <1>6, <1>7

LEMMA RefField ==
    ASSUME NEW f, NEW g, f.kind = "ref", g.kind = "ref", NEW v, HasKind(f, v), NEW put, NEW get,
           NEW b \in Buffers, NEW at \in Offsets
    PROVE  Put(f, v, put) \in Buffers /\ Reads(Get(g, b, at, get), b, at, Put(f, v, put), v)
<1> DEFINE u == Prefixed(v.id)
           w == <<v.generation>>
<1>1. /\ v = [id |-> v.id, generation |-> v.generation]
      /\ v.id \in Buffers /\ v.generation \in Nat /\ (v.id = << >> => v.generation = 0)
  BY DEF HasKind, Buffers
<1>2. Put(f, v, put) = u \o w
  BY DEF Put, Units, Runs
<1>3. u \in Buffers /\ w \in Buffers /\ Len(w) = 1
  BY <1>1, OneUnit, PrefixedUnits
<1>4. u \o w \in Buffers /\ Len(u \o w) = Len(u) + 1 /\ Len(u) \in Nat /\ at + Len(u) \in Offsets
  BY <1>3 DEF Buffers, Offsets
<1>5. MaxName \in Nat
  BY CodecAssumption
<1>6. Get(g, b, at, get) =
        Then(Run(b, at, MaxName), LAMBDA id, i :
        Then(Unit(b, i), LAMBDA generation, next :
            IF id = << >> THEN Got([id |-> id, generation |-> 0], next)
            ELSE IF generation = 0 THEN Failed
            ELSE Got([id |-> id, generation |-> generation], next)))
  BY DEF Get
<1> DEFINE r == Get(g, b, at, get)
           read == Run(b, at, MaxName)
           end == at + Len(u)
<1>7. read = Failed => r = Failed
  BY <1>6, Outcomes DEF Then
<1>8. read = Got(v.id, end) /\ Unit(b, end) = Failed => r = Failed
  BY <1>6, Outcomes DEF Then
<1>9. read = Got(v.id, end) /\ Unit(b, end) = Got(v.generation, end + 1) =>
        r \in {Got(v, end + 1), Failed}
  <2> SUFFICES ASSUME read = Got(v.id, end), Unit(b, end) = Got(v.generation, end + 1)
               PROVE  r \in {Got(v, end + 1), Failed}
    OBVIOUS
  <2>1. r = IF v.id = << >> THEN Got([id |-> v.id, generation |-> 0], end + 1)
            ELSE IF v.generation = 0 THEN Failed
            ELSE Got([id |-> v.id, generation |-> v.generation], end + 1)
    BY <1>6, Outcomes DEF Then
  <2>2. QED
    BY <1>1, <2>1
<1> HIDE DEF r, read, u, w, end
<1>10. /\ HoldsAt(b, at, u) => read \in {Got(v.id, end), Failed}
       /\ CutAt(b, at, u) => read = Failed
  BY <1>1, <1>5, RunReads DEF read, u, end
<1>11. /\ HoldsAt(b, end, w) => Unit(b, end) = Got(v.generation, end + 1)
       /\ CutAt(b, end, w) => Unit(b, end) = Failed
  BY <1>1, <1>4, UnitReads DEF end, w
<1>12. ASSUME HoldsAt(b, at, u \o w) PROVE r \in {Got(v, at + Len(u \o w)), Failed}
  <2>1. HoldsAt(b, at, u) /\ HoldsAt(b, end, w)
    BY <1>3, <1>12, HoldsConcat DEF end
  <2>2. end + 1 = at + Len(u \o w)
    BY <1>4 DEF end, Offsets
  <2>3. QED
    BY <1>7, <1>9, <1>10, <1>11, <2>1, <2>2
<1>13. ASSUME CutAt(b, at, u \o w) PROVE r = Failed
  <2>1. CutAt(b, at, u) \/ (HoldsAt(b, at, u) /\ CutAt(b, end, w))
    BY <1>3, <1>13, CutConcat DEF end
  <2>2. QED
    BY <1>7, <1>8, <1>10, <1>11, <2>1
<1>14. QED
  BY <1>2, <1>4, <1>12, <1>13 DEF Reads, r, u, w

\* get reads each of the values w as it is put.
Conveys(get, put, w) ==
    /\ put \in Seq(Buffers) /\ w \in Seq(Range(w)) /\ Len(put) = Len(w)
    /\ \A j \in 1 .. Len(w) : \A u \in Buffers, o \in Offsets :
            Reads(get[u][o], u, o, put[j], w[j])

LEMMA WholeBuffer ==
    ASSUME NEW u \in Buffers
    PROVE  1 \in Offsets /\ HoldsAt(u, 1, u) /\ 1 + Len(u) = Len(u) + 1
  BY DEF Buffers, Offsets, HoldsAt

LEMMA WholeReads ==
    ASSUME NEW u \in Buffers, NEW v, NEW r, Reads(r, u, 1, u, v)
    PROVE  Whole(r, u) \in {Got(v, Len(u) + 1), Failed}
<1>1. r \in {Got(v, Len(u) + 1), Failed}
  BY WholeBuffer DEF Reads
<1>2. QED
  BY <1>1, Outcomes DEF Whole, Demand, Then

LEMMA FlattenFew ==
    /\ FlattenSeq(<< >>) = << >>
    /\ \A put \in Seq(Buffers) : Len(put) = 1 => FlattenSeq(put) = put[1] /\ put[1] \in Buffers
<1>1. FlattenSeq(<< >>) = << >>
  BY DEF FlattenSeq
<1>2. ASSUME NEW put \in Seq(Buffers), Len(put) = 1
      PROVE  FlattenSeq(put) = put[1] /\ put[1] \in Buffers
  <2>1. PICK p : Pieces(put, p) /\ p[1] = FlattenSeq(put)
    BY <1>2, FlattenPieces
  <2>2. p[0] = << >> /\ p[1] = p[1 - 1] \o put[1] /\ put[1] \in Buffers
    <3>1. 1 \in 1 .. Len(put)
      BY <1>2
    <3>2. p[0] = << >> /\ p[1] = p[1 - 1] \o put[1]
      BY <2>1, <3>1 DEF Pieces
    <3>3. QED
      BY <3>1, <3>2
  <2>3. p[1 - 1] = << >>
    BY <2>2
  <2>4. << >> \o put[1] = put[1]
    BY <2>2 DEF Buffers
  <2>5. QED
    BY <2>1, <2>2, <2>3, <2>4
<1>3. QED
  BY <1>1, <1>2

LEMMA ListField ==
    ASSUME NEW f, NEW g, f.kind = "list", g.kind = "list", NEW v, NEW put, NEW get,
           Conveys(get, put, v), NEW b \in Buffers, NEW at \in Offsets
    PROVE  Put(f, v, put) \in Buffers /\ Reads(Get(g, b, at, get), b, at, Put(f, v, put), v)
<1> DEFINE n == Len(v)
           u == FlattenSeq(put)
           reads == [i \in 1 .. n |-> get[b]]
           r == Get(g, b, at, get)
<1>1. /\ put \in Seq(Buffers) /\ v \in Seq(Range(v)) /\ Len(put) = n /\ n \in Nat
      /\ \A j \in 1 .. n : \A o \in Offsets : Reads(get[b][o], b, o, put[j], v[j])
  BY DEF Conveys
<1>2. Put(f, v, put) = <<n>> \o u
  BY DEF Put, Units, Runs
<1>3. u \in Buffers /\ <<n>> \in Buffers /\ Len(<<n>>) = 1
  BY <1>1, FlattenPieces, OneUnit
<1>4. <<n>> \o u \in Buffers /\ Len(<<n>> \o u) = 1 + Len(u) /\ Len(u) \in Nat
  BY <1>3 DEF Buffers
<1>5. at + 1 \in Offsets /\ at \in Nat
  BY DEF Offsets
<1>6. Len(reads) = n /\ \A i \in 1 .. n : reads[i] = get[b]
  BY <1>1
<1>7. r = Then(Demand(Unit(b, at), LAMBDA x : x <= MaxEntries), LAMBDA count, next :
               GetEach([i \in 1 .. count |-> get[b]], next))
  BY DEF Get
<1>8. Unit(b, at) = Failed => r = Failed
  BY <1>7, Outcomes DEF Demand, Then
<1>9. Unit(b, at) = Got(n, at + 1) => r \in {GetEach(reads, at + 1), Failed}
  BY <1>7, Outcomes DEF Demand, Then
<1> HIDE DEF reads, u, n, r
<1>10. Reads(GetEach(reads, at + 1), b, at + 1, u, v)
  <2>1. \A j \in 1 .. Len(put) : \A o \in Offsets : Reads(reads[j][o], b, o, put[j], v[j])
    BY <1>1, <1>6
  <2>2. QED
    BY <1>1, <1>5, <1>6, <2>1, EachReads DEF n, u
<1>11. ASSUME HoldsAt(b, at, <<n>> \o u) PROVE r \in {Got(v, at + Len(<<n>> \o u)), Failed}
  <2>1. HoldsAt(b, at, <<n>>) /\ HoldsAt(b, at + 1, u)
    BY <1>3, <1>11, HoldsConcat
  <2>2. Unit(b, at) = Got(n, at + 1)
    BY <1>1, <2>1, UnitReads
  <2>3. (at + 1) + Len(u) = at + Len(<<n>> \o u)
    BY <1>4, <1>5
  <2>4. QED
    BY <1>9, <1>10, <2>1, <2>2, <2>3 DEF Reads
<1>12. ASSUME CutAt(b, at, <<n>> \o u) PROVE r = Failed
  <2>1. CutAt(b, at, <<n>>) \/ (HoldsAt(b, at, <<n>>) /\ CutAt(b, at + 1, u))
    BY <1>3, <1>12, CutConcat
  <2>2. QED
    BY <1>1, <1>8, <1>9, <1>10, <2>1, UnitReads DEF Reads
<1>13. QED
  BY <1>2, <1>4, <1>11, <1>12 DEF Reads, r, n, u

LEMMA BlobField ==
    ASSUME NEW f, NEW g, f.kind = "blob", g.kind = "blob", NEW v, NEW put, NEW get,
           Conveys(get, put, <<v>>), NEW b \in Buffers, NEW at \in Offsets
    PROVE  Put(f, v, put) \in Buffers /\ Reads(Get(g, b, at, get), b, at, Put(f, v, put), v)
<1> DEFINE u == put[1]
           r == Get(g, b, at, get)
           read == Run(b, at, MaxPayload)
           whole == Whole(get[u][1], u)
           end == at + Len(Prefixed(u))
<1>1. /\ Len(<<v>>) = 1 /\ <<v>>[1] = v /\ u \in Buffers
      /\ \A o \in Offsets : Reads(get[u][o], u, o, u, v)
  BY DEF Conveys
<1>2. Put(f, v, put) = Prefixed(u)
  BY DEF Put, Units, Runs
<1>3. Prefixed(u) \in Buffers
  BY <1>1, PrefixedUnits
<1>4. r = Then(read, LAMBDA units, next :
          Then(Whole(get[units][1], units), LAMBDA x, after : Got(x, next)))
  BY DEF Get
<1>5. read = Failed => r = Failed
  BY <1>4, Outcomes DEF Then
<1>6. read = Got(u, end) => r = Then(whole, LAMBDA x, after : Got(x, end))
  BY <1>4, Outcomes DEF Then
<1> HIDE DEF u, r, read, end
<1>7. whole \in {Got(v, Len(u) + 1), Failed}
  BY <1>1, WholeBuffer, WholeReads
<1> HIDE DEF whole
<1>8. read = Got(u, end) => r \in {Got(v, end), Failed}
  BY <1>6, <1>7, Outcomes DEF Then
<1>9. /\ HoldsAt(b, at, Prefixed(u)) => read \in {Got(u, end), Failed}
      /\ CutAt(b, at, Prefixed(u)) => read = Failed
  BY <1>1, CodecAssumption, RunReads DEF read, end
<1>10. Reads(r, b, at, Prefixed(u), v)
  BY <1>5, <1>8, <1>9 DEF Reads, end
<1>11. QED
  BY <1>2, <1>3, <1>10 DEF r, u

LEMMA OptBlobField ==
    ASSUME NEW f, NEW g, f.kind = "optblob", g.kind = "optblob", NEW v, Len(v) <= 1,
           NEW put, NEW get, Conveys(get, put, v), NEW b \in Buffers, NEW at \in Offsets
    PROVE  Put(f, v, put) \in Buffers /\ Reads(Get(g, b, at, get), b, at, Put(f, v, put), v)
<1> DEFINE n == Len(v)
           u == FlattenSeq(put)
           r == Get(g, b, at, get)
           read == Run(b, at + 1, MaxPayload)
           end == (at + 1) + Len(Prefixed(u))
           whole == Whole(get[u][1], u)
<1>1. put \in Seq(Buffers) /\ v \in Seq(Range(v)) /\ Len(put) = n /\ n \in {0, 1}
  BY DEF Conveys
<1>2. Put(f, v, put) = <<n>> \o Prefixed(u)
  BY DEF Put, Units, Runs
<1>3. /\ u \in Buffers /\ Prefixed(u) \in Buffers /\ Len(Prefixed(u)) \in Nat
      /\ <<n>> \in Buffers /\ Len(<<n>>) = 1
  <2>1. u \in Buffers /\ <<n>> \in Buffers /\ Len(<<n>>) = 1
    BY <1>1, FlattenPieces, OneUnit
  <2>2. Prefixed(u) \in Buffers
    BY <2>1, PrefixedUnits
  <2>3. QED
    BY <2>1, <2>2 DEF Buffers
<1>4. <<n>> \o Prefixed(u) \in Buffers /\ Len(<<n>> \o Prefixed(u)) = 1 + Len(Prefixed(u))
  BY <1>3 DEF Buffers
<1>5. at + 1 \in Offsets /\ at \in Nat
  BY DEF Offsets
<1>6. r = Then(Demand(Unit(b, at), LAMBDA x : x <= 1), LAMBDA has, i :
          Then(Run(b, i, MaxPayload), LAMBDA units, next :
                IF has = 0 THEN Got(<< >>, next)
                ELSE Then(Whole(get[units][1], units), LAMBDA x, after : Got(<<x>>, next))))
  BY DEF Get
<1>7. Unit(b, at) = Failed => r = Failed
  BY <1>6, Outcomes DEF Demand, Then
<1>8. ASSUME Unit(b, at) = Got(n, at + 1)
      PROVE  /\ read = Failed => r = Failed
             /\ read = Got(u, end) => r = IF n = 0 THEN Got(<< >>, end)
                                          ELSE Then(whole, LAMBDA x, after : Got(<<x>>, end))
  <2>1. Demand(Unit(b, at), LAMBDA x : x <= 1) = Got(n, at + 1)
    BY <1>1, <1>8, Outcomes DEF Demand, Then
  <2>2. r = Then(read, LAMBDA units, next :
                IF n = 0 THEN Got(<< >>, next)
                ELSE Then(Whole(get[units][1], units), LAMBDA x, after : Got(<<x>>, next)))
    BY <1>6, <2>1, Outcomes DEF Then
  <2>3. QED
    BY <2>2, Outcomes DEF Then
<1> HIDE DEF r, read, end
<1>9. n = 0 => v = << >>
  BY <1>1
<1>10. n = 1 => /\ v = <<v[1]>>
                /\ Then(whole, LAMBDA x, after : Got(<<x>>, end)) \in {Got(<<v[1]>>, end), Failed}
  <2> SUFFICES ASSUME n = 1
               PROVE  /\ v = <<v[1]>>
                      /\ Then(whole, LAMBDA x, after : Got(<<x>>, end))
                            \in {Got(<<v[1]>>, end), Failed}
    OBVIOUS
  <2>1. v = <<v[1]>>
    BY <1>1
  <2>2. u = put[1]
    BY <1>1, FlattenFew
  <2>3. Reads(get[u][1], u, 1, u, v[1])
    BY <1>1, <1>3, <2>2, WholeBuffer DEF Conveys
  <2>4. whole \in {Got(v[1], Len(u) + 1), Failed}
    BY <1>3, <2>3, WholeReads
  <2> HIDE DEF whole
  <2>5. QED
    BY <2>1, <2>4, Outcomes DEF Then
<1> HIDE DEF n, u, whole
<1>11. Unit(b, at) = Got(n, at + 1) /\ read = Got(u, end) => r \in {Got(v, end), Failed}
  BY <1>1, <1>8, <1>9, <1>10
<1>12. /\ HoldsAt(b, at + 1, Prefixed(u)) => read \in {Got(u, end), Failed}
       /\ CutAt(b, at + 1, Prefixed(u)) => read = Failed
  BY <1>3, <1>5, CodecAssumption, RunReads DEF read, end
<1>13. /\ HoldsAt(b, at, <<n>>) => Unit(b, at) = Got(n, at + 1)
       /\ CutAt(b, at, <<n>>) => Unit(b, at) = Failed
  BY <1>1, UnitReads
<1>14. ASSUME HoldsAt(b, at, <<n>> \o Prefixed(u))
       PROVE  r \in {Got(v, at + Len(<<n>> \o Prefixed(u))), Failed}
  <2>1. HoldsAt(b, at, <<n>>) /\ HoldsAt(b, at + 1, Prefixed(u))
    BY <1>3, <1>14, HoldsConcat
  <2>2. end = at + Len(<<n>> \o Prefixed(u))
    BY <1>3, <1>4, <1>5 DEF end
  <2>3. QED
    BY <1>8, <1>11, <1>12, <1>13, <2>1, <2>2
<1>15. ASSUME CutAt(b, at, <<n>> \o Prefixed(u)) PROVE r = Failed
  <2>1. CutAt(b, at, <<n>>) \/ (HoldsAt(b, at, <<n>>) /\ CutAt(b, at + 1, Prefixed(u)))
    BY <1>3, <1>15, CutConcat
  <2>2. QED
    BY <1>7, <1>8, <1>12, <1>13, <2>1
<1>16. QED
  BY <1>2, <1>4, <1>14, <1>15 DEF Reads, r, n, u

\* A field is read as it was written.
LEMMA FieldReads ==
    ASSUME NEW f, NEW g, Alike(f, g), NEW v, HasKind(f, v), NEW put, NEW get,
           Conveys(get, put, Nested(f, v)), NEW b \in Buffers, NEW at \in Offsets
    PROVE  Put(f, v, put) \in Buffers /\ Reads(Get(g, b, at, get), b, at, Put(f, v, put), v)
<1>1. CASE f.kind \in Units /\ g.kind \in Units
  <2>1. v \in Nat
    BY <1>1 DEF HasKind
  <2>2. Put(f, v, put) = <<v>> /\ Reads(Get(g, b, at, get), b, at, <<v>>, v)
    BY <1>1, <2>1, UnitField
  <2>3. QED
    BY <2>1, <2>2, OneUnit
<1>2. CASE f.kind \in Runs /\ g.kind \in Runs
  <2>1. v \in Buffers
    BY <1>2 DEF HasKind, Buffers
  <2>2. Put(f, v, put) = Prefixed(v) /\ Reads(Get(g, b, at, get), b, at, Prefixed(v), v)
    BY <1>2, <2>1, RunField
  <2>3. QED
    BY <2>1, <2>2, PrefixedUnits
<1>3. CASE f.kind = g.kind /\ f.kind = "flag"
  BY <1>3, FlagField DEF HasKind
<1>4. CASE f.kind = g.kind /\ f.kind = "ref"
  BY <1>4, RefField
<1>5. CASE f.kind = g.kind /\ f.kind = "part"
  <2>1. Nested(f, v) = <<v>>
    BY <1>5 DEF Nested
  <2>2. Put(f, v, put) = put[1] /\ Get(g, b, at, get) = get[b][at]
    BY <1>5 DEF Put, Get, Units, Runs
  <2>3. Len(<<v>>) = 1 /\ <<v>>[1] = v
    OBVIOUS
  <2>4. put[1] \in Buffers /\ Reads(get[b][at], b, at, put[1], v)
    BY <2>1, <2>3 DEF Conveys
  <2>5. QED
    BY <2>2, <2>4
<1>6. CASE f.kind = g.kind /\ f.kind = "list"
  <2>1. Nested(f, v) = v
    BY <1>6 DEF Nested
  <2>2. QED
    BY <1>6, <2>1, ListField
<1>7. CASE f.kind = g.kind /\ f.kind = "blob"
  <2>1. Nested(f, v) = <<v>>
    BY <1>7 DEF Nested
  <2>2. QED
    BY <1>7, <2>1, BlobField
<1>8. CASE f.kind = g.kind /\ f.kind = "optblob"
  <2>1. Nested(f, v) = v /\ Len(v) <= 1
    BY <1>8 DEF Nested, HasKind
  <2>2. QED
    BY <1>8, <2>1, OptBlobField
<1>9. QED
  BY <1>1, <1>2, <1>3, <1>4, <1>5, <1>6, <1>7, <1>8 DEF Alike, Nesting

(***************************************************************************)
(* Layouts.  The two layouts of a message agree when their fields, in      *)
(* order, are alike, and so are those of the layouts within them.  pairs   *)
(* holds the layouts that stand against each other.                        *)
(***************************************************************************)
Matched(w, r, pairs) ==
    /\ w \in Seq(Range(w)) /\ r \in Seq(Range(r)) /\ Len(w) = Len(r)
    /\ \A i \in 1 .. Len(w) :
         Alike(w[i], r[i]) /\ (w[i].kind \in Nesting => <<w[i].of, r[i].of>> \in pairs)
Agree(w, r) ==
    \E pairs : <<w, r>> \in pairs /\ \A x \in pairs :
            x = <<x[1], x[2]>> /\ Matched(x[1], x[2], pairs)

LEMMA AgreeFields ==
    ASSUME NEW w, NEW r, Agree(w, r)
    PROVE  /\ w \in Seq(Range(w)) /\ r \in Seq(Range(r)) /\ Len(w) = Len(r) /\ Len(w) \in Nat
           /\ \A i \in 1 .. Len(w) :
                Alike(w[i], r[i]) /\ (w[i].kind \in Nesting => Agree(w[i].of, r[i].of))
<1>1. PICK pairs : /\ <<w, r>> \in pairs
                   /\ \A x \in pairs : x = <<x[1], x[2]>> /\ Matched(x[1], x[2], pairs)
  BY DEF Agree
<1>2. Matched(w, r, pairs)
  BY <1>1
<1>3. ASSUME NEW i \in 1 .. Len(w), w[i].kind \in Nesting PROVE Agree(w[i].of, r[i].of)
  BY <1>1, <1>2, <1>3 DEF Agree, Matched
<1>4. /\ w \in Seq(Range(w)) /\ r \in Seq(Range(r)) /\ Len(w) = Len(r)
      /\ \A i \in 1 .. Len(w) : Alike(w[i], r[i])
  BY <1>2 DEF Matched
<1>5. Len(w) \in Nat
  BY <1>4
<1>6. QED
  BY <1>3, <1>4, <1>5

Fields(w, v) == v = [name \in {w[i].name : i \in DOMAIN w} |-> v[name]]
PutEach(w, v, put, s) == s = [i \in DOMAIN w |-> Put(w[i], v[w[i].name], put[i])]
ReadEach(r, b, get, reads) ==
    reads = [n \in DOMAIN r |-> [i \in Nat |-> Get(r[n], b, i, get[n])]]
AsRecord(r, read) == Then(read, LAMBDA values, next : Got(Record(r, values), next))

\* The layout as a whole: put[i] is how what is nested in field i is written, and
\* get[i] how it is read.
LEMMA LayoutReads ==
    ASSUME NEW w, NEW r, Agree(w, r), NEW v, NEW put, NEW get,
           Fields(w, v),
           \A i \in 1 .. Len(w) :
                /\ HasKind(w[i], v[w[i].name])
                /\ Conveys(get[i], put[i], Nested(w[i], v[w[i].name])),
           NEW s, PutEach(w, v, put, s), NEW b \in Buffers, NEW at \in Offsets,
           NEW reads, ReadEach(r, b, get, reads)
    PROVE  /\ FlattenSeq(s) \in Buffers
           /\ Reads(AsRecord(r, GetEach(reads, at)), b, at, FlattenSeq(s), v)
<1> DEFINE vals == [i \in 1 .. Len(w) |-> v[w[i].name]]
           T == {v[w[i].name] : i \in 1 .. Len(w)}
           q == GetEach(reads, at)
           u == FlattenSeq(s)
           end == at + Len(u)
<1>1. /\ w \in Seq(Range(w)) /\ r \in Seq(Range(r)) /\ Len(w) = Len(r) /\ Len(w) \in Nat
      /\ \A i \in 1 .. Len(w) : Alike(w[i], r[i])
  BY AgreeFields
<1>2. DOMAIN w = 1 .. Len(w) /\ DOMAIN r = 1 .. Len(w)
  BY <1>1
<1>3. \A i \in 1 .. Len(w) : s[i] \in Buffers
  BY <1>1, <1>2, FieldReads DEF PutEach
<1>4. s \in Seq(Buffers) /\ Len(s) = Len(w)
  <2>1. \A n \in Nat : \A x \in [1 .. n -> Buffers] : x \in Seq(Buffers) /\ Len(x) = n
    OBVIOUS
  <2>2. s \in [1 .. Len(w) -> Buffers]
    BY <1>2, <1>3 DEF PutEach
  <2>3. QED
    BY <1>1, <2>1, <2>2
<1>5. vals \in Seq(T) /\ Len(vals) = Len(w)
  BY <1>1
<1>6. Len(reads) = Len(w) /\ \A i \in 1 .. Len(w) : \A o \in Offsets :
        reads[i][o] = Get(r[i], b, o, get[i])
  BY <1>1, <1>2 DEF Offsets, ReadEach
<1>7. \A i \in 1 .. Len(w) : \A o \in Offsets : Reads(reads[i][o], b, o, s[i], vals[i])
  <2> TAKE i \in 1 .. Len(w)
  <2> TAKE o \in Offsets
  <2>1. reads[i][o] = Get(r[i], b, o, get[i]) /\ vals[i] = v[w[i].name]
        /\ s[i] = Put(w[i], v[w[i].name], put[i])
    BY <1>2, <1>6 DEF PutEach
  <2>2. Reads(Get(r[i], b, o, get[i]), b, o, Put(w[i], v[w[i].name], put[i]), v[w[i].name])
    BY <1>1, FieldReads
  <2>3. QED
    BY <2>1, <2>2
<1>8. Record(r, vals) = v
  <2>1. \A i \in 1 .. Len(w) : r[i].name = w[i].name
    BY <1>1 DEF Alike
  <2>2. {r[i].name : i \in DOMAIN r} = {w[i].name : i \in DOMAIN w}
    BY <1>2, <2>1
  <2>3. \A name \in {w[i].name : i \in DOMAIN w} :
            vals[CHOOSE i \in DOMAIN r : r[i].name = name] = v[name]
    BY <1>2, <2>1
  <2>4. QED
    BY <2>2, <2>3 DEF Record, Fields
<1> HIDE DEF vals, T
<1>9. u \in Buffers /\ Reads(q, b, at, u, vals)
  <2>1. u \in Buffers
    BY <1>4, FlattenPieces
  <2>2. QED
    BY <1>4, <1>5, <1>6, <1>7, <2>1, EachReads
<1> HIDE DEF q, u
<1>10. q = Failed => AsRecord(r, q) = Failed
  BY Outcomes DEF AsRecord, Then
<1>11. q = Got(vals, end) => AsRecord(r, q) = Got(v, end)
  BY <1>8, Outcomes DEF AsRecord, Then
<1>12. Reads(AsRecord(r, q), b, at, u, v)
  BY <1>9, <1>10, <1>11 DEF Reads
<1>13. QED
  BY <1>9, <1>12 DEF q, u

LEMMA NestedKinds ==
    ASSUME NEW f, NEW v, HasKind(f, v)
    PROVE  /\ Nested(f, v) \in Seq(Range(Nested(f, v))) /\ Len(Nested(f, v)) \in Nat
           /\ DOMAIN Nested(f, v) = 1 .. Len(Nested(f, v))
           /\ f.kind \notin Nesting => Len(Nested(f, v)) = 0
<1>1. Nested(f, v) \in Seq(Range(Nested(f, v)))
  BY DEF HasKind
<1>2. f.kind \notin Nesting => Nested(f, v) = << >>
  BY DEF Nested, Nesting
<1>3. QED
  BY <1>1, <1>2

LEMMA ConveysEach ==
    ASSUME NEW n \in Nat, NEW nested, nested \in Seq(Range(nested)), Len(nested) = n,
           NEW put, NEW get,
           put = [j \in 1 .. n |-> put[j]],
           \A j \in 1 .. n : /\ put[j] \in Buffers
                             /\ \A u \in Buffers, o \in Offsets :
                                    Reads(get[u][o], u, o, put[j], nested[j])
    PROVE  Conveys(get, put, nested)
<1>1. put \in [1 .. n -> Buffers]
  OBVIOUS
<1>2. put \in Seq(Buffers) /\ Len(put) = n
  BY <1>1
<1>3. QED
  BY <1>2 DEF Conveys

(***************************************************************************)
(* Messages, from the innermost layouts outwards                           *)
(***************************************************************************)
LEMMA LevelReads0 ==
    ASSUME NEW w, NEW r, Agree(w, r), NEW v, HasType0(w, v)
    PROVE  /\ PutAll0(w, v) \in Buffers
           /\ \A b \in Buffers, at \in Offsets : Reads(GetAll0(r, b, at), b, at, PutAll0(w, v), v)
<1> DEFINE nested(i) == Nested(w[i], v[w[i].name])
           put == [i \in DOMAIN w |-> [j \in DOMAIN nested(i) |-> << >>]]
           get == [i \in DOMAIN r |-> [u \in Seq(Nat) |-> [o \in Nat |-> Failed]]]
           s == [i \in DOMAIN w |-> Put(w[i], v[w[i].name], put[i])]
<1>1. /\ Len(w) \in Nat /\ DOMAIN w = 1 .. Len(w) /\ DOMAIN r = 1 .. Len(w)
      /\ \A i \in 1 .. Len(w) :
            Alike(w[i], r[i]) /\ (w[i].kind \in Nesting => Agree(w[i].of, r[i].of))
  BY AgreeFields
<1>2. /\ Fields(w, v)
      /\ \A i \in 1 .. Len(w) :
            HasKind(w[i], v[w[i].name]) /\ \A j \in DOMAIN nested(i) : FALSE
  BY <1>1 DEF HasType0, HasFields, Fields
<1>3. PutAll0(w, v) = FlattenSeq(s)
  <2>1. s = [i \in DOMAIN w |-> Put(w[i], v[w[i].name], [j \in DOMAIN nested(i) |-> << >>])]
    OBVIOUS
  <2>2. QED
    BY <2>1 DEF PutAll0, PutFields
<1>4. ASSUME NEW i \in 1 .. Len(w) PROVE Conveys(get[i], put[i], nested(i))
  <2>1. /\ nested(i) \in Seq(Range(nested(i))) /\ Len(nested(i)) \in Nat
        /\ DOMAIN nested(i) = 1 .. Len(nested(i))
    BY <1>2, NestedKinds
  <2>2. \A j \in 1 .. Len(nested(i)) : FALSE
    BY <1>2, <2>1
  <2>3. put[i] = [j \in 1 .. Len(nested(i)) |-> put[i][j]]
    BY <1>1, <2>1
  <2> HIDE DEF put, get, nested
  <2>4. QED
    BY <2>1, <2>2, <2>3, ConveysEach
<1>5. FlattenSeq(s) \in Buffers /\ \A b \in Buffers, at \in Offsets :
        Reads(GetAll0(r, b, at), b, at, FlattenSeq(s), v)
  <2> SUFFICES ASSUME NEW b \in Buffers, NEW at \in Offsets
               PROVE  FlattenSeq(s) \in Buffers /\ Reads(GetAll0(r, b, at), b, at, FlattenSeq(s), v)
    <3>1. << >> \in Buffers /\ 1 \in Offsets
      BY DEF Buffers, Offsets
    <3>2. QED
      BY <3>1
  <2> DEFINE reads == [n \in DOMAIN r |-> [i \in Nat |-> Get(r[n], b, i, get[n])]]
  <2>1. reads = [n \in DOMAIN r |-> [i \in Nat |->
                    Get(r[n], b, i, [u \in Seq(Nat) |-> [o \in Nat |-> Failed]])]]
    OBVIOUS
  <2>2. GetAll0(r, b, at) = AsRecord(r, GetEach(reads, at))
    BY <2>1 DEF GetAll0, GetFields, AsRecord
  <2>3. PutEach(w, v, put, s) /\ ReadEach(r, b, get, reads)
    BY DEF PutEach, ReadEach
  <2> HIDE DEF put, get, s, reads
  <2>4. \A i \in 1 .. Len(w) :
            HasKind(w[i], v[w[i].name]) /\ Conveys(get[i], put[i], Nested(w[i], v[w[i].name]))
    BY <1>2, <1>4
  <2>5. FlattenSeq(s) \in Buffers /\ Reads(AsRecord(r, GetEach(reads, at)), b, at, FlattenSeq(s), v)
    BY <1>2, <2>3, <2>4, LayoutReads
  <2>6. QED
    BY <2>2, <2>5
<1>6. QED
  BY <1>3, <1>5

LEMMA LevelReads1 ==
    ASSUME NEW w, NEW r, Agree(w, r), NEW v, HasType1(w, v)
    PROVE  /\ PutAll1(w, v) \in Buffers
           /\ \A b \in Buffers, at \in Offsets : Reads(GetAll1(r, b, at), b, at, PutAll1(w, v), v)
<1> DEFINE nested(i) == Nested(w[i], v[w[i].name])
           put == [i \in DOMAIN w |-> [j \in DOMAIN nested(i) |-> PutAll0(w[i].of, nested(i)[j])]]
           get == [i \in DOMAIN r |-> [u \in Seq(Nat) |-> [o \in Nat |-> GetAll0(r[i].of, u, o)]]]
           s == [i \in DOMAIN w |-> Put(w[i], v[w[i].name], put[i])]
<1>1. /\ Len(w) \in Nat /\ DOMAIN w = 1 .. Len(w) /\ DOMAIN r = 1 .. Len(w)
      /\ \A i \in 1 .. Len(w) :
            Alike(w[i], r[i]) /\ (w[i].kind \in Nesting => Agree(w[i].of, r[i].of))
  BY AgreeFields
<1>2. /\ Fields(w, v)
      /\ \A i \in 1 .. Len(w) :
            HasKind(w[i], v[w[i].name]) /\ \A j \in DOMAIN nested(i) :
                    HasType0(w[i].of, nested(i)[j])
  BY <1>1 DEF HasType1, HasFields, Fields
<1>3. PutAll1(w, v) = FlattenSeq(s)
  <2>1. s = [i \in DOMAIN w |-> Put(w[i], v[w[i].name],
          [j \in DOMAIN nested(i) |-> PutAll0(w[i].of, nested(i)[j])])]
    OBVIOUS
  <2>2. QED
    BY <2>1 DEF PutAll1, PutFields
<1>4. ASSUME NEW i \in 1 .. Len(w) PROVE Conveys(get[i], put[i], nested(i))
  <2>1. /\ nested(i) \in Seq(Range(nested(i))) /\ Len(nested(i)) \in Nat
        /\ DOMAIN nested(i) = 1 .. Len(nested(i))
        /\ w[i].kind \notin Nesting => Len(nested(i)) = 0
    BY <1>2, NestedKinds
  <2>2. ASSUME NEW j \in 1 .. Len(nested(i))
        PROVE  /\ put[i][j] \in Buffers
               /\ \A u \in Buffers, o \in Offsets :
                    Reads(get[i][u][o], u, o, put[i][j], nested(i)[j])
    <3>1. Agree(w[i].of, r[i].of) /\ HasType0(w[i].of, nested(i)[j])
      <4>1. w[i].kind \in Nesting
        BY <2>1
      <4>2. QED
        BY <1>1, <1>2, <2>1, <4>1
    <3>2. put[i][j] = PutAll0(w[i].of, nested(i)[j])
      BY <1>1, <2>1
    <3>3. ASSUME NEW u \in Buffers, NEW o \in Offsets PROVE get[i][u][o] = GetAll0(r[i].of, u, o)
      BY <1>1 DEF Buffers, Offsets
    <3> HIDE DEF put, get, nested
    <3>4. /\ PutAll0(w[i].of, nested(i)[j]) \in Buffers
          /\ \A u \in Buffers, o \in Offsets :
                Reads(GetAll0(r[i].of, u, o), u, o, PutAll0(w[i].of, nested(i)[j]), nested(i)[j])
      BY <3>1, LevelReads0
    <3>5. QED
      BY <3>2, <3>3, <3>4
  <2>3. put[i] = [j \in 1 .. Len(nested(i)) |-> put[i][j]]
    BY <1>1, <2>1
  <2> HIDE DEF put, get, nested
  <2>4. QED
    BY <2>1, <2>2, <2>3, ConveysEach
<1>5. FlattenSeq(s) \in Buffers /\ \A b \in Buffers, at \in Offsets :
        Reads(GetAll1(r, b, at), b, at, FlattenSeq(s), v)
  <2> SUFFICES ASSUME NEW b \in Buffers, NEW at \in Offsets
               PROVE  FlattenSeq(s) \in Buffers /\ Reads(GetAll1(r, b, at), b, at, FlattenSeq(s), v)
    <3>1. << >> \in Buffers /\ 1 \in Offsets
      BY DEF Buffers, Offsets
    <3>2. QED
      BY <3>1
  <2> DEFINE reads == [n \in DOMAIN r |-> [i \in Nat |-> Get(r[n], b, i, get[n])]]
  <2>1. reads = [n \in DOMAIN r |-> [i \in Nat |->
                    Get(r[n], b, i, [u \in Seq(Nat) |-> [o \in Nat |-> GetAll0(r[n].of, u, o)]])]]
    OBVIOUS
  <2>2. GetAll1(r, b, at) = AsRecord(r, GetEach(reads, at))
    BY <2>1 DEF GetAll1, GetFields, AsRecord
  <2>3. PutEach(w, v, put, s) /\ ReadEach(r, b, get, reads)
    BY DEF PutEach, ReadEach
  <2> HIDE DEF put, get, s, reads
  <2>4. \A i \in 1 .. Len(w) :
            HasKind(w[i], v[w[i].name]) /\ Conveys(get[i], put[i], Nested(w[i], v[w[i].name]))
    BY <1>2, <1>4
  <2>5. FlattenSeq(s) \in Buffers /\ Reads(AsRecord(r, GetEach(reads, at)), b, at, FlattenSeq(s), v)
    BY <1>2, <2>3, <2>4, LayoutReads
  <2>6. QED
    BY <2>2, <2>5
<1>6. QED
  BY <1>3, <1>5

LEMMA LevelReads2 ==
    ASSUME NEW w, NEW r, Agree(w, r), NEW v, HasType2(w, v)
    PROVE  /\ PutAll2(w, v) \in Buffers
           /\ \A b \in Buffers, at \in Offsets : Reads(GetAll2(r, b, at), b, at, PutAll2(w, v), v)
<1> DEFINE nested(i) == Nested(w[i], v[w[i].name])
           put == [i \in DOMAIN w |-> [j \in DOMAIN nested(i) |-> PutAll1(w[i].of, nested(i)[j])]]
           get == [i \in DOMAIN r |-> [u \in Seq(Nat) |-> [o \in Nat |-> GetAll1(r[i].of, u, o)]]]
           s == [i \in DOMAIN w |-> Put(w[i], v[w[i].name], put[i])]
<1>1. /\ Len(w) \in Nat /\ DOMAIN w = 1 .. Len(w) /\ DOMAIN r = 1 .. Len(w)
      /\ \A i \in 1 .. Len(w) :
            Alike(w[i], r[i]) /\ (w[i].kind \in Nesting => Agree(w[i].of, r[i].of))
  BY AgreeFields
<1>2. /\ Fields(w, v)
      /\ \A i \in 1 .. Len(w) :
            HasKind(w[i], v[w[i].name]) /\ \A j \in DOMAIN nested(i) :
                    HasType1(w[i].of, nested(i)[j])
  BY <1>1 DEF HasType2, HasFields, Fields
<1>3. PutAll2(w, v) = FlattenSeq(s)
  <2>1. s = [i \in DOMAIN w |-> Put(w[i], v[w[i].name],
          [j \in DOMAIN nested(i) |-> PutAll1(w[i].of, nested(i)[j])])]
    OBVIOUS
  <2>2. QED
    BY <2>1 DEF PutAll2, PutFields
<1>4. ASSUME NEW i \in 1 .. Len(w) PROVE Conveys(get[i], put[i], nested(i))
  <2>1. /\ nested(i) \in Seq(Range(nested(i))) /\ Len(nested(i)) \in Nat
        /\ DOMAIN nested(i) = 1 .. Len(nested(i))
        /\ w[i].kind \notin Nesting => Len(nested(i)) = 0
    BY <1>2, NestedKinds
  <2>2. ASSUME NEW j \in 1 .. Len(nested(i))
        PROVE  /\ put[i][j] \in Buffers
               /\ \A u \in Buffers, o \in Offsets :
                    Reads(get[i][u][o], u, o, put[i][j], nested(i)[j])
    <3>1. Agree(w[i].of, r[i].of) /\ HasType1(w[i].of, nested(i)[j])
      <4>1. w[i].kind \in Nesting
        BY <2>1
      <4>2. QED
        BY <1>1, <1>2, <2>1, <4>1
    <3>2. put[i][j] = PutAll1(w[i].of, nested(i)[j])
      BY <1>1, <2>1
    <3>3. ASSUME NEW u \in Buffers, NEW o \in Offsets PROVE get[i][u][o] = GetAll1(r[i].of, u, o)
      BY <1>1 DEF Buffers, Offsets
    <3> HIDE DEF put, get, nested
    <3>4. /\ PutAll1(w[i].of, nested(i)[j]) \in Buffers
          /\ \A u \in Buffers, o \in Offsets :
                Reads(GetAll1(r[i].of, u, o), u, o, PutAll1(w[i].of, nested(i)[j]), nested(i)[j])
      BY <3>1, LevelReads1
    <3>5. QED
      BY <3>2, <3>3, <3>4
  <2>3. put[i] = [j \in 1 .. Len(nested(i)) |-> put[i][j]]
    BY <1>1, <2>1
  <2> HIDE DEF put, get, nested
  <2>4. QED
    BY <2>1, <2>2, <2>3, ConveysEach
<1>5. FlattenSeq(s) \in Buffers /\ \A b \in Buffers, at \in Offsets :
        Reads(GetAll2(r, b, at), b, at, FlattenSeq(s), v)
  <2> SUFFICES ASSUME NEW b \in Buffers, NEW at \in Offsets
               PROVE  FlattenSeq(s) \in Buffers /\ Reads(GetAll2(r, b, at), b, at, FlattenSeq(s), v)
    <3>1. << >> \in Buffers /\ 1 \in Offsets
      BY DEF Buffers, Offsets
    <3>2. QED
      BY <3>1
  <2> DEFINE reads == [n \in DOMAIN r |-> [i \in Nat |-> Get(r[n], b, i, get[n])]]
  <2>1. reads = [n \in DOMAIN r |-> [i \in Nat |->
                    Get(r[n], b, i, [u \in Seq(Nat) |-> [o \in Nat |-> GetAll1(r[n].of, u, o)]])]]
    OBVIOUS
  <2>2. GetAll2(r, b, at) = AsRecord(r, GetEach(reads, at))
    BY <2>1 DEF GetAll2, GetFields, AsRecord
  <2>3. PutEach(w, v, put, s) /\ ReadEach(r, b, get, reads)
    BY DEF PutEach, ReadEach
  <2> HIDE DEF put, get, s, reads
  <2>4. \A i \in 1 .. Len(w) :
            HasKind(w[i], v[w[i].name]) /\ Conveys(get[i], put[i], Nested(w[i], v[w[i].name]))
    BY <1>2, <1>4
  <2>5. FlattenSeq(s) \in Buffers /\ Reads(AsRecord(r, GetEach(reads, at)), b, at, FlattenSeq(s), v)
    BY <1>2, <2>3, <2>4, LayoutReads
  <2>6. QED
    BY <2>2, <2>5
<1>6. QED
  BY <1>3, <1>5

LEMMA LevelReads3 ==
    ASSUME NEW w, NEW r, Agree(w, r), NEW v, HasType3(w, v)
    PROVE  /\ PutAll3(w, v) \in Buffers
           /\ \A b \in Buffers, at \in Offsets : Reads(GetAll3(r, b, at), b, at, PutAll3(w, v), v)
<1> DEFINE nested(i) == Nested(w[i], v[w[i].name])
           put == [i \in DOMAIN w |-> [j \in DOMAIN nested(i) |-> PutAll2(w[i].of, nested(i)[j])]]
           get == [i \in DOMAIN r |-> [u \in Seq(Nat) |-> [o \in Nat |-> GetAll2(r[i].of, u, o)]]]
           s == [i \in DOMAIN w |-> Put(w[i], v[w[i].name], put[i])]
<1>1. /\ Len(w) \in Nat /\ DOMAIN w = 1 .. Len(w) /\ DOMAIN r = 1 .. Len(w)
      /\ \A i \in 1 .. Len(w) :
            Alike(w[i], r[i]) /\ (w[i].kind \in Nesting => Agree(w[i].of, r[i].of))
  BY AgreeFields
<1>2. /\ Fields(w, v)
      /\ \A i \in 1 .. Len(w) :
            HasKind(w[i], v[w[i].name]) /\ \A j \in DOMAIN nested(i) :
                    HasType2(w[i].of, nested(i)[j])
  BY <1>1 DEF HasType3, HasFields, Fields
<1>3. PutAll3(w, v) = FlattenSeq(s)
  <2>1. s = [i \in DOMAIN w |-> Put(w[i], v[w[i].name],
          [j \in DOMAIN nested(i) |-> PutAll2(w[i].of, nested(i)[j])])]
    OBVIOUS
  <2>2. QED
    BY <2>1 DEF PutAll3, PutFields
<1>4. ASSUME NEW i \in 1 .. Len(w) PROVE Conveys(get[i], put[i], nested(i))
  <2>1. /\ nested(i) \in Seq(Range(nested(i))) /\ Len(nested(i)) \in Nat
        /\ DOMAIN nested(i) = 1 .. Len(nested(i))
        /\ w[i].kind \notin Nesting => Len(nested(i)) = 0
    BY <1>2, NestedKinds
  <2>2. ASSUME NEW j \in 1 .. Len(nested(i))
        PROVE  /\ put[i][j] \in Buffers
               /\ \A u \in Buffers, o \in Offsets :
                    Reads(get[i][u][o], u, o, put[i][j], nested(i)[j])
    <3>1. Agree(w[i].of, r[i].of) /\ HasType2(w[i].of, nested(i)[j])
      <4>1. w[i].kind \in Nesting
        BY <2>1
      <4>2. QED
        BY <1>1, <1>2, <2>1, <4>1
    <3>2. put[i][j] = PutAll2(w[i].of, nested(i)[j])
      BY <1>1, <2>1
    <3>3. ASSUME NEW u \in Buffers, NEW o \in Offsets PROVE get[i][u][o] = GetAll2(r[i].of, u, o)
      BY <1>1 DEF Buffers, Offsets
    <3> HIDE DEF put, get, nested
    <3>4. /\ PutAll2(w[i].of, nested(i)[j]) \in Buffers
          /\ \A u \in Buffers, o \in Offsets :
                Reads(GetAll2(r[i].of, u, o), u, o, PutAll2(w[i].of, nested(i)[j]), nested(i)[j])
      BY <3>1, LevelReads2
    <3>5. QED
      BY <3>2, <3>3, <3>4
  <2>3. put[i] = [j \in 1 .. Len(nested(i)) |-> put[i][j]]
    BY <1>1, <2>1
  <2> HIDE DEF put, get, nested
  <2>4. QED
    BY <2>1, <2>2, <2>3, ConveysEach
<1>5. FlattenSeq(s) \in Buffers /\ \A b \in Buffers, at \in Offsets :
        Reads(GetAll3(r, b, at), b, at, FlattenSeq(s), v)
  <2> SUFFICES ASSUME NEW b \in Buffers, NEW at \in Offsets
               PROVE  FlattenSeq(s) \in Buffers /\ Reads(GetAll3(r, b, at), b, at, FlattenSeq(s), v)
    <3>1. << >> \in Buffers /\ 1 \in Offsets
      BY DEF Buffers, Offsets
    <3>2. QED
      BY <3>1
  <2> DEFINE reads == [n \in DOMAIN r |-> [i \in Nat |-> Get(r[n], b, i, get[n])]]
  <2>1. reads = [n \in DOMAIN r |-> [i \in Nat |->
                    Get(r[n], b, i, [u \in Seq(Nat) |-> [o \in Nat |-> GetAll2(r[n].of, u, o)]])]]
    OBVIOUS
  <2>2. GetAll3(r, b, at) = AsRecord(r, GetEach(reads, at))
    BY <2>1 DEF GetAll3, GetFields, AsRecord
  <2>3. PutEach(w, v, put, s) /\ ReadEach(r, b, get, reads)
    BY DEF PutEach, ReadEach
  <2> HIDE DEF put, get, s, reads
  <2>4. \A i \in 1 .. Len(w) :
            HasKind(w[i], v[w[i].name]) /\ Conveys(get[i], put[i], Nested(w[i], v[w[i].name]))
    BY <1>2, <1>4
  <2>5. FlattenSeq(s) \in Buffers /\ Reads(AsRecord(r, GetEach(reads, at)), b, at, FlattenSeq(s), v)
    BY <1>2, <2>3, <2>4, LayoutReads
  <2>6. QED
    BY <2>2, <2>5
<1>6. QED
  BY <1>3, <1>5

LEMMA MessageReads ==
    ASSUME NEW w, NEW r, Agree(w, r), NEW v, HasType(w, v)
    PROVE  /\ PutAll(w, v) \in Buffers
           /\ \A b \in Buffers, at \in Offsets : Reads(GetAll(r, b, at), b, at, PutAll(w, v), v)
<1> DEFINE nested(i) == Nested(w[i], v[w[i].name])
           put == [i \in DOMAIN w |-> [j \in DOMAIN nested(i) |-> PutAll3(w[i].of, nested(i)[j])]]
           get == [i \in DOMAIN r |-> [u \in Seq(Nat) |-> [o \in Nat |-> GetAll3(r[i].of, u, o)]]]
           s == [i \in DOMAIN w |-> Put(w[i], v[w[i].name], put[i])]
<1>1. /\ Len(w) \in Nat /\ DOMAIN w = 1 .. Len(w) /\ DOMAIN r = 1 .. Len(w)
      /\ \A i \in 1 .. Len(w) :
            Alike(w[i], r[i]) /\ (w[i].kind \in Nesting => Agree(w[i].of, r[i].of))
  BY AgreeFields
<1>2. /\ Fields(w, v)
      /\ \A i \in 1 .. Len(w) :
            HasKind(w[i], v[w[i].name]) /\ \A j \in DOMAIN nested(i) :
                    HasType3(w[i].of, nested(i)[j])
  BY <1>1 DEF HasType, HasFields, Fields
<1>3. PutAll(w, v) = FlattenSeq(s)
  <2>1. s = [i \in DOMAIN w |-> Put(w[i], v[w[i].name],
          [j \in DOMAIN nested(i) |-> PutAll3(w[i].of, nested(i)[j])])]
    OBVIOUS
  <2>2. QED
    BY <2>1 DEF PutAll, PutFields
<1>4. ASSUME NEW i \in 1 .. Len(w) PROVE Conveys(get[i], put[i], nested(i))
  <2>1. /\ nested(i) \in Seq(Range(nested(i))) /\ Len(nested(i)) \in Nat
        /\ DOMAIN nested(i) = 1 .. Len(nested(i))
        /\ w[i].kind \notin Nesting => Len(nested(i)) = 0
    BY <1>2, NestedKinds
  <2>2. ASSUME NEW j \in 1 .. Len(nested(i))
        PROVE  /\ put[i][j] \in Buffers
               /\ \A u \in Buffers, o \in Offsets :
                    Reads(get[i][u][o], u, o, put[i][j], nested(i)[j])
    <3>1. Agree(w[i].of, r[i].of) /\ HasType3(w[i].of, nested(i)[j])
      <4>1. w[i].kind \in Nesting
        BY <2>1
      <4>2. QED
        BY <1>1, <1>2, <2>1, <4>1
    <3>2. put[i][j] = PutAll3(w[i].of, nested(i)[j])
      BY <1>1, <2>1
    <3>3. ASSUME NEW u \in Buffers, NEW o \in Offsets PROVE get[i][u][o] = GetAll3(r[i].of, u, o)
      BY <1>1 DEF Buffers, Offsets
    <3> HIDE DEF put, get, nested
    <3>4. /\ PutAll3(w[i].of, nested(i)[j]) \in Buffers
          /\ \A u \in Buffers, o \in Offsets :
                Reads(GetAll3(r[i].of, u, o), u, o, PutAll3(w[i].of, nested(i)[j]), nested(i)[j])
      BY <3>1, LevelReads3
    <3>5. QED
      BY <3>2, <3>3, <3>4
  <2>3. put[i] = [j \in 1 .. Len(nested(i)) |-> put[i][j]]
    BY <1>1, <2>1
  <2> HIDE DEF put, get, nested
  <2>4. QED
    BY <2>1, <2>2, <2>3, ConveysEach
<1>5. FlattenSeq(s) \in Buffers /\ \A b \in Buffers, at \in Offsets :
        Reads(GetAll(r, b, at), b, at, FlattenSeq(s), v)
  <2> SUFFICES ASSUME NEW b \in Buffers, NEW at \in Offsets
               PROVE  FlattenSeq(s) \in Buffers /\ Reads(GetAll(r, b, at), b, at, FlattenSeq(s), v)
    <3>1. << >> \in Buffers /\ 1 \in Offsets
      BY DEF Buffers, Offsets
    <3>2. QED
      BY <3>1
  <2> DEFINE reads == [n \in DOMAIN r |-> [i \in Nat |-> Get(r[n], b, i, get[n])]]
  <2>1. reads = [n \in DOMAIN r |-> [i \in Nat |->
                    Get(r[n], b, i, [u \in Seq(Nat) |-> [o \in Nat |-> GetAll3(r[n].of, u, o)]])]]
    OBVIOUS
  <2>2. GetAll(r, b, at) = AsRecord(r, GetEach(reads, at))
    BY <2>1 DEF GetAll, GetFields, AsRecord
  <2>3. PutEach(w, v, put, s) /\ ReadEach(r, b, get, reads)
    BY DEF PutEach, ReadEach
  <2> HIDE DEF put, get, s, reads
  <2>4. \A i \in 1 .. Len(w) :
            HasKind(w[i], v[w[i].name]) /\ Conveys(get[i], put[i], Nested(w[i], v[w[i].name]))
    BY <1>2, <1>4
  <2>5. FlattenSeq(s) \in Buffers /\ Reads(AsRecord(r, GetEach(reads, at)), b, at, FlattenSeq(s), v)
    BY <1>2, <2>3, <2>4, LayoutReads
  <2>6. QED
    BY <2>2, <2>5
<1>6. QED
  BY <1>3, <1>5

(***************************************************************************)
(* Acceptance.  A read that finds the units of a value in a buffer no      *)
(* longer than a payload may be succeeds when the value is one the decoder *)
(* demands.                                                                *)
(***************************************************************************)
Accepts(r, b, at, u) == HoldsAt(b, at, u) /\ Len(b) <= MaxPayload => r.ok

\* What a decoder demands of the value of a field.
FitsKind(g, w) ==
    /\ g.kind = "gen" => w # 0
    /\ g.kind = "enum" => w <= g.last
    /\ g.kind = "version" => w = FormatVersion
    /\ g.kind = "id" => w # << >> /\ Len(w) <= MaxName
    /\ g.kind = "optid" => Len(w) <= MaxName
    /\ g.kind = "text" => Len(w) <= MaxText
    /\ g.kind = "opt" => Len(w) <= 1
    /\ g.kind = "ref" => Len(w.id) <= MaxName /\ (w.id # << >> => w.generation # 0)
    /\ g.kind = "list" => Len(w) <= MaxEntries

LEMMA EachAccepts ==
    ASSUME NEW s \in Seq(Buffers), NEW T, NEW vals \in Seq(T), Len(vals) = Len(s),
           NEW reads, Len(reads) = Len(s), NEW b \in Buffers, NEW at \in Offsets,
           \A i \in 1 .. Len(s) : \A o \in Offsets :
                Reads(reads[i][o], b, o, s[i], vals[i]) /\ Accepts(reads[i][o], b, o, s[i])
    PROVE  Accepts(GetEach(reads, at), b, at, FlattenSeq(s))
<1> SUFFICES ASSUME HoldsAt(b, at, FlattenSeq(s)), Len(b) <= MaxPayload
             PROVE  GetEach(reads, at).ok
  BY DEF Accepts
<1> DEFINE t == EachTable(reads, at)
<1>1. PICK p : Pieces(s, p) /\ p[Len(s)] = FlattenSeq(s)
  BY FlattenPieces
<1>2. Len(s) \in Nat /\ \A i \in 1 .. Len(s) : s[i] \in Buffers
  BY DEF Buffers
<1>3. /\ p[0] = << >> /\ \A i \in 0 .. Len(s) : p[i] \in Buffers
      /\ \A i \in 1 .. Len(s) : p[i] = p[i - 1] \o s[i]
  BY <1>1 DEF Pieces
<1>4. GetEach(reads, at) = t[Len(s)]
      /\ \A n \in 0 .. Len(s) : t[n] = EachStep(reads, at, t, n)
  BY <1>2, EachTableDefined
<1>5. \A i \in 1 .. Len(s) : HoldsAt(b, at + Len(p[i - 1]), s[i])
  BY <1>1, HoldsPieces
<1> HIDE DEF t
<1> DEFINE Good == {k \in Nat : k <= Len(s) =>
                        \E values : t[k] = Got(values, at + Len(p[k]))}
<1>6. 0 \in Good
  <2>1. 0 \in 0 .. Len(s) /\ at + Len(p[0]) = at
    BY <1>2, <1>3 DEF Offsets
  <2>2. t[0] = Got(<< >>, at)
    BY <1>4, <2>1 DEF EachStep
  <2>3. QED
    BY <2>1, <2>2
<1>7. ASSUME NEW k \in Nat, k \in Good PROVE k + 1 \in Good
  <2> SUFFICES ASSUME k + 1 <= Len(s)
               PROVE  \E values : t[k + 1] = Got(values, at + Len(p[k + 1]))
    OBVIOUS
  <2>1. k <= Len(s) /\ k + 1 \in 1 .. Len(s) /\ (k + 1) - 1 = k /\ k \in 0 .. Len(s)
        /\ k + 1 \in 0 .. Len(s)
    BY <1>2
  <2>2. PICK values : t[k] = Got(values, at + Len(p[k]))
    BY <1>7, <2>1
  <2> DEFINE o == at + Len(p[k])
  <2>3. p[k + 1] = p[k] \o s[k + 1] /\ p[k] \in Buffers /\ s[k + 1] \in Buffers
    BY <1>2, <1>3, <2>1
  <2>4. Len(p[k + 1]) = Len(p[k]) + Len(s[k + 1]) /\ Len(p[k]) \in Nat /\ Len(s[k + 1]) \in Nat
    BY <2>3 DEF Buffers
  <2>5. o \in Offsets /\ o + Len(s[k + 1]) = at + Len(p[k + 1])
    <3>1. \A x, y \in Nat : at + x \in Offsets /\ (at + x) + y = at + (x + y)
      BY DEF Offsets
    <3>2. o \in Offsets
      BY <2>4, <3>1
    <3>3. o + Len(s[k + 1]) = at + (Len(p[k]) + Len(s[k + 1]))
      BY <2>4, <3>1
    <3>4. QED
      BY <2>4, <3>2, <3>3
  <2>6. HoldsAt(b, o, s[k + 1])
    BY <1>5, <2>1
  <2> HIDE DEF o
  <2>7. reads[k + 1][o] = Got(vals[k + 1], o + Len(s[k + 1]))
    <3>1. reads[k + 1][o].ok
      BY <2>1, <2>5, <2>6 DEF Accepts
    <3>2. reads[k + 1][o] \in {Got(vals[k + 1], o + Len(s[k + 1])), Failed}
      BY <2>1, <2>5, <2>6 DEF Reads
    <3>3. QED
      BY <3>1, <3>2, Outcomes
  <2>8. EachStep(reads, at, t, k + 1) = Got(Append(values, vals[k + 1]), o + Len(s[k + 1]))
    <3>1. t[k] = Got(values, o)
      BY <2>2 DEF o
    <3>2. QED
      BY <2>7, <3>1, EachStepOutcome
  <2>9. QED
    BY <1>4, <2>1, <2>5, <2>8
<1>8. Nat \subseteq Good
  <2> HIDE DEF Good
  <2>1. QED
    BY <1>6, <1>7, NatSetInduction
<1>9. QED
  BY <1>2, <1>4, <1>8, Outcomes

LEMMA RunAccepts ==
    ASSUME NEW u \in Buffers, NEW max \in Nat, NEW b \in Buffers, NEW at \in Offsets,
           HoldsAt(b, at, Prefixed(u)), Len(u) <= max \/ (max = MaxPayload /\ Len(b) <= MaxPayload)
    PROVE  Run(b, at, max) = Got(u, at + Len(Prefixed(u)))
<1>1. Len(u) \in Nat /\ Len(Prefixed(u)) = Len(u) + 1
  BY PrefixedUnits
<1>2. at - 1 + Len(Prefixed(u)) <= Len(b) /\ Len(b) \in Nat /\ at \in Nat /\ at >= 1
  BY DEF HoldsAt, Buffers, Offsets
<1>3. ~(Len(u) > max)
  BY <1>1, <1>2
<1>4. QED
  BY <1>3, RunReads

LEMMA UnitAccepts ==
    ASSUME NEW f, NEW g, f.kind \in Units, g.kind \in Units, NEW v \in Nat, NEW put, NEW get,
           FitsKind(g, v), NEW b \in Buffers, NEW at \in Offsets
    PROVE  Accepts(Get(g, b, at, get), b, at, Put(f, v, put))
<1>1. Put(f, v, put) = <<v>>
  BY UnitField
<1> SUFFICES ASSUME HoldsAt(b, at, <<v>>) PROVE Get(g, b, at, get).ok
  BY <1>1 DEF Accepts
<1>2. Unit(b, at) = Got(v, at + 1)
  BY UnitReads
<1>3. CASE g.kind = "int"
  BY <1>2, <1>3, Outcomes DEF Get
<1>4. CASE g.kind = "gen"
  BY <1>2, <1>4, Outcomes DEF Get, Demand, Then, FitsKind
<1>5. CASE g.kind = "enum"
  BY <1>2, <1>5, Outcomes DEF Get, Demand, Then, FitsKind
<1>6. CASE g.kind = "version"
  BY <1>2, <1>6, Outcomes DEF Get, Demand, Then, FitsKind
<1>7. QED
  BY <1>3, <1>4, <1>5, <1>6 DEF Units

LEMMA RunFieldAccepts ==
    ASSUME NEW f, NEW g, f.kind \in Runs, g.kind \in Runs, NEW v \in Buffers, NEW put, NEW get,
           FitsKind(g, v), NEW b \in Buffers, NEW at \in Offsets
    PROVE  Accepts(Get(g, b, at, get), b, at, Put(f, v, put))
<1>1. Put(f, v, put) = Prefixed(v)
  BY RunField
<1> SUFFICES ASSUME HoldsAt(b, at, Prefixed(v)), Len(b) <= MaxPayload PROVE Get(g, b, at, get).ok
  BY <1>1 DEF Accepts
<1> DEFINE end == at + Len(Prefixed(v))
<1>2. MaxName \in Nat /\ MaxText \in Nat /\ MaxPayload \in Nat /\ 1 \in Nat
  BY CodecAssumption
<1>3. CASE g.kind = "id"
  <2>1. Run(b, at, MaxName) = Got(v, end) /\ v # << >>
    BY <1>2, <1>3, RunAccepts DEF FitsKind
  <2> HIDE DEF end
  <2>2. QED
    BY <1>3, <2>1, Outcomes DEF Get, Demand, Then
<1>4. CASE g.kind = "optid"
  <2>1. Run(b, at, MaxName) = Got(v, end)
    BY <1>2, <1>4, RunAccepts DEF FitsKind
  <2>2. QED
    BY <1>4, <2>1, Outcomes DEF Get
<1>5. CASE g.kind = "text"
  <2>1. Run(b, at, MaxText) = Got(v, end)
    BY <1>2, <1>5, RunAccepts DEF FitsKind
  <2>2. QED
    BY <1>5, <2>1, Outcomes DEF Get
<1>6. CASE g.kind = "longtext"
  <2>1. Run(b, at, MaxPayload) = Got(v, end)
    BY <1>2, <1>6, RunAccepts
  <2>2. QED
    BY <1>6, <2>1, Outcomes DEF Get
<1>7. CASE g.kind = "opt"
  <2>1. Run(b, at, 1) = Got(v, end)
    BY <1>2, <1>7, RunAccepts DEF FitsKind
  <2>2. QED
    BY <1>7, <2>1, Outcomes DEF Get
<1>8. QED
  BY <1>3, <1>4, <1>5, <1>6, <1>7 DEF Runs

LEMMA FlagAccepts ==
    ASSUME NEW f, NEW g, f.kind = "flag", g.kind = "flag", NEW v \in BOOLEAN, NEW put, NEW get,
           NEW b \in Buffers, NEW at \in Offsets
    PROVE  Accepts(Get(g, b, at, get), b, at, Put(f, v, put))
<1> DEFINE x == IF v THEN 1 ELSE 0
<1>1. Put(f, v, put) = <<x>> /\ x \in Nat /\ x <= 1
  BY DEF Put, Units, Runs
<1> HIDE DEF x
<1> SUFFICES ASSUME HoldsAt(b, at, <<x>>) PROVE Get(g, b, at, get).ok
  BY <1>1 DEF Accepts
<1>2. Unit(b, at) = Got(x, at + 1)
  BY <1>1, UnitReads
<1>3. Demand(Unit(b, at), LAMBDA n : n <= 1) = Got(x, at + 1)
  BY <1>1, <1>2, Outcomes DEF Demand, Then
<1>4. Get(g, b, at, get) =
        Then(Demand(Unit(b, at), LAMBDA n : n <= 1), LAMBDA n, next : Got(n = 1, next))
  BY DEF Get
<1>5. QED
  BY <1>3, <1>4, Outcomes DEF Then

LEMMA RefAccepts ==
    ASSUME NEW f, NEW g, f.kind = "ref", g.kind = "ref", NEW v, HasKind(f, v), FitsKind(g, v),
           NEW put, NEW get, NEW b \in Buffers, NEW at \in Offsets
    PROVE  Accepts(Get(g, b, at, get), b, at, Put(f, v, put))
<1> DEFINE u == Prefixed(v.id)
           w == <<v.generation>>
           end == at + Len(u)
<1>1. /\ v.id \in Buffers /\ v.generation \in Nat
      /\ Len(v.id) <= MaxName /\ (v.id # << >> => v.generation # 0)
  BY DEF HasKind, FitsKind, Buffers
<1>2. Put(f, v, put) = u \o w
  BY DEF Put, Units, Runs
<1>3. u \in Buffers /\ w \in Buffers
  BY <1>1, OneUnit, PrefixedUnits
<1>4. end \in Offsets
  BY <1>3 DEF Buffers, Offsets
<1> SUFFICES ASSUME HoldsAt(b, at, u \o w) PROVE Get(g, b, at, get).ok
  BY <1>2 DEF Accepts
<1>5. HoldsAt(b, at, u) /\ HoldsAt(b, end, w)
  BY <1>3, HoldsConcat
<1>6. Run(b, at, MaxName) = Got(v.id, end)
  BY <1>1, <1>5, CodecAssumption, RunAccepts
<1>7. Unit(b, end) = Got(v.generation, end + 1)
  BY <1>1, <1>4, <1>5, UnitReads
<1>8. Get(g, b, at, get) =
        Then(Run(b, at, MaxName), LAMBDA id, i :
        Then(Unit(b, i), LAMBDA generation, next :
            IF id = << >> THEN Got([id |-> id, generation |-> 0], next)
            ELSE IF generation = 0 THEN Failed
            ELSE Got([id |-> id, generation |-> generation], next)))
  BY DEF Get
<1> HIDE DEF u, w, end
<1>9. Get(g, b, at, get) =
        IF v.id = << >> THEN Got([id |-> v.id, generation |-> 0], end + 1)
        ELSE IF v.generation = 0 THEN Failed
        ELSE Got([id |-> v.id, generation |-> v.generation], end + 1)
  BY <1>6, <1>7, <1>8, Outcomes DEF Then
<1>10. QED
  BY <1>1, <1>9, Outcomes

\* get accepts each of the values w as it is put.
Welcomes(get, put, w) ==
    \A j \in 1 .. Len(w) : \A u \in Buffers, o \in Offsets : Accepts(get[u][o], u, o, put[j])

LEMMA WholeAccepts ==
    ASSUME NEW u \in Buffers, NEW v, NEW r, Reads(r, u, 1, u, v), Accepts(r, u, 1, u),
           Len(u) <= MaxPayload
    PROVE  Whole(r, u) = Got(v, Len(u) + 1)
<1>1. r = Got(v, Len(u) + 1)
  BY WholeBuffer, Outcomes DEF Reads, Accepts
<1>2. QED
  BY <1>1, Outcomes DEF Whole, Demand, Then

LEMMA ListAccepts ==
    ASSUME NEW f, NEW g, f.kind = "list", g.kind = "list", NEW v, FitsKind(g, v), NEW put, NEW get,
           Conveys(get, put, v), Welcomes(get, put, v), NEW b \in Buffers, NEW at \in Offsets
    PROVE  Accepts(Get(g, b, at, get), b, at, Put(f, v, put))
<1> DEFINE n == Len(v)
           u == FlattenSeq(put)
           reads == [i \in 1 .. n |-> get[b]]
           r == Get(g, b, at, get)
<1>1. /\ put \in Seq(Buffers) /\ v \in Seq(Range(v)) /\ Len(put) = n /\ n \in Nat
      /\ \A j \in 1 .. n : \A o \in Offsets :
            Reads(get[b][o], b, o, put[j], v[j]) /\ Accepts(get[b][o], b, o, put[j])
  BY DEF Conveys, Welcomes
<1>2. Put(f, v, put) = <<n>> \o u
  BY DEF Put, Units, Runs
<1>3. u \in Buffers /\ <<n>> \in Buffers /\ Len(<<n>>) = 1
  BY <1>1, FlattenPieces, OneUnit
<1>4. at + 1 \in Offsets /\ at \in Nat
  BY DEF Offsets
<1>5. Len(reads) = n /\ \A i \in 1 .. n : reads[i] = get[b]
  BY <1>1
<1>6. r = Then(Demand(Unit(b, at), LAMBDA x : x <= MaxEntries), LAMBDA count, next :
               GetEach([i \in 1 .. count |-> get[b]], next))
  BY DEF Get
<1>7. n <= MaxEntries
  BY DEF FitsKind
<1>8. Unit(b, at) = Got(n, at + 1) => r = GetEach(reads, at + 1)
  BY <1>6, <1>7, Outcomes DEF Demand, Then
<1> HIDE DEF reads, u, n, r
<1>9. Accepts(GetEach(reads, at + 1), b, at + 1, u)
  <2>1. \A j \in 1 .. Len(put) : \A o \in Offsets :
            Reads(reads[j][o], b, o, put[j], v[j]) /\ Accepts(reads[j][o], b, o, put[j])
    BY <1>1, <1>5
  <2>2. QED
    BY <1>1, <1>4, <1>5, <2>1, EachAccepts DEF n, u
<1>10. ASSUME HoldsAt(b, at, <<n>> \o u), Len(b) <= MaxPayload PROVE r.ok
  <2>1. HoldsAt(b, at, <<n>>) /\ HoldsAt(b, at + 1, u)
    BY <1>3, <1>10, HoldsConcat
  <2>2. Unit(b, at) = Got(n, at + 1)
    BY <1>1, <2>1, UnitReads
  <2>3. QED
    BY <1>8, <1>9, <1>10, <2>1, <2>2 DEF Accepts
<1>11. QED
  BY <1>2, <1>10 DEF Accepts, r, n, u

LEMMA BlobAccepts ==
    ASSUME NEW f, NEW g, f.kind = "blob", g.kind = "blob", NEW v, NEW put, NEW get,
           Conveys(get, put, <<v>>), Welcomes(get, put, <<v>>),
           NEW b \in Buffers, NEW at \in Offsets
    PROVE  Accepts(Get(g, b, at, get), b, at, Put(f, v, put))
<1> DEFINE u == put[1]
           r == Get(g, b, at, get)
           end == at + Len(Prefixed(u))
<1>1. /\ Len(<<v>>) = 1 /\ <<v>>[1] = v /\ u \in Buffers
      /\ \A o \in Offsets : Reads(get[u][o], u, o, u, v) /\ Accepts(get[u][o], u, o, u)
  BY DEF Conveys, Welcomes
<1>2. Put(f, v, put) = Prefixed(u)
  BY DEF Put, Units, Runs
<1>3. r = Then(Run(b, at, MaxPayload), LAMBDA units, next :
          Then(Whole(get[units][1], units), LAMBDA x, after : Got(x, next)))
  BY DEF Get
<1> HIDE DEF u, r, end
<1> SUFFICES ASSUME HoldsAt(b, at, Prefixed(u)), Len(b) <= MaxPayload PROVE r.ok
  BY <1>2 DEF Accepts, r
<1>4. Run(b, at, MaxPayload) = Got(u, end)
  BY <1>1, CodecAssumption, RunAccepts DEF end
<1>5. Len(u) <= MaxPayload
  <2>1. Len(Prefixed(u)) = Len(u) + 1 /\ Len(u) \in Nat
    BY <1>1, PrefixedUnits
  <2>2. QED
    BY <2>1, CodecAssumption DEF HoldsAt, Buffers, Offsets
<1>6. Whole(get[u][1], u) = Got(v, Len(u) + 1)
  BY <1>1, <1>5, WholeBuffer, WholeAccepts
<1>7. QED
  BY <1>3, <1>4, <1>6, Outcomes DEF Then

LEMMA OptBlobAccepts ==
    ASSUME NEW f, NEW g, f.kind = "optblob", g.kind = "optblob", NEW v, Len(v) <= 1,
           NEW put, NEW get, Conveys(get, put, v), Welcomes(get, put, v),
           NEW b \in Buffers, NEW at \in Offsets
    PROVE  Accepts(Get(g, b, at, get), b, at, Put(f, v, put))
<1> DEFINE n == Len(v)
           u == FlattenSeq(put)
           r == Get(g, b, at, get)
           end == (at + 1) + Len(Prefixed(u))
<1>1. put \in Seq(Buffers) /\ v \in Seq(Range(v)) /\ Len(put) = n /\ n \in {0, 1}
  BY DEF Conveys
<1>2. Put(f, v, put) = <<n>> \o Prefixed(u)
  BY DEF Put, Units, Runs
<1>3. u \in Buffers /\ Prefixed(u) \in Buffers /\ <<n>> \in Buffers /\ Len(<<n>>) = 1
  BY <1>1, FlattenPieces, OneUnit, PrefixedUnits
<1>4. at + 1 \in Offsets /\ at \in Nat
  BY DEF Offsets
<1>5. r = Then(Demand(Unit(b, at), LAMBDA x : x <= 1), LAMBDA has, i :
          Then(Run(b, i, MaxPayload), LAMBDA units, next :
                IF has = 0 THEN Got(<< >>, next)
                ELSE Then(Whole(get[units][1], units), LAMBDA x, after : Got(<<x>>, next))))
  BY DEF Get
<1> HIDE DEF r, end
<1> SUFFICES ASSUME HoldsAt(b, at, <<n>> \o Prefixed(u)), Len(b) <= MaxPayload PROVE r.ok
  BY <1>2 DEF Accepts, r
<1>6. HoldsAt(b, at, <<n>>) /\ HoldsAt(b, at + 1, Prefixed(u))
  BY <1>3, HoldsConcat
<1>7. Unit(b, at) = Got(n, at + 1)
  BY <1>1, <1>6, UnitReads
<1>8. Run(b, at + 1, MaxPayload) = Got(u, end)
  BY <1>3, <1>4, <1>6, CodecAssumption, RunAccepts DEF end
<1>9. Demand(Unit(b, at), LAMBDA x : x <= 1) = Got(n, at + 1)
  BY <1>1, <1>7, Outcomes DEF Demand, Then
<1>10. r = IF n = 0 THEN Got(<< >>, end)
           ELSE Then(Whole(get[u][1], u), LAMBDA x, after : Got(<<x>>, end))
  BY <1>5, <1>8, <1>9, Outcomes DEF Then
<1>11. n = 1 => Whole(get[u][1], u) = Got(v[1], Len(u) + 1)
  <2> SUFFICES ASSUME n = 1 PROVE Whole(get[u][1], u) = Got(v[1], Len(u) + 1)
    OBVIOUS
  <2>1. u = put[1]
    BY <1>1, FlattenFew
  <2>2. Reads(get[u][1], u, 1, u, v[1]) /\ Accepts(get[u][1], u, 1, u)
    BY <1>1, <1>3, <2>1, WholeBuffer DEF Conveys, Welcomes
  <2>3. Len(u) <= MaxPayload
    <3>1. Len(Prefixed(u)) = Len(u) + 1 /\ Len(u) \in Nat
      BY <1>3, PrefixedUnits
    <3>2. QED
      BY <1>4, <1>6, <3>1, CodecAssumption DEF HoldsAt, Buffers, Offsets
  <2>4. QED
    BY <1>3, <2>2, <2>3, WholeAccepts
<1>12. QED
  BY <1>1, <1>10, <1>11, Outcomes DEF Then

\* A field whose value is what the decoder demands is accepted.
LEMMA FieldAccepts ==
    ASSUME NEW f, NEW g, Alike(f, g), NEW v, HasKind(f, v), FitsKind(g, v), NEW put, NEW get,
           Conveys(get, put, Nested(f, v)), Welcomes(get, put, Nested(f, v)),
           NEW b \in Buffers, NEW at \in Offsets
    PROVE  Accepts(Get(g, b, at, get), b, at, Put(f, v, put))
<1>1. CASE f.kind \in Units /\ g.kind \in Units
  <2>1. v \in Nat
    BY <1>1 DEF HasKind
  <2>2. QED
    BY <1>1, <2>1, UnitAccepts
<1>2. CASE f.kind \in Runs /\ g.kind \in Runs
  <2>1. v \in Buffers
    BY <1>2 DEF HasKind, Buffers
  <2>2. QED
    BY <1>2, <2>1, RunFieldAccepts
<1>3. CASE f.kind = g.kind /\ f.kind = "flag"
  BY <1>3, FlagAccepts DEF HasKind
<1>4. CASE f.kind = g.kind /\ f.kind = "ref"
  BY <1>4, RefAccepts
<1>5. CASE f.kind = g.kind /\ f.kind = "part"
  <2>1. Nested(f, v) = <<v>>
    BY <1>5 DEF Nested
  <2>2. Put(f, v, put) = put[1] /\ Get(g, b, at, get) = get[b][at]
    BY <1>5 DEF Put, Get, Units, Runs
  <2>3. Len(<<v>>) = 1
    OBVIOUS
  <2>4. Accepts(get[b][at], b, at, put[1])
    BY <2>1, <2>3 DEF Welcomes
  <2>5. QED
    BY <2>2, <2>4
<1>6. CASE f.kind = g.kind /\ f.kind = "list"
  <2>1. Nested(f, v) = v
    BY <1>6 DEF Nested
  <2>2. QED
    BY <1>6, <2>1, ListAccepts
<1>7. CASE f.kind = g.kind /\ f.kind = "blob"
  <2>1. Nested(f, v) = <<v>>
    BY <1>7 DEF Nested
  <2>2. QED
    BY <1>7, <2>1, BlobAccepts
<1>8. CASE f.kind = g.kind /\ f.kind = "optblob"
  <2>1. Nested(f, v) = v /\ Len(v) <= 1
    BY <1>8 DEF Nested, HasKind
  <2>2. QED
    BY <1>8, <2>1, OptBlobAccepts
<1>9. QED
  BY <1>1, <1>2, <1>3, <1>4, <1>5, <1>6, <1>7, <1>8 DEF Alike, Nesting

\* What a decoder demands of what it reads: layouts nested four deep at most.
FitsFields(layout, v, FitsInner(_, _)) ==
    \A i \in DOMAIN layout :
        LET f == layout[i]
            nested == Nested(f, v[f.name])
        IN  FitsKind(f, v[f.name]) /\ \A j \in DOMAIN nested : FitsInner(f.of, nested[j])
Fits0(layout, v) == FitsFields(layout, v, LAMBDA of, w : FALSE)
Fits1(layout, v) == FitsFields(layout, v, Fits0)
Fits2(layout, v) == FitsFields(layout, v, Fits1)
Fits3(layout, v) == FitsFields(layout, v, Fits2)
Fits(layout, v) == FitsFields(layout, v, Fits3)

LEMMA AlikeNested ==
    ASSUME NEW f, NEW g, Alike(f, g), NEW v
    PROVE  f.name = g.name /\ Nested(f, v) = Nested(g, v)
  BY DEF Alike, Nested, Nesting, Units, Runs

LEMMA LayoutAccepts ==
    ASSUME NEW w, NEW r, Agree(w, r), NEW v, NEW put, NEW get,
           Fields(w, v),
           \A i \in 1 .. Len(w) :
                /\ HasKind(w[i], v[w[i].name])
                /\ FitsKind(r[i], v[w[i].name])
                /\ Conveys(get[i], put[i], Nested(w[i], v[w[i].name]))
                /\ Welcomes(get[i], put[i], Nested(w[i], v[w[i].name])),
           NEW s, PutEach(w, v, put, s), NEW b \in Buffers, NEW at \in Offsets,
           NEW reads, ReadEach(r, b, get, reads)
    PROVE  Accepts(AsRecord(r, GetEach(reads, at)), b, at, FlattenSeq(s))
<1> DEFINE vals == [i \in 1 .. Len(w) |-> v[w[i].name]]
           T == {v[w[i].name] : i \in 1 .. Len(w)}
           q == GetEach(reads, at)
<1>1. /\ w \in Seq(Range(w)) /\ r \in Seq(Range(r)) /\ Len(w) = Len(r) /\ Len(w) \in Nat
      /\ \A i \in 1 .. Len(w) : Alike(w[i], r[i])
  BY AgreeFields
<1>2. DOMAIN w = 1 .. Len(w) /\ DOMAIN r = 1 .. Len(w)
  BY <1>1
<1>3. \A i \in 1 .. Len(w) : s[i] \in Buffers
  BY <1>1, <1>2, FieldReads DEF PutEach
<1>4. s \in Seq(Buffers) /\ Len(s) = Len(w)
  <2>1. \A n \in Nat : \A x \in [1 .. n -> Buffers] : x \in Seq(Buffers) /\ Len(x) = n
    OBVIOUS
  <2>2. s \in [1 .. Len(w) -> Buffers]
    BY <1>2, <1>3 DEF PutEach
  <2>3. QED
    BY <1>1, <2>1, <2>2
<1>5. vals \in Seq(T) /\ Len(vals) = Len(w)
  BY <1>1
<1>6. Len(reads) = Len(w) /\ \A i \in 1 .. Len(w) : \A o \in Offsets :
        reads[i][o] = Get(r[i], b, o, get[i])
  BY <1>1, <1>2 DEF Offsets, ReadEach
<1>7. \A i \in 1 .. Len(w) : \A o \in Offsets :
        Reads(reads[i][o], b, o, s[i], vals[i]) /\ Accepts(reads[i][o], b, o, s[i])
  <2> TAKE i \in 1 .. Len(w)
  <2> TAKE o \in Offsets
  <2>1. reads[i][o] = Get(r[i], b, o, get[i]) /\ vals[i] = v[w[i].name]
        /\ s[i] = Put(w[i], v[w[i].name], put[i])
    BY <1>2, <1>6 DEF PutEach
  <2>2. Reads(Get(r[i], b, o, get[i]), b, o, Put(w[i], v[w[i].name], put[i]), v[w[i].name])
    BY <1>1, FieldReads
  <2>3. Accepts(Get(r[i], b, o, get[i]), b, o, Put(w[i], v[w[i].name], put[i]))
    BY <1>1, FieldAccepts
  <2>4. QED
    BY <2>1, <2>2, <2>3
<1> HIDE DEF vals, T
<1>8. Accepts(q, b, at, FlattenSeq(s))
  BY <1>4, <1>5, <1>6, <1>7, EachAccepts
<1> HIDE DEF q
<1>9. q.ok => AsRecord(r, q).ok
  BY Outcomes DEF AsRecord, Then
<1>10. QED
  BY <1>8, <1>9 DEF Accepts, q

LEMMA LevelAccepts0 ==
    ASSUME NEW w, NEW r, Agree(w, r), NEW v, HasType0(w, v), Fits0(r, v)
    PROVE  \A b \in Buffers, at \in Offsets : Accepts(GetAll0(r, b, at), b, at, PutAll0(w, v))
<1> DEFINE nested(i) == Nested(w[i], v[w[i].name])
           put == [i \in DOMAIN w |-> [j \in DOMAIN nested(i) |-> << >>]]
           get == [i \in DOMAIN r |-> [u \in Seq(Nat) |-> [o \in Nat |-> Failed]]]
           s == [i \in DOMAIN w |-> Put(w[i], v[w[i].name], put[i])]
<1>1. /\ Len(w) \in Nat /\ DOMAIN w = 1 .. Len(w) /\ DOMAIN r = 1 .. Len(w)
      /\ \A i \in 1 .. Len(w) :
            Alike(w[i], r[i]) /\ (w[i].kind \in Nesting => Agree(w[i].of, r[i].of))
  BY AgreeFields
<1>2. /\ Fields(w, v)
      /\ \A i \in 1 .. Len(w) :
            /\ HasKind(w[i], v[w[i].name]) /\ FitsKind(r[i], v[w[i].name])
            /\ \A j \in DOMAIN nested(i) :
                    FALSE
  <2>1. \A i \in 1 .. Len(w) :
            r[i].name = w[i].name /\ Nested(r[i], v[w[i].name]) = nested(i)
    BY <1>1, AlikeNested
  <2>2. \A i \in 1 .. Len(w) :
            /\ FitsKind(r[i], v[w[i].name])
            /\ \A j \in DOMAIN nested(i) : FALSE
    BY <1>1, <2>1 DEF Fits0, FitsFields
  <2>3. QED
    BY <1>1, <2>2 DEF HasType0, HasFields, Fields
<1>3. PutAll0(w, v) = FlattenSeq(s)
  <2>1. s = [i \in DOMAIN w |-> Put(w[i], v[w[i].name],
          [j \in DOMAIN nested(i) |-> << >>])]
    OBVIOUS
  <2>2. QED
    BY <2>1 DEF PutAll0, PutFields
<1>4. ASSUME NEW i \in 1 .. Len(w)
      PROVE  Conveys(get[i], put[i], nested(i)) /\ Welcomes(get[i], put[i], nested(i))
  <2>1. /\ nested(i) \in Seq(Range(nested(i))) /\ Len(nested(i)) \in Nat
        /\ DOMAIN nested(i) = 1 .. Len(nested(i))
        /\ w[i].kind \notin Nesting => Len(nested(i)) = 0
    BY <1>2, NestedKinds
  <2>2. \A j \in 1 .. Len(nested(i)) : FALSE
    BY <1>2, <2>1
  <2>3. put[i] = [j \in 1 .. Len(nested(i)) |-> put[i][j]]
    BY <1>1, <2>1
  <2> HIDE DEF put, get, nested
  <2>4. Conveys(get[i], put[i], nested(i))
    BY <2>1, <2>2, <2>3, ConveysEach
  <2>5. QED
    BY <2>2, <2>4 DEF Welcomes
<1>5. ASSUME NEW b \in Buffers, NEW at \in Offsets
      PROVE  Accepts(GetAll0(r, b, at), b, at, FlattenSeq(s))
  <2> DEFINE reads == [n \in DOMAIN r |-> [i \in Nat |-> Get(r[n], b, i, get[n])]]
  <2>1. reads = [n \in DOMAIN r |-> [i \in Nat |->
                    Get(r[n], b, i, [u \in Seq(Nat) |-> [o \in Nat |-> Failed]])]]
    OBVIOUS
  <2>2. GetAll0(r, b, at) = AsRecord(r, GetEach(reads, at))
    BY <2>1 DEF GetAll0, GetFields, AsRecord
  <2>3. PutEach(w, v, put, s) /\ ReadEach(r, b, get, reads)
    BY DEF PutEach, ReadEach
  <2> HIDE DEF put, get, s, reads
  <2>4. \A i \in 1 .. Len(w) :
            /\ HasKind(w[i], v[w[i].name]) /\ FitsKind(r[i], v[w[i].name])
            /\ Conveys(get[i], put[i], Nested(w[i], v[w[i].name]))
            /\ Welcomes(get[i], put[i], Nested(w[i], v[w[i].name]))
    BY <1>2, <1>4
  <2>5. Accepts(AsRecord(r, GetEach(reads, at)), b, at, FlattenSeq(s))
    BY <1>2, <2>3, <2>4, LayoutAccepts
  <2>6. QED
    BY <2>2, <2>5
<1>6. QED
  BY <1>3, <1>5

LEMMA LevelAccepts1 ==
    ASSUME NEW w, NEW r, Agree(w, r), NEW v, HasType1(w, v), Fits1(r, v)
    PROVE  \A b \in Buffers, at \in Offsets : Accepts(GetAll1(r, b, at), b, at, PutAll1(w, v))
<1> DEFINE nested(i) == Nested(w[i], v[w[i].name])
           put == [i \in DOMAIN w |-> [j \in DOMAIN nested(i) |-> PutAll0(w[i].of, nested(i)[j])]]
           get == [i \in DOMAIN r |-> [u \in Seq(Nat) |-> [o \in Nat |-> GetAll0(r[i].of, u, o)]]]
           s == [i \in DOMAIN w |-> Put(w[i], v[w[i].name], put[i])]
<1>1. /\ Len(w) \in Nat /\ DOMAIN w = 1 .. Len(w) /\ DOMAIN r = 1 .. Len(w)
      /\ \A i \in 1 .. Len(w) :
            Alike(w[i], r[i]) /\ (w[i].kind \in Nesting => Agree(w[i].of, r[i].of))
  BY AgreeFields
<1>2. /\ Fields(w, v)
      /\ \A i \in 1 .. Len(w) :
            /\ HasKind(w[i], v[w[i].name]) /\ FitsKind(r[i], v[w[i].name])
            /\ \A j \in DOMAIN nested(i) :
                    HasType0(w[i].of, nested(i)[j]) /\ Fits0(r[i].of, nested(i)[j])
  <2>1. \A i \in 1 .. Len(w) :
            r[i].name = w[i].name /\ Nested(r[i], v[w[i].name]) = nested(i)
    BY <1>1, AlikeNested
  <2>2. \A i \in 1 .. Len(w) :
            /\ FitsKind(r[i], v[w[i].name])
            /\ \A j \in DOMAIN nested(i) : Fits0(r[i].of, nested(i)[j])
    BY <1>1, <2>1 DEF Fits1, FitsFields
  <2>3. QED
    BY <1>1, <2>2 DEF HasType1, HasFields, Fields
<1>3. PutAll1(w, v) = FlattenSeq(s)
  <2>1. s = [i \in DOMAIN w |-> Put(w[i], v[w[i].name],
          [j \in DOMAIN nested(i) |-> PutAll0(w[i].of, nested(i)[j])])]
    OBVIOUS
  <2>2. QED
    BY <2>1 DEF PutAll1, PutFields
<1>4. ASSUME NEW i \in 1 .. Len(w)
      PROVE  Conveys(get[i], put[i], nested(i)) /\ Welcomes(get[i], put[i], nested(i))
  <2>1. /\ nested(i) \in Seq(Range(nested(i))) /\ Len(nested(i)) \in Nat
        /\ DOMAIN nested(i) = 1 .. Len(nested(i))
        /\ w[i].kind \notin Nesting => Len(nested(i)) = 0
    BY <1>2, NestedKinds
  <2>2. ASSUME NEW j \in 1 .. Len(nested(i))
        PROVE  /\ put[i][j] \in Buffers
               /\ \A u \in Buffers, o \in Offsets :
                    /\ Reads(get[i][u][o], u, o, put[i][j], nested(i)[j])
                    /\ Accepts(get[i][u][o], u, o, put[i][j])
    <3>1. /\ Agree(w[i].of, r[i].of)
          /\ HasType0(w[i].of, nested(i)[j]) /\ Fits0(r[i].of, nested(i)[j])
      <4>1. w[i].kind \in Nesting
        BY <2>1
      <4>2. QED
        BY <1>1, <1>2, <2>1, <4>1
    <3>2. put[i][j] = PutAll0(w[i].of, nested(i)[j])
      BY <1>1, <2>1
    <3>3. ASSUME NEW u \in Buffers, NEW o \in Offsets PROVE get[i][u][o] = GetAll0(r[i].of, u, o)
      BY <1>1 DEF Buffers, Offsets
    <3> HIDE DEF put, get, nested
    <3>4. /\ PutAll0(w[i].of, nested(i)[j]) \in Buffers
          /\ \A u \in Buffers, o \in Offsets :
                Reads(GetAll0(r[i].of, u, o), u, o, PutAll0(w[i].of, nested(i)[j]), nested(i)[j])
      BY <3>1, LevelReads0
    <3>5. \A u \in Buffers, o \in Offsets :
                Accepts(GetAll0(r[i].of, u, o), u, o, PutAll0(w[i].of, nested(i)[j]))
      BY <3>1, LevelAccepts0
    <3>6. QED
      BY <3>2, <3>3, <3>4, <3>5
  <2>3. put[i] = [j \in 1 .. Len(nested(i)) |-> put[i][j]]
    BY <1>1, <2>1
  <2> HIDE DEF put, get, nested
  <2>4. Conveys(get[i], put[i], nested(i))
    BY <2>1, <2>2, <2>3, ConveysEach
  <2>5. QED
    BY <2>2, <2>4 DEF Welcomes
<1>5. ASSUME NEW b \in Buffers, NEW at \in Offsets
      PROVE  Accepts(GetAll1(r, b, at), b, at, FlattenSeq(s))
  <2> DEFINE reads == [n \in DOMAIN r |-> [i \in Nat |-> Get(r[n], b, i, get[n])]]
  <2>1. reads = [n \in DOMAIN r |-> [i \in Nat |->
                    Get(r[n], b, i, [u \in Seq(Nat) |-> [o \in Nat |-> GetAll0(r[n].of, u, o)]])]]
    OBVIOUS
  <2>2. GetAll1(r, b, at) = AsRecord(r, GetEach(reads, at))
    BY <2>1 DEF GetAll1, GetFields, AsRecord
  <2>3. PutEach(w, v, put, s) /\ ReadEach(r, b, get, reads)
    BY DEF PutEach, ReadEach
  <2> HIDE DEF put, get, s, reads
  <2>4. \A i \in 1 .. Len(w) :
            /\ HasKind(w[i], v[w[i].name]) /\ FitsKind(r[i], v[w[i].name])
            /\ Conveys(get[i], put[i], Nested(w[i], v[w[i].name]))
            /\ Welcomes(get[i], put[i], Nested(w[i], v[w[i].name]))
    BY <1>2, <1>4
  <2>5. Accepts(AsRecord(r, GetEach(reads, at)), b, at, FlattenSeq(s))
    BY <1>2, <2>3, <2>4, LayoutAccepts
  <2>6. QED
    BY <2>2, <2>5
<1>6. QED
  BY <1>3, <1>5

LEMMA LevelAccepts2 ==
    ASSUME NEW w, NEW r, Agree(w, r), NEW v, HasType2(w, v), Fits2(r, v)
    PROVE  \A b \in Buffers, at \in Offsets : Accepts(GetAll2(r, b, at), b, at, PutAll2(w, v))
<1> DEFINE nested(i) == Nested(w[i], v[w[i].name])
           put == [i \in DOMAIN w |-> [j \in DOMAIN nested(i) |-> PutAll1(w[i].of, nested(i)[j])]]
           get == [i \in DOMAIN r |-> [u \in Seq(Nat) |-> [o \in Nat |-> GetAll1(r[i].of, u, o)]]]
           s == [i \in DOMAIN w |-> Put(w[i], v[w[i].name], put[i])]
<1>1. /\ Len(w) \in Nat /\ DOMAIN w = 1 .. Len(w) /\ DOMAIN r = 1 .. Len(w)
      /\ \A i \in 1 .. Len(w) :
            Alike(w[i], r[i]) /\ (w[i].kind \in Nesting => Agree(w[i].of, r[i].of))
  BY AgreeFields
<1>2. /\ Fields(w, v)
      /\ \A i \in 1 .. Len(w) :
            /\ HasKind(w[i], v[w[i].name]) /\ FitsKind(r[i], v[w[i].name])
            /\ \A j \in DOMAIN nested(i) :
                    HasType1(w[i].of, nested(i)[j]) /\ Fits1(r[i].of, nested(i)[j])
  <2>1. \A i \in 1 .. Len(w) :
            r[i].name = w[i].name /\ Nested(r[i], v[w[i].name]) = nested(i)
    BY <1>1, AlikeNested
  <2>2. \A i \in 1 .. Len(w) :
            /\ FitsKind(r[i], v[w[i].name])
            /\ \A j \in DOMAIN nested(i) : Fits1(r[i].of, nested(i)[j])
    BY <1>1, <2>1 DEF Fits2, FitsFields
  <2>3. QED
    BY <1>1, <2>2 DEF HasType2, HasFields, Fields
<1>3. PutAll2(w, v) = FlattenSeq(s)
  <2>1. s = [i \in DOMAIN w |-> Put(w[i], v[w[i].name],
          [j \in DOMAIN nested(i) |-> PutAll1(w[i].of, nested(i)[j])])]
    OBVIOUS
  <2>2. QED
    BY <2>1 DEF PutAll2, PutFields
<1>4. ASSUME NEW i \in 1 .. Len(w)
      PROVE  Conveys(get[i], put[i], nested(i)) /\ Welcomes(get[i], put[i], nested(i))
  <2>1. /\ nested(i) \in Seq(Range(nested(i))) /\ Len(nested(i)) \in Nat
        /\ DOMAIN nested(i) = 1 .. Len(nested(i))
        /\ w[i].kind \notin Nesting => Len(nested(i)) = 0
    BY <1>2, NestedKinds
  <2>2. ASSUME NEW j \in 1 .. Len(nested(i))
        PROVE  /\ put[i][j] \in Buffers
               /\ \A u \in Buffers, o \in Offsets :
                    /\ Reads(get[i][u][o], u, o, put[i][j], nested(i)[j])
                    /\ Accepts(get[i][u][o], u, o, put[i][j])
    <3>1. /\ Agree(w[i].of, r[i].of)
          /\ HasType1(w[i].of, nested(i)[j]) /\ Fits1(r[i].of, nested(i)[j])
      <4>1. w[i].kind \in Nesting
        BY <2>1
      <4>2. QED
        BY <1>1, <1>2, <2>1, <4>1
    <3>2. put[i][j] = PutAll1(w[i].of, nested(i)[j])
      BY <1>1, <2>1
    <3>3. ASSUME NEW u \in Buffers, NEW o \in Offsets PROVE get[i][u][o] = GetAll1(r[i].of, u, o)
      BY <1>1 DEF Buffers, Offsets
    <3> HIDE DEF put, get, nested
    <3>4. /\ PutAll1(w[i].of, nested(i)[j]) \in Buffers
          /\ \A u \in Buffers, o \in Offsets :
                Reads(GetAll1(r[i].of, u, o), u, o, PutAll1(w[i].of, nested(i)[j]), nested(i)[j])
      BY <3>1, LevelReads1
    <3>5. \A u \in Buffers, o \in Offsets :
                Accepts(GetAll1(r[i].of, u, o), u, o, PutAll1(w[i].of, nested(i)[j]))
      BY <3>1, LevelAccepts1
    <3>6. QED
      BY <3>2, <3>3, <3>4, <3>5
  <2>3. put[i] = [j \in 1 .. Len(nested(i)) |-> put[i][j]]
    BY <1>1, <2>1
  <2> HIDE DEF put, get, nested
  <2>4. Conveys(get[i], put[i], nested(i))
    BY <2>1, <2>2, <2>3, ConveysEach
  <2>5. QED
    BY <2>2, <2>4 DEF Welcomes
<1>5. ASSUME NEW b \in Buffers, NEW at \in Offsets
      PROVE  Accepts(GetAll2(r, b, at), b, at, FlattenSeq(s))
  <2> DEFINE reads == [n \in DOMAIN r |-> [i \in Nat |-> Get(r[n], b, i, get[n])]]
  <2>1. reads = [n \in DOMAIN r |-> [i \in Nat |->
                    Get(r[n], b, i, [u \in Seq(Nat) |-> [o \in Nat |-> GetAll1(r[n].of, u, o)]])]]
    OBVIOUS
  <2>2. GetAll2(r, b, at) = AsRecord(r, GetEach(reads, at))
    BY <2>1 DEF GetAll2, GetFields, AsRecord
  <2>3. PutEach(w, v, put, s) /\ ReadEach(r, b, get, reads)
    BY DEF PutEach, ReadEach
  <2> HIDE DEF put, get, s, reads
  <2>4. \A i \in 1 .. Len(w) :
            /\ HasKind(w[i], v[w[i].name]) /\ FitsKind(r[i], v[w[i].name])
            /\ Conveys(get[i], put[i], Nested(w[i], v[w[i].name]))
            /\ Welcomes(get[i], put[i], Nested(w[i], v[w[i].name]))
    BY <1>2, <1>4
  <2>5. Accepts(AsRecord(r, GetEach(reads, at)), b, at, FlattenSeq(s))
    BY <1>2, <2>3, <2>4, LayoutAccepts
  <2>6. QED
    BY <2>2, <2>5
<1>6. QED
  BY <1>3, <1>5

LEMMA LevelAccepts3 ==
    ASSUME NEW w, NEW r, Agree(w, r), NEW v, HasType3(w, v), Fits3(r, v)
    PROVE  \A b \in Buffers, at \in Offsets : Accepts(GetAll3(r, b, at), b, at, PutAll3(w, v))
<1> DEFINE nested(i) == Nested(w[i], v[w[i].name])
           put == [i \in DOMAIN w |-> [j \in DOMAIN nested(i) |-> PutAll2(w[i].of, nested(i)[j])]]
           get == [i \in DOMAIN r |-> [u \in Seq(Nat) |-> [o \in Nat |-> GetAll2(r[i].of, u, o)]]]
           s == [i \in DOMAIN w |-> Put(w[i], v[w[i].name], put[i])]
<1>1. /\ Len(w) \in Nat /\ DOMAIN w = 1 .. Len(w) /\ DOMAIN r = 1 .. Len(w)
      /\ \A i \in 1 .. Len(w) :
            Alike(w[i], r[i]) /\ (w[i].kind \in Nesting => Agree(w[i].of, r[i].of))
  BY AgreeFields
<1>2. /\ Fields(w, v)
      /\ \A i \in 1 .. Len(w) :
            /\ HasKind(w[i], v[w[i].name]) /\ FitsKind(r[i], v[w[i].name])
            /\ \A j \in DOMAIN nested(i) :
                    HasType2(w[i].of, nested(i)[j]) /\ Fits2(r[i].of, nested(i)[j])
  <2>1. \A i \in 1 .. Len(w) :
            r[i].name = w[i].name /\ Nested(r[i], v[w[i].name]) = nested(i)
    BY <1>1, AlikeNested
  <2>2. \A i \in 1 .. Len(w) :
            /\ FitsKind(r[i], v[w[i].name])
            /\ \A j \in DOMAIN nested(i) : Fits2(r[i].of, nested(i)[j])
    BY <1>1, <2>1 DEF Fits3, FitsFields
  <2>3. QED
    BY <1>1, <2>2 DEF HasType3, HasFields, Fields
<1>3. PutAll3(w, v) = FlattenSeq(s)
  <2>1. s = [i \in DOMAIN w |-> Put(w[i], v[w[i].name],
          [j \in DOMAIN nested(i) |-> PutAll2(w[i].of, nested(i)[j])])]
    OBVIOUS
  <2>2. QED
    BY <2>1 DEF PutAll3, PutFields
<1>4. ASSUME NEW i \in 1 .. Len(w)
      PROVE  Conveys(get[i], put[i], nested(i)) /\ Welcomes(get[i], put[i], nested(i))
  <2>1. /\ nested(i) \in Seq(Range(nested(i))) /\ Len(nested(i)) \in Nat
        /\ DOMAIN nested(i) = 1 .. Len(nested(i))
        /\ w[i].kind \notin Nesting => Len(nested(i)) = 0
    BY <1>2, NestedKinds
  <2>2. ASSUME NEW j \in 1 .. Len(nested(i))
        PROVE  /\ put[i][j] \in Buffers
               /\ \A u \in Buffers, o \in Offsets :
                    /\ Reads(get[i][u][o], u, o, put[i][j], nested(i)[j])
                    /\ Accepts(get[i][u][o], u, o, put[i][j])
    <3>1. /\ Agree(w[i].of, r[i].of)
          /\ HasType2(w[i].of, nested(i)[j]) /\ Fits2(r[i].of, nested(i)[j])
      <4>1. w[i].kind \in Nesting
        BY <2>1
      <4>2. QED
        BY <1>1, <1>2, <2>1, <4>1
    <3>2. put[i][j] = PutAll2(w[i].of, nested(i)[j])
      BY <1>1, <2>1
    <3>3. ASSUME NEW u \in Buffers, NEW o \in Offsets PROVE get[i][u][o] = GetAll2(r[i].of, u, o)
      BY <1>1 DEF Buffers, Offsets
    <3> HIDE DEF put, get, nested
    <3>4. /\ PutAll2(w[i].of, nested(i)[j]) \in Buffers
          /\ \A u \in Buffers, o \in Offsets :
                Reads(GetAll2(r[i].of, u, o), u, o, PutAll2(w[i].of, nested(i)[j]), nested(i)[j])
      BY <3>1, LevelReads2
    <3>5. \A u \in Buffers, o \in Offsets :
                Accepts(GetAll2(r[i].of, u, o), u, o, PutAll2(w[i].of, nested(i)[j]))
      BY <3>1, LevelAccepts2
    <3>6. QED
      BY <3>2, <3>3, <3>4, <3>5
  <2>3. put[i] = [j \in 1 .. Len(nested(i)) |-> put[i][j]]
    BY <1>1, <2>1
  <2> HIDE DEF put, get, nested
  <2>4. Conveys(get[i], put[i], nested(i))
    BY <2>1, <2>2, <2>3, ConveysEach
  <2>5. QED
    BY <2>2, <2>4 DEF Welcomes
<1>5. ASSUME NEW b \in Buffers, NEW at \in Offsets
      PROVE  Accepts(GetAll3(r, b, at), b, at, FlattenSeq(s))
  <2> DEFINE reads == [n \in DOMAIN r |-> [i \in Nat |-> Get(r[n], b, i, get[n])]]
  <2>1. reads = [n \in DOMAIN r |-> [i \in Nat |->
                    Get(r[n], b, i, [u \in Seq(Nat) |-> [o \in Nat |-> GetAll2(r[n].of, u, o)]])]]
    OBVIOUS
  <2>2. GetAll3(r, b, at) = AsRecord(r, GetEach(reads, at))
    BY <2>1 DEF GetAll3, GetFields, AsRecord
  <2>3. PutEach(w, v, put, s) /\ ReadEach(r, b, get, reads)
    BY DEF PutEach, ReadEach
  <2> HIDE DEF put, get, s, reads
  <2>4. \A i \in 1 .. Len(w) :
            /\ HasKind(w[i], v[w[i].name]) /\ FitsKind(r[i], v[w[i].name])
            /\ Conveys(get[i], put[i], Nested(w[i], v[w[i].name]))
            /\ Welcomes(get[i], put[i], Nested(w[i], v[w[i].name]))
    BY <1>2, <1>4
  <2>5. Accepts(AsRecord(r, GetEach(reads, at)), b, at, FlattenSeq(s))
    BY <1>2, <2>3, <2>4, LayoutAccepts
  <2>6. QED
    BY <2>2, <2>5
<1>6. QED
  BY <1>3, <1>5

LEMMA MessageAccepts ==
    ASSUME NEW w, NEW r, Agree(w, r), NEW v, HasType(w, v), Fits(r, v)
    PROVE  \A b \in Buffers, at \in Offsets : Accepts(GetAll(r, b, at), b, at, PutAll(w, v))
<1> DEFINE nested(i) == Nested(w[i], v[w[i].name])
           put == [i \in DOMAIN w |-> [j \in DOMAIN nested(i) |-> PutAll3(w[i].of, nested(i)[j])]]
           get == [i \in DOMAIN r |-> [u \in Seq(Nat) |-> [o \in Nat |-> GetAll3(r[i].of, u, o)]]]
           s == [i \in DOMAIN w |-> Put(w[i], v[w[i].name], put[i])]
<1>1. /\ Len(w) \in Nat /\ DOMAIN w = 1 .. Len(w) /\ DOMAIN r = 1 .. Len(w)
      /\ \A i \in 1 .. Len(w) :
            Alike(w[i], r[i]) /\ (w[i].kind \in Nesting => Agree(w[i].of, r[i].of))
  BY AgreeFields
<1>2. /\ Fields(w, v)
      /\ \A i \in 1 .. Len(w) :
            /\ HasKind(w[i], v[w[i].name]) /\ FitsKind(r[i], v[w[i].name])
            /\ \A j \in DOMAIN nested(i) :
                    HasType3(w[i].of, nested(i)[j]) /\ Fits3(r[i].of, nested(i)[j])
  <2>1. \A i \in 1 .. Len(w) :
            r[i].name = w[i].name /\ Nested(r[i], v[w[i].name]) = nested(i)
    BY <1>1, AlikeNested
  <2>2. \A i \in 1 .. Len(w) :
            /\ FitsKind(r[i], v[w[i].name])
            /\ \A j \in DOMAIN nested(i) : Fits3(r[i].of, nested(i)[j])
    BY <1>1, <2>1 DEF Fits, FitsFields
  <2>3. QED
    BY <1>1, <2>2 DEF HasType, HasFields, Fields
<1>3. PutAll(w, v) = FlattenSeq(s)
  <2>1. s = [i \in DOMAIN w |-> Put(w[i], v[w[i].name],
          [j \in DOMAIN nested(i) |-> PutAll3(w[i].of, nested(i)[j])])]
    OBVIOUS
  <2>2. QED
    BY <2>1 DEF PutAll, PutFields
<1>4. ASSUME NEW i \in 1 .. Len(w)
      PROVE  Conveys(get[i], put[i], nested(i)) /\ Welcomes(get[i], put[i], nested(i))
  <2>1. /\ nested(i) \in Seq(Range(nested(i))) /\ Len(nested(i)) \in Nat
        /\ DOMAIN nested(i) = 1 .. Len(nested(i))
        /\ w[i].kind \notin Nesting => Len(nested(i)) = 0
    BY <1>2, NestedKinds
  <2>2. ASSUME NEW j \in 1 .. Len(nested(i))
        PROVE  /\ put[i][j] \in Buffers
               /\ \A u \in Buffers, o \in Offsets :
                    /\ Reads(get[i][u][o], u, o, put[i][j], nested(i)[j])
                    /\ Accepts(get[i][u][o], u, o, put[i][j])
    <3>1. /\ Agree(w[i].of, r[i].of)
          /\ HasType3(w[i].of, nested(i)[j]) /\ Fits3(r[i].of, nested(i)[j])
      <4>1. w[i].kind \in Nesting
        BY <2>1
      <4>2. QED
        BY <1>1, <1>2, <2>1, <4>1
    <3>2. put[i][j] = PutAll3(w[i].of, nested(i)[j])
      BY <1>1, <2>1
    <3>3. ASSUME NEW u \in Buffers, NEW o \in Offsets PROVE get[i][u][o] = GetAll3(r[i].of, u, o)
      BY <1>1 DEF Buffers, Offsets
    <3> HIDE DEF put, get, nested
    <3>4. /\ PutAll3(w[i].of, nested(i)[j]) \in Buffers
          /\ \A u \in Buffers, o \in Offsets :
                Reads(GetAll3(r[i].of, u, o), u, o, PutAll3(w[i].of, nested(i)[j]), nested(i)[j])
      BY <3>1, LevelReads3
    <3>5. \A u \in Buffers, o \in Offsets :
                Accepts(GetAll3(r[i].of, u, o), u, o, PutAll3(w[i].of, nested(i)[j]))
      BY <3>1, LevelAccepts3
    <3>6. QED
      BY <3>2, <3>3, <3>4, <3>5
  <2>3. put[i] = [j \in 1 .. Len(nested(i)) |-> put[i][j]]
    BY <1>1, <2>1
  <2> HIDE DEF put, get, nested
  <2>4. Conveys(get[i], put[i], nested(i))
    BY <2>1, <2>2, <2>3, ConveysEach
  <2>5. QED
    BY <2>2, <2>4 DEF Welcomes
<1>5. ASSUME NEW b \in Buffers, NEW at \in Offsets
      PROVE  Accepts(GetAll(r, b, at), b, at, FlattenSeq(s))
  <2> DEFINE reads == [n \in DOMAIN r |-> [i \in Nat |-> Get(r[n], b, i, get[n])]]
  <2>1. reads = [n \in DOMAIN r |-> [i \in Nat |->
                    Get(r[n], b, i, [u \in Seq(Nat) |-> [o \in Nat |-> GetAll3(r[n].of, u, o)]])]]
    OBVIOUS
  <2>2. GetAll(r, b, at) = AsRecord(r, GetEach(reads, at))
    BY <2>1 DEF GetAll, GetFields, AsRecord
  <2>3. PutEach(w, v, put, s) /\ ReadEach(r, b, get, reads)
    BY DEF PutEach, ReadEach
  <2> HIDE DEF put, get, s, reads
  <2>4. \A i \in 1 .. Len(w) :
            /\ HasKind(w[i], v[w[i].name]) /\ FitsKind(r[i], v[w[i].name])
            /\ Conveys(get[i], put[i], Nested(w[i], v[w[i].name]))
            /\ Welcomes(get[i], put[i], Nested(w[i], v[w[i].name]))
    BY <1>2, <1>4
  <2>5. Accepts(AsRecord(r, GetEach(reads, at)), b, at, FlattenSeq(s))
    BY <1>2, <2>3, <2>4, LayoutAccepts
  <2>6. QED
    BY <2>2, <2>5
<1>6. QED
  BY <1>3, <1>5

(***************************************************************************)
(* What every encoder writes is what its decoder reads                     *)
(***************************************************************************)
LEMMA AgreeConcat ==
    ASSUME NEW w1, NEW r1, Agree(w1, r1), NEW w2, NEW r2, Agree(w2, r2)
    PROVE  Agree(w1 \o w2, r1 \o r2)
<1> DEFINE Closed(ps) == \A x \in ps : x = <<x[1], x[2]>> /\ Matched(x[1], x[2], ps)
<1>1. PICK p1 : <<w1, r1>> \in p1 /\ Closed(p1)
  BY DEF Agree
<1>2. PICK p2 : <<w2, r2>> \in p2 /\ Closed(p2)
  BY DEF Agree
<1> DEFINE w == w1 \o w2
           r == r1 \o r2
           ps == p1 \cup p2 \cup {<<w, r>>}
<1>3. /\ w1 \in Seq(Range(w1)) /\ r1 \in Seq(Range(r1)) /\ Len(w1) = Len(r1)
      /\ w2 \in Seq(Range(w2)) /\ r2 \in Seq(Range(r2)) /\ Len(w2) = Len(r2)
      /\ Matched(w1, r1, p1) /\ Matched(w2, r2, p2)
  <2>1. Matched(w1, r1, p1) /\ Matched(w2, r2, p2)
    BY <1>1, <1>2
  <2>2. QED
    BY <2>1 DEF Matched
<1>4. /\ Len(w1) \in Nat /\ Len(w2) \in Nat
      /\ w \in Seq(Range(w1) \cup Range(w2)) /\ r \in Seq(Range(r1) \cup Range(r2))
      /\ Len(w) = Len(w1) + Len(w2) /\ Len(r) = Len(w1) + Len(w2)
      /\ \A i \in 1 .. Len(w) : /\ i <= Len(w1) => w[i] = w1[i] /\ r[i] = r1[i]
                                /\ i > Len(w1) => w[i] = w2[i - Len(w1)] /\ r[i] = r2[i - Len(w1)]
  <2>1. w1 \in Seq(Range(w1) \cup Range(w2)) /\ w2 \in Seq(Range(w1) \cup Range(w2))
    BY <1>3
  <2>2. r1 \in Seq(Range(r1) \cup Range(r2)) /\ r2 \in Seq(Range(r1) \cup Range(r2))
    BY <1>3
  <2>3. QED
    BY <1>3, <2>1, <2>2
<1> HIDE DEF w, r
<1>5. w \in Seq(Range(w)) /\ r \in Seq(Range(r))
  <2>1. ASSUME NEW S, NEW s \in Seq(S) PROVE s \in Seq(Range(s))
    BY DEF Range
  <2>2. QED
    BY <1>4, <2>1
<1>6. ASSUME NEW i \in 1 .. Len(w)
      PROVE  Alike(w[i], r[i]) /\ (w[i].kind \in Nesting => <<w[i].of, r[i].of>> \in ps)
  <2>1. CASE i <= Len(w1)
    <3>1. i \in 1 .. Len(w1) /\ w[i] = w1[i] /\ r[i] = r1[i]
      BY <1>4, <2>1
    <3>2. QED
      BY <1>3, <3>1 DEF Matched
  <2>2. CASE i > Len(w1)
    <3> DEFINE j == i - Len(w1)
    <3>1. j \in 1 .. Len(w2) /\ w[i] = w2[j] /\ r[i] = r2[j]
      BY <1>4, <2>2
    <3> HIDE DEF j
    <3>2. QED
      BY <1>3, <3>1 DEF Matched
  <2>3. QED
    BY <1>4, <2>1, <2>2
<1>7. Matched(w, r, ps)
  BY <1>4, <1>5, <1>6 DEF Matched
<1>8. \A a, b, q : q \subseteq ps /\ Matched(a, b, q) => Matched(a, b, ps)
  BY DEF Matched
<1>9. Closed(ps)
  <2> SUFFICES ASSUME NEW x \in ps PROVE x = <<x[1], x[2]>> /\ Matched(x[1], x[2], ps)
    OBVIOUS
  <2>1. CASE x \in p1
    BY <1>1, <1>8, <2>1
  <2>2. CASE x \in p2
    BY <1>2, <1>8, <2>2
  <2>3. CASE x = <<w, r>>
    BY <1>7, <2>3
  <2>4. QED
    BY <2>1, <2>2, <2>3
<1>10. <<w, r>> \in ps
  OBVIOUS
<1> HIDE DEF ps
<1>11. Agree(w, r)
  BY <1>9, <1>10 DEF Agree
<1>12. QED
  BY <1>11 DEF w, r

LEMMA AgreeFlat ==
    ASSUME NEW n \in Nat, NEW w, NEW r, w = [i \in 1 .. n |-> w[i]], r = [i \in 1 .. n |-> r[i]],
           \A i \in 1 .. n : Alike(w[i], r[i]) /\ w[i].kind \notin Nesting
    PROVE  Agree(w, r)
<1> DEFINE ps == {<<w, r>>}
<1>1. w \in Seq(Range(w)) /\ r \in Seq(Range(r)) /\ Len(w) = n /\ Len(r) = n
  <2>1. w \in [1 .. n -> Range(w)] /\ r \in [1 .. n -> Range(r)]
    BY DEF Range
  <2>2. QED
    BY <2>1
<1>2. Matched(w, r, ps)
  BY <1>1 DEF Matched
<1>3. <<w, r>> \in ps /\ \A x \in ps : x = <<x[1], x[2]>> /\ Matched(x[1], x[2], ps)
  BY <1>2
<1> HIDE DEF ps
<1>4. QED
  BY <1>3 DEF Agree

LEMMA AgreeNest ==
    ASSUME NEW f, NEW g, Alike(f, g), f.kind \in Nesting, Agree(f.of, g.of)
    PROVE  Agree(<<f>>, <<g>>)
<1> DEFINE Closed(ps) == \A x \in ps : x = <<x[1], x[2]>> /\ Matched(x[1], x[2], ps)
<1>1. PICK p1 : <<f.of, g.of>> \in p1 /\ Closed(p1)
  BY DEF Agree
<1> DEFINE w == <<f>>
           r == <<g>>
           ps == p1 \cup {<<w, r>>}
<1>2. w \in Seq(Range(w)) /\ r \in Seq(Range(r)) /\ Len(w) = 1 /\ Len(r) = 1 /\ w[1] = f /\ r[1] = g
  BY DEF Range
<1> HIDE DEF w, r
<1>3. Matched(w, r, ps)
  BY <1>1, <1>2 DEF Matched
<1>4. \A a, b, q : q \subseteq ps /\ Matched(a, b, q) => Matched(a, b, ps)
  BY DEF Matched
<1>5. Closed(ps)
  <2> SUFFICES ASSUME NEW x \in ps PROVE x = <<x[1], x[2]>> /\ Matched(x[1], x[2], ps)
    OBVIOUS
  <2>1. CASE x \in p1
    BY <1>1, <1>4, <2>1
  <2>2. CASE x = <<w, r>>
    BY <1>3, <2>2
  <2>3. QED
    BY <2>1, <2>2
<1>6. <<w, r>> \in ps
  OBVIOUS
<1> HIDE DEF ps
<1>7. Agree(w, r)
  BY <1>5, <1>6 DEF Agree
<1>8. QED
  BY <1>7 DEF w, r

LEMMA AgreeOne ==
    ASSUME NEW f, NEW g, Alike(f, g), f.kind \notin Nesting
    PROVE  Agree(<<f>>, <<g>>)
<1> DEFINE w == <<f>>
           r == <<g>>
<1>1. w = [i \in 1 .. 1 |-> w[i]] /\ r = [i \in 1 .. 1 |-> r[i]] /\ w[1] = f /\ r[1] = g
  OBVIOUS
<1> HIDE DEF w, r
<1>2. \A i \in 1 .. 1 : Alike(w[i], r[i]) /\ w[i].kind \notin Nesting
  BY <1>1
<1>3. 1 \in Nat
  OBVIOUS
<1>4. Agree(w, r)
  BY <1>1, <1>2, <1>3, AgreeFlat
<1>5. QED
  BY <1>4 DEF w, r

LEMMA AgreeLeaves ==
    ASSUME NEW name
    PROVE  /\ Agree(Num(name), Num(name)) /\ Agree(Gen(name), Gen(name))
           /\ Agree(Gen(name), Num(name))
           /\ \A last : Agree(Enum(name, last), Enum(name, last))
           /\ Agree(Flag(name), Flag(name)) /\ Agree(Ref(name), Ref(name))
           /\ Agree(Id(name), Id(name)) /\ Agree(OptId(name), OptId(name))
           /\ Agree(Id(name), OptId(name)) /\ Agree(Text(name), Text(name))
           /\ Agree(LongText(name), LongText(name)) /\ Agree(Opt(name), Opt(name))
           /\ Agree(Version, Version)
<1>1. ASSUME NEW n, NEW k \in Units \cup Runs \cup {"flag", "ref"}, NEW l,
             \/ k = l \/ (k \in Units /\ l \in Units) \/ (k \in Runs /\ l \in Runs)
      PROVE  Agree(Field(n, k), Field(n, l))
  <2> DEFINE f == [name |-> n, kind |-> k]
             g == [name |-> n, kind |-> l]
  <2>1. Alike(f, g) /\ f.kind \notin Nesting
    BY <1>1 DEF Alike, Nesting, Units, Runs
  <2> HIDE DEF f, g
  <2>2. Agree(<<f>>, <<g>>)
    BY <2>1, AgreeOne
  <2>3. QED
    BY <2>2 DEF f, g, Field
<1>2. ASSUME NEW last PROVE Agree(Enum(name, last), Enum(name, last))
  <2> DEFINE f == [name |-> name, kind |-> "enum", last |-> last]
  <2>1. Alike(f, f) /\ f.kind \notin Nesting
    BY DEF Alike, Nesting, Units
  <2> HIDE DEF f
  <2>2. Agree(<<f>>, <<f>>)
    BY <2>1, AgreeOne
  <2>3. QED
    BY <2>2 DEF f, Enum
<1>3. Agree(Num(name), Num(name)) /\ Agree(Gen(name), Gen(name)) /\ Agree(Gen(name), Num(name))
  BY <1>1 DEF Num, Gen, Units
<1>4. Agree(Flag(name), Flag(name)) /\ Agree(Ref(name), Ref(name))
  BY <1>1 DEF Flag, Ref
<1>5. /\ Agree(Id(name), Id(name)) /\ Agree(OptId(name), OptId(name))
      /\ Agree(Id(name), OptId(name)) /\ Agree(Text(name), Text(name))
      /\ Agree(LongText(name), LongText(name)) /\ Agree(Opt(name), Opt(name))
  BY <1>1 DEF Id, OptId, Text, LongText, Opt, Runs
<1>6. Agree(Version, Version)
  BY <1>1 DEF Version, Units
<1>7. QED
  BY <1>2, <1>3, <1>4, <1>5, <1>6

LEMMA AgreeParts ==
    ASSUME NEW name, NEW w, NEW r, Agree(w, r)
    PROVE  /\ Agree(Part(name, w), Part(name, r)) /\ Agree(List(name, w), List(name, r))
           /\ Agree(Blob(name, w), Blob(name, r)) /\ Agree(OptBlob(name, w), OptBlob(name, r))
<1>1. ASSUME NEW k \in Nesting
      PROVE  Agree(<<[name |-> name, kind |-> k, of |-> w]>>,
                   <<[name |-> name, kind |-> k, of |-> r]>>)
  <2> DEFINE f == [name |-> name, kind |-> k, of |-> w]
             g == [name |-> name, kind |-> k, of |-> r]
  <2>1. Alike(f, g) /\ f.kind \in Nesting /\ f.of = w /\ g.of = r
    BY DEF Alike
  <2> HIDE DEF f, g
  <2>2. Agree(<<f>>, <<g>>)
    BY <2>1, AgreeNest
  <2>3. QED
    BY <2>2 DEF f, g
<1>2. QED
  BY <1>1 DEF Part, List, Blob, OptBlob, Nesting

LEMMA AgreeGiven ==
    ASSUME NEW name
    PROVE  Agree(Given(name), Given(name)) /\ Agree(Ids(name), Ids(name))
<1>1. Agree(Id("id") \o Gen("generation"), Id("id") \o Gen("generation")) /\
        Agree(Id("id"), Id("id"))
  BY AgreeLeaves, AgreeConcat
<1>2. QED
  BY <1>1, AgreeParts DEF Given, Ids

LEMMA AgreeNums ==
    ASSUME NEW n \in Nat, NEW names, DOMAIN names = 1 .. n
    PROVE  Agree(Nums(names), Nums(names)) /\ Agree(Flags(names), Flags(names))
<1>1. ASSUME NEW k \in {"int", "flag"}, NEW w,
             w = [i \in 1 .. n |-> [name |-> names[i], kind |-> k]]
      PROVE  Agree(w, w)
  <2>1. w = [i \in 1 .. n |-> w[i]]
    BY <1>1
  <2>2. \A i \in 1 .. n : Alike(w[i], w[i]) /\ w[i].kind \notin Nesting
    BY <1>1 DEF Alike, Nesting, Units
  <2>3. QED
    BY <2>1, <2>2, AgreeFlat
<1>2. QED
  BY <1>1 DEF Nums, Flags

LEMMA AgreeTuples ==
    /\ \A a, b : Agree(Nums(<<a, b>>), Nums(<<a, b>>))
    /\ \A a, b, c : Agree(Nums(<<a, b, c>>), Nums(<<a, b, c>>))
    /\ \A a, b, c, d : Agree(Nums(<<a, b, c, d>>), Nums(<<a, b, c, d>>))
    /\ \A a, b, c, d, e : Agree(Nums(<<a, b, c, d, e>>), Nums(<<a, b, c, d, e>>))
    /\ \A a, b, c, d, e, f : Agree(Nums(<<a, b, c, d, e, f>>), Nums(<<a, b, c, d, e, f>>))
    /\ \A a, b, c, d, e, f, g : Agree(Nums(<<a, b, c, d, e, f, g>>), Nums(<<a, b, c, d, e, f, g>>))
    /\ \A a, b, c, d, e, f, g, h, i, j : Agree(Nums(<<a, b, c, d, e, f, g, h, i, j>>),
                  Nums(<<a, b, c, d, e, f, g, h, i, j>>))
    /\ \A a, b, c, d, e, f, g, h, i, j, k, l, m, n :
            Agree(Nums(<<a, b, c, d, e, f, g, h, i, j, k, l, m, n>>),
                  Nums(<<a, b, c, d, e, f, g, h, i, j, k, l, m, n>>))
    /\ \A a, b : Agree(Flags(<<a, b>>), Flags(<<a, b>>))
    /\ \A a, b, c, d : Agree(Flags(<<a, b, c, d>>), Flags(<<a, b, c, d>>))
<1>1. \A a, b : Agree(Nums(<<a, b>>), Nums(<<a, b>>))
  <2> TAKE a, b
  <2>1. DOMAIN <<a, b>> = 1 .. 2 /\ 2 \in Nat
    OBVIOUS
  <2>2. QED
    BY <2>1, AgreeNums
<1>2. \A a, b, c : Agree(Nums(<<a, b, c>>), Nums(<<a, b, c>>))
  <2> TAKE a, b, c
  <2>1. DOMAIN <<a, b, c>> = 1 .. 3 /\ 3 \in Nat
    OBVIOUS
  <2>2. QED
    BY <2>1, AgreeNums
<1>3. \A a, b, c, d : Agree(Nums(<<a, b, c, d>>), Nums(<<a, b, c, d>>))
  <2> TAKE a, b, c, d
  <2>1. DOMAIN <<a, b, c, d>> = 1 .. 4 /\ 4 \in Nat
    OBVIOUS
  <2>2. QED
    BY <2>1, AgreeNums
<1>4. \A a, b, c, d, e : Agree(Nums(<<a, b, c, d, e>>), Nums(<<a, b, c, d, e>>))
  <2> TAKE a, b, c, d, e
  <2>1. DOMAIN <<a, b, c, d, e>> = 1 .. 5 /\ 5 \in Nat
    OBVIOUS
  <2>2. QED
    BY <2>1, AgreeNums
<1>5. \A a, b, c, d, e, f : Agree(Nums(<<a, b, c, d, e, f>>), Nums(<<a, b, c, d, e, f>>))
  <2> TAKE a, b, c, d, e, f
  <2>1. DOMAIN <<a, b, c, d, e, f>> = 1 .. 6 /\ 6 \in Nat
    OBVIOUS
  <2>2. QED
    BY <2>1, AgreeNums
<1>6. \A a, b, c, d, e, f, g : Agree(Nums(<<a, b, c, d, e, f, g>>), Nums(<<a, b, c, d, e, f, g>>))
  <2> TAKE a, b, c, d, e, f, g
  <2>1. DOMAIN <<a, b, c, d, e, f, g>> = 1 .. 7 /\ 7 \in Nat
    OBVIOUS
  <2>2. QED
    BY <2>1, AgreeNums
<1>7. \A a, b, c, d, e, f, g, h, i, j : Agree(Nums(<<a, b, c, d, e, f, g, h, i, j>>),
                  Nums(<<a, b, c, d, e, f, g, h, i, j>>))
  <2> TAKE a, b, c, d, e, f, g, h, i, j
  <2>1. DOMAIN <<a, b, c, d, e, f, g, h, i, j>> = 1 .. 10 /\ 10 \in Nat
    OBVIOUS
  <2>2. QED
    BY <2>1, AgreeNums
<1>8. \A a, b, c, d, e, f, g, h, i, j, k, l, m, n :
        Agree(Nums(<<a, b, c, d, e, f, g, h, i, j, k, l, m, n>>),
                  Nums(<<a, b, c, d, e, f, g, h, i, j, k, l, m, n>>))
  <2> TAKE a, b, c, d, e, f, g, h, i, j, k, l, m, n
  <2>1. DOMAIN <<a, b, c, d, e, f, g, h, i, j, k, l, m, n>> = 1 .. 14 /\ 14 \in Nat
    OBVIOUS
  <2>2. QED
    BY <2>1, AgreeNums
<1>9. \A a, b : Agree(Flags(<<a, b>>), Flags(<<a, b>>))
  <2> TAKE a, b
  <2>1. DOMAIN <<a, b>> = 1 .. 2 /\ 2 \in Nat
    OBVIOUS
  <2>2. QED
    BY <2>1, AgreeNums
<1>10. \A a, b, c, d : Agree(Flags(<<a, b, c, d>>), Flags(<<a, b, c, d>>))
  <2> TAKE a, b, c, d
  <2>1. DOMAIN <<a, b, c, d>> = 1 .. 4 /\ 4 \in Nat
    OBVIOUS
  <2>2. QED
    BY <2>1, AgreeNums
<1>11. QED
  BY <1>1, <1>2, <1>3, <1>4, <1>5, <1>6, <1>7, <1>8, <1>9, <1>10

LEMMA AgreeShared ==
    /\ Agree(BindingWritten, BindingRead) /\ Agree(ChurnWritten, ChurnRead)
    /\ Agree(ProvenanceWritten, ProvenanceRead) /\ Agree(IntervalWritten, IntervalRead)
    /\ Agree(Generations, Generations)
<1>1. Agree(BindingWritten, BindingRead)
  BY AgreeLeaves, AgreeConcat DEF BindingWritten, BindingRead
<1>2. Agree(ChurnWritten, ChurnRead)
  BY AgreeLeaves, AgreeConcat, AgreeTuples DEF ChurnWritten, ChurnRead
<1>3. Agree(ProvenanceWritten, ProvenanceRead)
  BY AgreeLeaves, AgreeConcat, AgreeTuples DEF ProvenanceWritten, ProvenanceRead
<1>4. Agree(IntervalWritten, IntervalRead)
  BY AgreeLeaves, AgreeConcat, AgreeTuples DEF IntervalWritten, IntervalRead
<1>5. Agree(Generations, Generations)
  BY AgreeLeaves, AgreeConcat DEF Generations
<1>6. QED
  BY <1>1, <1>2, <1>3, <1>4, <1>5

LEMMA AgreeResource == Agree(ResourceWritten, ResourceRead)
  BY AgreeLeaves, AgreeConcat, AgreeTuples, AgreeGiven, AgreeParts, AgreeShared
  DEF ResourceWritten, ResourceRead

LEMMA AgreeReservation == Agree(ReservationWritten, ReservationRead)
  BY AgreeLeaves, AgreeConcat, AgreeTuples, AgreeGiven, AgreeParts, AgreeShared
  DEF ReservationWritten, ReservationRead

LEMMA AgreePath == Agree(PathWritten, PathRead)
  BY AgreeLeaves, AgreeConcat, AgreeTuples, AgreeGiven, AgreeParts, AgreeShared
  DEF PathWritten, PathRead

LEMMA AgreeDemand == Agree(DemandWritten, DemandRead)
<1> DEFINE first(provenance) ==
        Id("id") \o Gen("generation") \o Part("provenance", provenance)
        \o OptId("tenant") \o OptId("service_class")
        \o Nums(<<"minimum_bandwidth", "desired_bandwidth", "maximum_bandwidth", "priority">>)
        \o Opt("latency_bound_micros") \o Opt("path_cost_ceiling") \o Given("candidate_set")
        \o Ids("allowed_paths") \o Ids("forbidden_paths") \o Ids("affinity")
<1>1. Agree(first(ProvenanceWritten), first(ProvenanceRead))
  BY AgreeLeaves, AgreeConcat, AgreeTuples, AgreeGiven, AgreeParts, AgreeShared
<1>2. Agree(Id("key") \o Text("value"), OptId("key") \o Text("value"))
  BY AgreeLeaves, AgreeConcat
<1>3. /\ DemandWritten =
            first(ProvenanceWritten) \o Ids("anti_affinity") \o Ids("required_failure_domains")
            \o Num("min_distinct_failure_domains") \o Ids("reservation_bindings")
            \o Part("effective", IntervalWritten) \o Enum("preemptibility", LastPreemptibility)
            \o List("labels", Id("key") \o Text("value"))
      /\ DemandRead =
            first(ProvenanceRead) \o Ids("anti_affinity") \o Ids("required_failure_domains")
            \o Num("min_distinct_failure_domains") \o Ids("reservation_bindings")
            \o Part("effective", IntervalRead) \o Enum("preemptibility", LastPreemptibility)
            \o List("labels", OptId("key") \o Text("value"))
  BY DEF DemandWritten, DemandRead
<1> HIDE DEF first
<1>4. QED
  BY <1>1, <1>2, <1>3, AgreeLeaves, AgreeConcat, AgreeGiven, AgreeParts, AgreeShared

LEMMA AgreePolicy == Agree(PolicyWritten, PolicyRead)
  BY AgreeLeaves, AgreeConcat, AgreeTuples, AgreeGiven, AgreeParts, AgreeShared
  DEF PolicyWritten, PolicyRead

LEMMA AgreeObjective == Agree(ObjectiveWritten, ObjectiveRead)
  BY AgreeLeaves, AgreeConcat, AgreeTuples, AgreeGiven, AgreeParts, AgreeShared
  DEF ObjectiveWritten, ObjectiveRead

LEMMA AgreeAllocation == Agree(AllocationWritten, AllocationRead)
  BY AgreeLeaves, AgreeConcat, AgreeTuples, AgreeGiven, AgreeParts, AgreeShared
  DEF AllocationWritten, AllocationRead

LEMMA AgreeAuthority == Agree(AuthorityWritten, AuthorityRead)
  BY AgreeLeaves, AgreeConcat, AgreeTuples, AgreeGiven, AgreeParts, AgreeShared
  DEF AuthorityWritten, AuthorityRead

LEMMA AgreeShare == Agree(ShareWritten, ShareRead)
  BY AgreeLeaves, AgreeConcat, AgreeTuples, AgreeGiven, AgreeParts, AgreeShared
  DEF ShareWritten, ShareRead

LEMMA AgreeGranted == Agree(GrantedWritten, GrantedRead)
  BY AgreeLeaves, AgreeConcat, AgreeTuples, AgreeGiven, AgreeParts, AgreeShared, AgreeShare
  DEF GrantedWritten, GrantedRead

LEMMA AgreeUtilization == Agree(UtilizationWritten, UtilizationRead)
  BY AgreeLeaves, AgreeConcat, AgreeTuples, AgreeGiven, AgreeParts, AgreeShared
  DEF UtilizationWritten, UtilizationRead

LEMMA AgreeConstraint == Agree(ConstraintWritten, ConstraintRead)
  BY AgreeLeaves, AgreeConcat, AgreeTuples, AgreeGiven, AgreeParts, AgreeShared
  DEF ConstraintWritten, ConstraintRead

LEMMA AgreeJudged == Agree(JudgedWritten, JudgedRead)
  BY AgreeLeaves, AgreeConcat, AgreeTuples, AgreeGiven, AgreeParts, AgreeShared
  DEF JudgedWritten, JudgedRead

LEMMA AgreeSnapshot == Agree(SnapshotWritten, SnapshotRead)
<1>1. Agree(Id("id") \o Gen("generation") \o Gen("fabric_epoch")
                \o Part("provenance", ProvenanceWritten) \o List("resources", ResourceWritten),
            Id("id") \o Gen("generation") \o Gen("fabric_epoch")
                \o Part("provenance", ProvenanceRead) \o List("resources", ResourceRead))
  BY AgreeLeaves, AgreeConcat, AgreeParts, AgreeShared, AgreeResource
<1>2. Agree(Id("id") \o Gen("generation") \o Gen("fabric_epoch")
                \o Part("provenance", ProvenanceWritten)
                \o List("reservations", ReservationWritten),
            Id("id") \o Gen("generation") \o Gen("fabric_epoch")
                \o Part("provenance", ProvenanceRead) \o List("reservations", ReservationRead))
  BY AgreeLeaves, AgreeConcat, AgreeParts, AgreeShared, AgreeReservation
<1>3. QED
  BY <1>1, <1>2, AgreeLeaves, AgreeConcat, AgreeGiven, AgreeParts, AgreeShared, AgreePolicy,
     AgreeObjective, AgreeDemand, AgreePath
  DEF SnapshotWritten, SnapshotRead

LEMMA AgreePlan == Agree(PlanWritten, PlanRead)
<1>1. Agree(Enum("term", LastTerm) \o Nums(<<"weight", "raw", "weighted">>),
            Enum("term", LastTerm) \o Nums(<<"weight", "raw", "weighted">>))
  BY AgreeLeaves, AgreeConcat, AgreeTuples
<1>2. Agree(Text("subject") \o Text("reason") \o Num("delta"),
            Text("subject") \o Text("reason") \o Num("delta"))
  BY AgreeLeaves, AgreeConcat
<1> DEFINE first(authority) ==
        Version \o Id("id") \o Gen("generation") \o Enum("state", LastState)
        \o Enum("applicability", LastApplicability) \o Id("attempt") \o Gen("attempt_generation")
        \o Id("publisher") \o Gen("publisher_boot") \o Gen("coordinator_incarnation")
        \o Part("authority", authority)
    second(x, constraint, granted, utilization) ==
        x \o List("components", Enum("term", LastTerm) \o Nums(<<"weight", "raw", "weighted">>))
        \o List("alternatives", Text("subject") \o Text("reason") \o Num("delta"))
        \o Text("summary") \o Enum("status", LastFeasibility) \o List("binding", constraint)
        \o List("demands", granted) \o List("resources", utilization)
        \o Nums(<<"total_granted", "total_reserved">>) \o Flag("degraded")
    third(x, churn) ==
        x \o Part("churn", churn) \o Num("objective_score")
        \o OptId("explanation") \o Num("explanation_digest")
        \o Ref("supersedes") \o Ref("superseded_by") \o Ref("commit")
        \o Nums(<<"committed_tick", "declared_tick", "proposed_tick">>)
<1>3. Agree(first(AuthorityWritten), first(AuthorityRead))
  BY AgreeLeaves, AgreeConcat, AgreeParts, AgreeAuthority
<1>4. ASSUME NEW x, NEW y, Agree(x, y)
      PROVE  Agree(second(x, ConstraintWritten, GrantedWritten, UtilizationWritten),
                   second(y, ConstraintRead, GrantedRead, UtilizationRead))
  BY <1>1, <1>2, <1>4, AgreeLeaves, AgreeConcat, AgreeTuples, AgreeParts, AgreeConstraint,
     AgreeGranted, AgreeUtilization
<1>5. ASSUME NEW x, NEW y, Agree(x, y) PROVE Agree(third(x, JudgedWritten), third(y, JudgedRead))
  BY <1>5, AgreeLeaves, AgreeConcat, AgreeTuples, AgreeParts, AgreeJudged
<1>6. /\ PlanWritten = third(second(first(AuthorityWritten), ConstraintWritten, GrantedWritten,
                                   UtilizationWritten), JudgedWritten)
      /\ PlanRead = third(second(first(AuthorityRead), ConstraintRead, GrantedRead,
                                UtilizationRead), JudgedRead)
  BY DEF PlanWritten, PlanRead
<1> HIDE DEF first, second, third
<1>7. QED
  BY <1>3, <1>4, <1>5, <1>6

\* Every type of message and of record: its decoder reads, field by field, what its
\* encoder writes.
LEMMA LayoutsAgree ==
    \A type \in DOMAIN Written : Agree(Written[type], Read[type])
<1>1. Agree(HelloRequestWritten, HelloRequestRead)
  BY AgreeLeaves, AgreeConcat, AgreeTuples, AgreeGiven, AgreeParts, AgreeShared
  DEF HelloRequestWritten, HelloRequestRead
<1>2. Agree(HelloResponseWritten, HelloResponseRead)
  <2>1. Agree(Gen("protocol_version") \o Gen("coordinator_epoch"),
              Nums(<<"protocol_version", "coordinator_epoch">>))
    <3>1. Nums(<<"protocol_version", "coordinator_epoch">>)
            = Num("protocol_version") \o Num("coordinator_epoch")
      BY DEF Nums, Num, Field
    <3>2. QED
      BY <3>1, AgreeLeaves, AgreeConcat
  <2>2. QED
    BY <2>1, AgreeLeaves, AgreeConcat DEF HelloResponseWritten, HelloResponseRead
<1>3. Agree(RegisterRequestWritten, RegisterRequestRead)
  BY AgreeLeaves, AgreeConcat, AgreeTuples, AgreeGiven, AgreeParts, AgreeShared
  DEF RegisterRequestWritten, RegisterRequestRead
<1>4. Agree(RegisterResponseWritten, RegisterResponseRead)
  BY AgreeLeaves, AgreeConcat, AgreeTuples, AgreeGiven, AgreeParts, AgreeShared
  DEF RegisterResponseWritten, RegisterResponseRead
<1>5. Agree(PlanRequestWritten, PlanRequestRead)
  BY AgreeLeaves, AgreeConcat, AgreeTuples, AgreeGiven, AgreeParts, AgreeShared, AgreeSnapshot,
          AgreeAllocation
  DEF PlanRequestWritten, PlanRequestRead
<1>6. Agree(PlanResponseWritten, PlanResponseRead)
  BY AgreeLeaves, AgreeConcat, AgreeTuples, AgreeGiven, AgreeParts, AgreeShared
  DEF PlanResponseWritten, PlanResponseRead
<1>7. Agree(CommitRequestWritten, CommitRequestRead)
  BY AgreeLeaves, AgreeConcat, AgreeTuples, AgreeGiven, AgreeParts, AgreeShared
  DEF CommitRequestWritten, CommitRequestRead
<1>8. Agree(CommitResponseWritten, CommitResponseRead)
  BY AgreeLeaves, AgreeConcat, AgreeTuples, AgreeGiven, AgreeParts, AgreeShared
  DEF CommitResponseWritten, CommitResponseRead
<1>9. Agree(SupersedeRequestWritten, SupersedeRequestRead)
  BY AgreeLeaves, AgreeConcat, AgreeTuples, AgreeGiven, AgreeParts, AgreeShared
  DEF SupersedeRequestWritten, SupersedeRequestRead
<1>10. Agree(SupersedeResponseWritten, SupersedeResponseRead)
  BY AgreeLeaves, AgreeConcat, AgreeTuples, AgreeGiven, AgreeParts, AgreeShared
  DEF SupersedeResponseWritten, SupersedeResponseRead
<1>11. Agree(RetireRequestWritten, RetireRequestRead)
  BY AgreeLeaves, AgreeConcat, AgreeTuples, AgreeGiven, AgreeParts, AgreeShared
  DEF RetireRequestWritten, RetireRequestRead
<1>12. Agree(RetireResponseWritten, RetireResponseRead)
  BY AgreeLeaves, AgreeConcat, AgreeTuples, AgreeGiven, AgreeParts, AgreeShared
  DEF RetireResponseWritten, RetireResponseRead
<1>13. Agree(QueryRequestWritten, QueryRequestRead)
  BY AgreeLeaves, AgreeConcat, AgreeTuples, AgreeGiven, AgreeParts, AgreeShared
  DEF QueryRequestWritten, QueryRequestRead
<1>14. Agree(QueryResponseWritten, QueryResponseRead)
  BY AgreeLeaves, AgreeConcat, AgreeTuples, AgreeGiven, AgreeParts, AgreeShared, AgreePlan
  DEF QueryResponseWritten, QueryResponseRead
<1>15. Agree(ErrorResponseWritten, ErrorResponseRead)
  BY AgreeLeaves, AgreeConcat, AgreeTuples, AgreeGiven, AgreeParts, AgreeShared
  DEF ErrorResponseWritten, ErrorResponseRead
<1>16. Agree(PlanWritten, PlanRead)
  BY AgreePlan
<1>17. Agree(FenceWritten, FenceRead)
  BY AgreeLeaves, AgreeConcat, AgreeTuples, AgreeGiven, AgreeParts, AgreeShared
  DEF FenceWritten, FenceRead
<1>18. Agree(EpochWritten, EpochRead)
  BY AgreeLeaves, AgreeConcat, AgreeTuples, AgreeGiven, AgreeParts, AgreeShared
  DEF EpochWritten, EpochRead
<1>19. QED
  BY <1>1, <1>2, <1>3, <1>4, <1>5, <1>6, <1>7, <1>8, <1>9, <1>10, <1>11, <1>12, <1>13, <1>14,
          <1>15, <1>16, <1>17, <1>18
  DEF Written, Read

(***************************************************************************)
(* Payloads.  u is the payload of a message; what a decoder makes of it,   *)
(* of less and of more.                                                    *)
(***************************************************************************)
LEMMA PayloadReads ==
    ASSUME NEW type \in DOMAIN Written, NEW v, HasType(Written[type], v)
    PROVE  LET u == Encode(type, v) IN
           /\ u \in Buffers /\ Len(u) \in Nat
           /\ Decode(type, u) \in {Got(v, Len(u) + 1), Failed}
           /\ \A b \in Buffers : CutAt(b, 1, u) => Decode(type, b) = Failed
           /\ \A b \in Buffers : HoldsAt(b, 1, u) /\ Len(b) > Len(u) => Decode(type, b) = Failed
<1> DEFINE u == Encode(type, v)
           get(b) == GetAll(Read[type], b, 1)
<1>1. /\ u \in Buffers
      /\ \A b \in Buffers, at \in Offsets : Reads(GetAll(Read[type], b, at), b, at, u, v)
  BY LayoutsAgree, MessageReads DEF Encode
<1>2. Len(u) \in Nat
  BY <1>1 DEF Buffers
<1> HIDE DEF u
<1>3. \A b : Decode(type, b) = Whole(get(b), b)
  BY DEF Decode
<1>4. 1 \in Offsets
  BY DEF Offsets
<1>5. \A b \in Buffers : Reads(get(b), b, 1, u, v)
  BY <1>1, <1>4
<1> HIDE DEF get
<1>6. Decode(type, u) \in {Got(v, Len(u) + 1), Failed}
  BY <1>1, <1>3, <1>5, WholeReads
<1>7. ASSUME NEW b \in Buffers, CutAt(b, 1, u) PROVE Decode(type, b) = Failed
  <2>1. get(b) = Failed
    BY <1>5, <1>7 DEF Reads
  <2>2. QED
    BY <1>3, <2>1, Outcomes DEF Whole, Demand, Then
<1>8. ASSUME NEW b \in Buffers, HoldsAt(b, 1, u), Len(b) > Len(u) PROVE Decode(type, b) = Failed
  <2>1. get(b) \in {Got(v, 1 + Len(u)), Failed}
    BY <1>5, <1>8 DEF Reads
  <2>2. Len(b) \in Nat /\ 1 + Len(u) # Len(b) + 1
    BY <1>2, <1>8 DEF Buffers
  <2>3. QED
    BY <1>3, <2>1, <2>2, Outcomes DEF Whole, Demand, Then
<1>9. QED
  BY <1>1, <1>2, <1>6, <1>7, <1>8 DEF u

LEMMA RoundTrip ==
    ASSUME NEW type \in DOMAIN Written, NEW v,
           HasType(Written[type], v), Fits(Read[type], v), Len(Encode(type, v)) <= MaxPayload
    PROVE  Decode(type, Encode(type, v)) = Got(v, Len(Encode(type, v)) + 1)
<1> DEFINE u == Encode(type, v)
<1>1. /\ u \in Buffers
      /\ \A b \in Buffers, at \in Offsets : Reads(GetAll(Read[type], b, at), b, at, u, v)
  BY LayoutsAgree, MessageReads DEF Encode
<1>2. \A b \in Buffers, at \in Offsets : Accepts(GetAll(Read[type], b, at), b, at, u)
  BY LayoutsAgree, MessageAccepts DEF Encode
<1>3. Decode(type, u) = Whole(GetAll(Read[type], u, 1), u)
  BY DEF Decode
<1> HIDE DEF u
<1>4. Whole(GetAll(Read[type], u, 1), u) = Got(v, Len(u) + 1)
  <2>1. Len(u) <= MaxPayload
    BY DEF u
  <2>2. Reads(GetAll(Read[type], u, 1), u, 1, u, v) /\ Accepts(GetAll(Read[type], u, 1), u, 1, u)
    BY <1>1, <1>2, WholeBuffer
  <2>3. QED
    BY <1>1, <2>1, <2>2, WholeAccepts
<1>5. QED
  BY <1>3, <1>4 DEF u

\* Every type of message and of record.  What its encoder writes of a value is read
\* back by its decoder as that value, if the value is one the decoder demands, and
\* is refused or read back as that value in any case; cut short anywhere, or with
\* anything after it, it is refused (protocol.cpp, model.cpp and persist.cpp, whose
\* encoders and decoders are separate functions over binary.hpp).
THEOREM DecodersReadWhatEncodersWrite ==
    ASSUME NEW type \in DOMAIN Written, NEW v, HasType(Written[type], v)
    PROVE  LET u == Encode(type, v) IN
           /\ Fits(Read[type], v) /\ Len(u) <= MaxPayload => Decode(type, u) = Got(v, Len(u) + 1)
           /\ Decode(type, u) \in {Got(v, Len(u) + 1), Failed}
           /\ \A b \in Buffers : CutAt(b, 1, u) => Decode(type, b) = Failed
           /\ \A b \in Buffers : HoldsAt(b, 1, u) /\ Len(b) > Len(u) => Decode(type, b) = Failed
  BY PayloadReads, RoundTrip

LEMMA MessageTypes == \A m \in Sent \cup Stored : m.type \in DOMAIN Written
<1>1. \A call \in Calls : call.type \in Requests
  BY WireAssumption
<1>2. Requests \subseteq DOMAIN Written
  BY DEF Requests, Written
<1>3. \A type \in Requests : Response(type) \in DOMAIN Written
  BY DEF Requests, Response, Written
<1>4. {"error_response", "plan", "fence", "coordinator_epoch"} \subseteq DOMAIN Written
  BY DEF Written
<1>5. \A type, shape : Named(type, shape).type = type
  BY DEF Named
<1>6. ASSUME NEW type \in Requests, NEW m \in Refusals(type) \cup Replies(type)
      PROVE  m.type \in DOMAIN Written
  <2>1. \/ \E shape : m = Named(Response(type), shape)
        \/ m = Named("error_response", "some")
    BY DEF Refusals, Replies
  <2>2. QED
    BY <1>3, <1>4, <1>5, <2>1
<1>7. ASSUME NEW type \in Requests, NEW m \in Records(type) PROVE m.type \in DOMAIN Written
  <2>1. \E shape : m = Named("fence", shape) \/ m = Named("plan", shape)
    BY DEF Records, Requests
  <2>2. QED
    BY <1>4, <1>5, <2>1
<1>8. Started.type \in DOMAIN Written
  BY <1>4, <1>5 DEF Started
<1>9. QED
  BY <1>1, <1>2, <1>6, <1>7, <1>8 DEF Sent, Stored

Body(m) == Encode(m.type, Values[m])

LEMMA Bodies ==
    ASSUME NEW m \in Sent \cup Stored
    PROVE  /\ Messages[m] = [type |-> m.type, value |-> Values[m]]
           /\ Body(m) = Encode(Messages[m].type, Messages[m].value)
           /\ Body(m) \in Buffers /\ Len(Body(m)) \in Nat
           /\ Decode(m.type, Body(m)) \in {Got(Values[m], Len(Body(m)) + 1), Failed}
           /\ \A b \in Buffers : CutAt(b, 1, Body(m)) => Decode(m.type, b) = Failed
           /\ \A b \in Buffers : HoldsAt(b, 1, Body(m)) /\ Len(b) > Len(Body(m)) =>
                    Decode(m.type, b) = Failed
<1>1. m.type \in DOMAIN Written /\ HasType(Written[m.type], Values[m])
  BY MessageTypes, WireAssumption
<1>2. Messages[m] = [type |-> m.type, value |-> Values[m]]
  BY DEF Messages
<1>3. Body(m) = Encode(Messages[m].type, Messages[m].value)
  BY <1>2 DEF Body
<1>4. QED
  BY <1>1, <1>2, <1>3, PayloadReads DEF Body

(***************************************************************************)
(* Frames.  What a reader holds of a frame is a beginning of it.           *)
(***************************************************************************)
LEMMA ConcatUnits ==
    ASSUME NEW S, NEW s \in Seq(S), NEW t \in Seq(S)
    PROVE  /\ s \o t \in Seq(S) /\ Len(s \o t) = Len(s) + Len(t) /\ Len(s \o t) \in Nat
           /\ \A i \in 1 .. Len(s) : (s \o t)[i] = s[i]
           /\ \A i \in 1 .. Len(t) : (s \o t)[Len(s) + i] = t[i]
  OBVIOUS

LEMMA FrameParts ==
    ASSUME NEW m \in Sent
    PROVE  /\ \E S : Frames[m] \in Seq(S)
           /\ Len(Frames[m]) = HeaderSize + Len(Body(m)) /\ Len(Frames[m]) \in Nat
           /\ Frames[m][3] = m.type /\ Frames[m][5] = Len(Body(m))
           /\ \A i \in 1 .. Len(Body(m)) : Frames[m][HeaderSize + i] = Body(m)[i]
<1> DEFINE u == Body(m)
           version == IF m.shape = "newer" THEN WireVersion + 1 ELSE WireVersion
           S == Nat \cup {m.type, Checksum(u)}
           h == <<Magic, version, m.type, 0, Len(u), Checksum(u)>>
<1>1. u \in Buffers /\ Len(u) \in Nat /\ u = Encode(Messages[m].type, Messages[m].value)
      /\ Messages[m].type = m.type
  <2>1. m \in Sent \cup Stored
    OBVIOUS
  <2>2. Messages[m] = [type |-> m.type, value |-> Values[m]]
    BY <2>1, Bodies
  <2>3. u \in Buffers /\ Len(u) \in Nat /\ u = Encode(Messages[m].type, Messages[m].value)
    BY <2>1, Bodies
  <2>4. QED
    BY <2>2, <2>3
<1>2. Frames[m] = h \o u
  BY <1>1 DEF Frames, EncodeFrame
<1>3. h \in Seq(S) /\ Len(h) = 6 /\ h[3] = m.type /\ h[5] = Len(u)
  BY <1>1 DEF Magic, WireVersion
<1>4. u \in Seq(S)
  BY <1>1 DEF Buffers
<1> HIDE DEF h, u, S
<1>5. /\ h \o u \in Seq(S) /\ Len(h \o u) = 6 + Len(u) /\ Len(h \o u) \in Nat
      /\ (h \o u)[3] = h[3] /\ (h \o u)[5] = h[5]
      /\ \A i \in 1 .. Len(u) : (h \o u)[6 + i] = u[i]
  <2>1. Len(h) = 6 /\ Len(u) \in Nat /\ 3 \in 1 .. 6 /\ 5 \in 1 .. 6
    BY <1>1, <1>3
  <2>2. /\ h \o u \in Seq(S) /\ Len(h \o u) = Len(h) + Len(u) /\ Len(h \o u) \in Nat
        /\ \A i \in 1 .. Len(h) : (h \o u)[i] = h[i]
        /\ \A i \in 1 .. Len(u) : (h \o u)[Len(h) + i] = u[i]
    <3>1. h \in Seq(S) /\ u \in Seq(S)
      BY <1>3, <1>4
    <3>2. QED
      BY <3>1, ConcatUnits
  <2>3. QED
    BY <2>1, <2>2
<1>6. QED
  BY <1>2, <1>3, <1>5 DEF u, HeaderSize

LEMMA Beginnings ==
    ASSUME NEW S, NEW s \in Seq(S), NEW n \in 0 .. Len(s)
    PROVE  /\ SubSeq(s, 1, n) \in Seq(S) /\ Len(SubSeq(s, 1, n)) = n
           /\ \A i \in 1 .. n : SubSeq(s, 1, n)[i] = s[i]
  OBVIOUS

LEMMA Ends ==
    ASSUME NEW S, NEW s \in Seq(S), NEW n \in 0 .. Len(s)
    PROVE  /\ SubSeq(s, n + 1, Len(s)) \in Seq(S) /\ Len(SubSeq(s, n + 1, Len(s))) = Len(s) - n
           /\ \A i \in 1 .. Len(s) - n : SubSeq(s, n + 1, Len(s))[i] = s[n + i]
<1> DEFINE q == SubSeq(s, n + 1, Len(s))
<1>1. q \in Seq(S) /\ Len(q) = Len(s) - n
  OBVIOUS
<1>2. ASSUME NEW i \in 1 .. Len(s) - n PROVE q[i] = s[n + i]
  <2>1. (n + 1) + i - 1 = n + i
    OBVIOUS
  <2>2. QED
    BY <2>1
<1>3. QED
  BY <1>1, <1>2

\* What n units of a frame say.
Beginning(m, n) == SubSeq(Frames[m], 1, n)

LEMMA FrameBeginning ==
    ASSUME NEW m \in Sent, NEW n \in 0 .. Len(Frames[m])
    PROVE  /\ Len(Beginning(m, n)) = n /\ \E S : Beginning(m, n) \in Seq(S)
           /\ n >= HeaderSize =>
                /\ Beginning(m, n)[3] = m.type /\ Beginning(m, n)[5] = Len(Body(m))
                /\ Payload(Beginning(m, n)) \in Buffers
                /\ Len(Payload(Beginning(m, n))) = n - HeaderSize
                /\ \A i \in 1 .. n - HeaderSize : Payload(Beginning(m, n))[i] = Body(m)[i]
<1> DEFINE q == Beginning(m, n)
<1>1. PICK S : Frames[m] \in Seq(S)
  BY FrameParts
<1>2. q \in Seq(S) /\ Len(q) = n /\ \A i \in 1 .. n : q[i] = Frames[m][i]
  BY <1>1, Beginnings DEF Beginning
<1> HIDE DEF q
<1>3. ASSUME n >= HeaderSize
      PROVE  /\ q[3] = m.type /\ q[5] = Len(Body(m))
             /\ Payload(q) \in Buffers /\ Len(Payload(q)) = n - HeaderSize
             /\ \A i \in 1 .. n - HeaderSize : Payload(q)[i] = Body(m)[i]
  <2>1. n \in Nat /\ n >= 6 /\ HeaderSize = 6
    BY <1>3, FrameParts DEF HeaderSize
  <2>2. q[3] = m.type /\ q[5] = Len(Body(m))
    BY <1>2, <2>1, FrameParts
  <2>3. /\ Payload(q) \in Seq(S) /\ Len(Payload(q)) = n - 6
        /\ \A i \in 1 .. n - 6 : Payload(q)[i] = q[6 + i]
    BY <1>2, <2>1, Ends DEF Payload
  <2>4. /\ Len(Frames[m]) = 6 + Len(Body(m)) /\ Len(Body(m)) \in Nat
        /\ \A i \in 1 .. Len(Body(m)) : Frames[m][6 + i] = Body(m)[i] /\ Body(m)[i] \in Nat
    <3>1. Body(m) \in Buffers /\ Len(Body(m)) \in Nat
      BY Bodies
    <3>2. \A i \in 1 .. Len(Body(m)) : Body(m)[i] \in Nat
      BY <3>1 DEF Buffers
    <3>3. QED
      BY <2>1, <3>1, <3>2, FrameParts
  <2>5. ASSUME NEW i \in 1 .. n - 6 PROVE Payload(q)[i] = Body(m)[i] /\ Payload(q)[i] \in Nat
    <3>1. 6 + i \in 1 .. n /\ i \in 1 .. Len(Body(m))
      BY <2>1, <2>4
    <3>2. QED
      BY <1>2, <2>3, <2>4, <3>1
  <2>6. Payload(q) \in Buffers
    BY <2>1, <2>3, <2>5 DEF Buffers
  <2>7. QED
    BY <2>1, <2>2, <2>3, <2>5, <2>6
<1>4. QED
  BY <1>2, <1>3 DEF q

LEMMA FrameWanted ==
    ASSUME NEW m \in Sent, NEW n \in 0 .. Len(Frames[m])
    PROVE  /\ Wanted(Beginning(m, n)) \in Int /\ n + Wanted(Beginning(m, n)) <= Len(Frames[m])
           /\ n >= HeaderSize /\ DecodeFrameHeader(Beginning(m, n)) =>
                n + Wanted(Beginning(m, n)) = Len(Frames[m])
<1> DEFINE q == Beginning(m, n)
<1>1. Len(q) = n /\ (n >= HeaderSize => q[5] = Len(Body(m)))
  BY FrameBeginning
<1>2. /\ Len(Frames[m]) = HeaderSize + Len(Body(m)) /\ Len(Body(m)) \in Nat
      /\ HeaderSize = 6 /\ n \in Nat /\ n <= Len(Frames[m])
  BY FrameParts, Bodies DEF HeaderSize
<1> HIDE DEF q
<1>3. CASE n < HeaderSize
  <2>1. Wanted(q) = HeaderSize - n
    BY <1>1, <1>2, <1>3 DEF Wanted
  <2>2. QED
    BY <1>1, <1>2, <1>3, <2>1 DEF q
<1>4. CASE n >= HeaderSize /\ ~DecodeFrameHeader(q)
  <2>1. Wanted(q) = 0
    BY <1>1, <1>2, <1>4 DEF Wanted
  <2>2. QED
    BY <1>2, <1>4, <2>1 DEF q
<1>5. CASE n >= HeaderSize /\ DecodeFrameHeader(q)
  <2>1. Wanted(q) = HeaderSize + Len(Body(m)) - n
    BY <1>1, <1>2, <1>5 DEF Wanted
  <2>2. QED
    BY <1>2, <2>1 DEF q
<1>6. QED
  BY <1>2, <1>3, <1>4, <1>5

(***************************************************************************)
(* The call                                                                *)
(***************************************************************************)
ClientStates == {"idle", "sending", "receiving", "returned", "failed"}
ServerStates == {"reading", "handling", "replying", "waiting", "closed", "down"}

\* Neither side holds more than the frame it reads; a reply exists from the moment
\* the request was refused or handled, and nothing is received before; what was
\* handled or returned is a message that was understood.
CallInv ==
    /\ toServer \in Nat /\ toClient \in Nat
    /\ client \in [pc : ClientStates, call : Calls, sent : Nat, got : Nat]
    /\ server \in [pc : ServerStates, got : Nat, handled : BOOLEAN,
                   reply : Sent \cup {Nothing}, sent : Nat]
    /\ server.got <= Len(Frames[client.call])
    /\ server.reply # Nothing => client.got <= Len(Frames[server.reply])
    /\ server.reply = Nothing => client.got = 0 /\ toClient = 0 /\ client.pc # "returned"
    /\ server.pc \in {"reading", "handling"} => server.reply = Nothing
    /\ server.pc \in {"replying", "waiting"} => server.reply # Nothing
    /\ server.pc = "reading" => ~server.handled
    /\ server.handled => Understood[client.call].ok
    /\ client.pc = "returned" => Understood[server.reply].ok

LEMMA SentMessages ==
    /\ Calls \subseteq Sent /\ Nothing \notin Sent
    /\ \A call \in Calls : Refusals(call.type) \cup Replies(call.type) \subseteq Sent
    /\ \A m \in Sent : Len(Frames[m]) \in Nat /\ Frames[m][3] = m.type
<1>1. Calls \subseteq Sent /\ \A call \in Calls :
        Refusals(call.type) \cup Replies(call.type) \subseteq Sent
  BY DEF Sent
<1>2. Nothing \notin Sent
  <2>1. Nothing.type = "nothing" /\ "nothing" \notin DOMAIN Written
    BY DEF Nothing, Written
  <2>2. QED
    BY <2>1, MessageTypes
<1>3. QED
  BY <1>1, <1>2, FrameParts

LEMMA Receiving ==
    ASSUME NEW m \in Sent, NEW got \in Nat, got <= Len(Frames[m]), NEW pipe \in Nat,
           NEW n \in 1 .. Least(Wanted(SubSeq(Frames[m], 1, got)), pipe)
    PROVE  got + n \in Nat /\ got + n <= Len(Frames[m]) /\ pipe - n \in Nat
<1> DEFINE wanted == Wanted(Beginning(m, got))
<1>1. Len(Frames[m]) \in Nat /\ got \in 0 .. Len(Frames[m])
  BY FrameParts
<1>2. wanted \in Int /\ got + wanted <= Len(Frames[m])
  BY <1>1, FrameWanted
<1>3. n \in 1 .. Least(wanted, pipe)
  BY DEF Beginning
<1> HIDE DEF wanted
<1>4. n \in Nat /\ n <= wanted /\ n <= pipe
  BY <1>2, <1>3 DEF Least
<1>5. QED
  BY <1>1, <1>2, <1>4

LEMMA CallInvInit == Init => CallInv
<1> SUFFICES ASSUME Init PROVE CallInv
  OBVIOUS
<1>1. PICK call \in Calls : client = [pc |-> "idle", call |-> call, sent |-> 0, got |-> 0]
  BY DEF Init
<1>2. Len(Frames[call]) \in Nat
  BY SentMessages
<1>3. QED
  BY <1>1, <1>2 DEF Init, CallInv, ClientStates, ServerStates

LEMMA CallInvNext == CallInv /\ [Next]_vars => CallInv'
<1> SUFFICES ASSUME CallInv, [Next]_vars PROVE CallInv'
  OBVIOUS
<1>1. CASE Ask
  BY <1>1 DEF CallInv, Ask, ClientStates
<1>2. CASE ClientSend
  <2>1. PICK n \in 1 .. Least(Len(Request) - client.sent, Room(toServer)) :
            /\ toServer' = toServer + n
            /\ client' = [client EXCEPT
                            !.sent = client.sent + n,
                            !.pc = IF client.sent + n = Len(Request) THEN "receiving" ELSE "sending"]
    BY <1>2 DEF ClientSend
  <2>2. toServer' \in Nat /\ client.sent + n \in Nat
    BY <2>1 DEF CallInv
  <2>3. QED
    BY <1>2, <2>1, <2>2 DEF CallInv, ClientSend, ClientStates
<1>3. CASE ClientReceive
  <2>1. PICK n \in 1 .. Least(Wanted(ClientHolds), toClient) :
            client' = [client EXCEPT !.got = client.got + n] /\ toClient' = toClient - n
    BY <1>3 DEF ClientReceive
  <2>2. server.reply \in Sent
    BY <1>3 DEF ClientReceive, CallInv
  <2>3. client.got + n \in Nat /\ client.got + n <= Len(Frames[server.reply]) /\
          toClient - n \in Nat
    BY <2>2, Receiving DEF CallInv, ClientHolds, Reply
  <2>4. QED
    BY <1>3, <2>1, <2>2, <2>3, SentMessages DEF CallInv, ClientReceive
<1>4. CASE ClientReturn
  <2>1. /\ server.reply # Nothing /\ client' = [client EXCEPT !.pc = client'.pc]
        /\ client'.pc = "returned" => Understood[server.reply].ok
        /\ client'.pc \in {"returned", "failed"}
    BY <1>4 DEF ClientReturn, ReplyIsHere, Accepted, CallInv
  <2>2. QED
    BY <1>4, <2>1 DEF CallInv, ClientReturn, ClientStates
<1>5. CASE ClientFail
  BY <1>5 DEF CallInv, ClientFail, ClientStates
<1>6. CASE Hangup
  BY <1>6 DEF CallInv, Hangup
<1>7. CASE ServerReceive
  <2>1. PICK n \in 1 .. Least(Wanted(ServerHolds), toServer) :
            server' = [server EXCEPT !.got = server.got + n] /\ toServer' = toServer - n
    BY <1>7 DEF ServerReceive
  <2>2. client.call \in Sent
    BY SentMessages DEF CallInv
  <2>3. server.got + n \in Nat /\ server.got + n <= Len(Frames[client.call]) /\ toServer - n \in Nat
    BY <2>2, Receiving DEF CallInv, ServerHolds, Request
  <2>4. QED
    BY <1>7, <2>1, <2>3 DEF CallInv, ServerReceive
<1>8. CASE Drop
  BY <1>8 DEF CallInv, Drop, ServerStates
<1>9. CASE Dispatch
  <2>1. CASE Accepted(Request[3], Understood[client.call])
    <3>1. server' = [server EXCEPT !.pc = "handling", !.handled = TRUE]
      BY <1>9, <2>1 DEF Dispatch
    <3>2. Understood[client.call].ok
      BY <2>1 DEF Accepted
    <3>3. QED
      BY <1>9, <3>1, <3>2 DEF CallInv, Dispatch, ServerStates
  <2>2. CASE ~Accepted(Request[3], Understood[client.call])
    <3>1. PICK reply \in Refusals(Request[3]) :
            server' = [server EXCEPT !.pc = "replying", !.reply = reply]
      BY <1>9, <2>2 DEF Dispatch
    <3>2. client.call \in Calls /\ Request[3] = client.call.type
      BY SentMessages DEF CallInv, Request
    <3>3. reply \in Sent /\ reply # Nothing /\ Len(Frames[reply]) \in Nat
      BY <3>1, <3>2, SentMessages
    <3>4. /\ server'.pc = "replying" /\ server'.reply = reply /\ server'.got = server.got
          /\ server'.handled = server.handled /\ server'.sent = server.sent
          /\ server' \in [pc : ServerStates, got : Nat, handled : BOOLEAN,
                          reply : Sent \cup {Nothing}, sent : Nat]
      BY <3>1, <3>3 DEF CallInv, ServerStates
    <3>5. server.reply = Nothing /\ UNCHANGED <<toServer, toClient, client>>
      BY <1>9 DEF Dispatch
    <3>6. QED
      BY <3>3, <3>4, <3>5 DEF CallInv
  <2>3. QED
    BY <2>1, <2>2
<1>10. CASE AppendRecord
  BY <1>10 DEF CallInv, AppendRecord
<1>11. CASE Store
  BY <1>11 DEF CallInv, Store
<1>12. CASE Respond
  <2>1. PICK reply \in Replies(client.call.type) :
            \E pc \in {"replying", "closed"} : server' = [server EXCEPT !.pc = pc, !.reply = reply]
    BY <1>12 DEF Respond
  <2>2. client.call \in Calls
    BY DEF CallInv
  <2>3. reply \in Sent /\ reply # Nothing /\ Len(Frames[reply]) \in Nat
    BY <2>1, <2>2, SentMessages
  <2>4. /\ server'.pc \in {"replying", "closed"} /\ server'.reply = reply
        /\ server'.got = server.got /\ server'.handled = server.handled
        /\ server' \in [pc : ServerStates, got : Nat, handled : BOOLEAN,
                        reply : Sent \cup {Nothing}, sent : Nat]
    BY <2>1, <2>3 DEF CallInv, ServerStates
  <2>5. server.pc = "handling" /\ UNCHANGED <<toServer, toClient, client>>
    BY <1>12 DEF Respond
  <2>6. QED
    BY <2>3, <2>4, <2>5 DEF CallInv
<1>13. CASE ServerSend
  <2>1. PICK n \in 1 .. Least(Len(Reply) - server.sent, Room(toClient)) :
            /\ toClient' = toClient + n
            /\ server' = [server EXCEPT
                            !.sent = server.sent + n,
                            !.pc = IF server.sent + n = Len(Reply) THEN "waiting" ELSE "replying"]
    BY <1>13 DEF ServerSend
  <2>2. toClient' \in Nat /\ server.sent + n \in Nat
    BY <2>1 DEF CallInv
  <2>3. QED
    BY <1>13, <2>1, <2>2 DEF CallInv, ServerSend, ServerStates
<1>14. CASE ServerFail
  BY <1>14 DEF CallInv, ServerFail, ServerStates
<1>15. CASE Interrupt
  BY <1>15 DEF CallInv, Interrupt
<1>16. CASE Crash
  BY <1>16 DEF CallInv, Crash, ServerStates
<1>17. CASE UNCHANGED vars
  BY <1>17 DEF CallInv, vars
<1>18. QED
  BY <1>1, <1>2, <1>3, <1>4, <1>5, <1>6, <1>7, <1>8, <1>9, <1>10, <1>11, <1>12, <1>13, <1>14,
     <1>15, <1>16, <1>17 DEF Next, Client, Server

\* The invariant the other results rest on.
THEOREM WireInvariant == Spec => []CallInv
<1>1. QED
  BY CallInvInit, CallInvNext, PTL DEF Spec

LEMMA DelimitedBeginnings ==
    ASSUME NEW m \in Sent, NEW n \in 0 .. Len(Frames[m])
    PROVE  Delimited(Beginning(m, n))
<1> DEFINE q == Beginning(m, n)
           u == Body(m)
<1> SUFFICES ASSUME Len(q) >= HeaderSize, DecodeFrameHeader(q)
             PROVE  ~Decode(q[3], Payload(IF Wanted(q) > 0 THEN q ELSE Append(q, 0))).ok
  BY DEF Delimited
<1>1. /\ u \in Buffers /\ Len(u) \in Nat
      /\ \A b \in Buffers : CutAt(b, 1, u) => Decode(m.type, b) = Failed
      /\ \A b \in Buffers : HoldsAt(b, 1, u) /\ Len(b) > Len(u) => Decode(m.type, b) = Failed
  BY Bodies
<1>2. Len(q) = n /\ HeaderSize = 6 /\ n \in Nat /\ n >= 6 /\ Len(Frames[m]) = 6 + Len(u)
  BY FrameBeginning, FrameParts DEF HeaderSize
<1>3. /\ q[3] = m.type /\ Payload(q) \in Buffers /\ Len(Payload(q)) = n - 6
      /\ \A i \in 1 .. n - 6 : Payload(q)[i] = u[i]
  BY <1>2, FrameBeginning
<1>4. Wanted(q) \in Int /\ n + Wanted(q) = 6 + Len(u)
  BY <1>2, FrameWanted
<1>5. PICK S : q \in Seq(S)
  BY FrameBeginning
<1> HIDE DEF q, u
<1>6. CASE Wanted(q) > 0
  <2>1. CutAt(Payload(q), 1, u)
    <3>1. \A i \in 1 .. Len(u) : 1 - 1 + i = i
      BY <1>1
    <3>2. QED
      BY <1>1, <1>2, <1>3, <1>4, <1>6, <3>1 DEF CutAt
  <2>2. QED
    BY <1>1, <1>3, <1>6, <2>1, Outcomes
<1>7. CASE ~(Wanted(q) > 0)
  <2> DEFINE t == Append(q, 0)
             p == Payload(t)
  <2>1. n = 6 + Len(u)
    BY <1>1, <1>2, <1>4, <1>7
  <2>2. /\ t \in Seq(S \cup {0}) /\ Len(t) = n + 1 /\ t[n + 1] = 0
        /\ \A i \in 1 .. n : t[i] = q[i]
    BY <1>2, <1>5
  <2> HIDE DEF t
  <2>3. /\ p \in Seq(S \cup {0}) /\ Len(p) = Len(u) + 1 /\ \A i \in 1 .. Len(u) + 1 :
          p[i] = t[6 + i]
    <3>1. 6 \in 0 .. Len(t) /\ Len(t) - 6 = Len(u) + 1 /\ HeaderSize + 1 = 6 + 1
      BY <1>1, <1>2, <2>1, <2>2
    <3>2. p = SubSeq(t, 6 + 1, Len(t))
      BY <3>1 DEF Payload
    <3>3. QED
      BY <2>2, <3>1, <3>2, Ends
  <2>4. \A i \in 1 .. Len(u) : Payload(q)[i] = q[6 + i]
    <3>1. 6 \in 0 .. Len(q) /\ Len(q) - 6 = Len(u) /\ Payload(q) = SubSeq(q, 6 + 1, Len(q))
      BY <1>1, <1>2, <2>1 DEF Payload
    <3>2. QED
      BY <1>5, <3>1, Ends
  <2>5. ASSUME NEW i \in 1 .. Len(u) PROVE p[i] = u[i]
    <3>1. 6 + i \in 1 .. n /\ i \in 1 .. n - 6 /\ i \in 1 .. Len(u) + 1
      BY <1>1, <2>1
    <3>2. QED
      BY <1>3, <2>2, <2>3, <2>4, <3>1
  <2>6. p[Len(u) + 1] = 0
    <3>1. Len(u) + 1 \in 1 .. Len(u) + 1 /\ 6 + (Len(u) + 1) = n + 1
      BY <1>1, <2>1
    <3>2. QED
      BY <2>2, <2>3, <3>1
  <2> HIDE DEF p
  <2>7. p \in Buffers
    <3>1. \A i \in 1 .. Len(u) : u[i] \in Nat
      BY <1>1 DEF Buffers
    <3>2. \A i \in 1 .. Len(u) + 1 : p[i] \in Nat
      BY <1>1, <2>5, <2>6, <3>1
    <3>3. QED
      BY <1>1, <2>3, <3>2, SMTT(30) DEF Buffers
  <2>8. HoldsAt(p, 1, u) /\ Len(p) > Len(u)
    <3>1. \A i \in 1 .. Len(u) : 1 - 1 + i = i
      BY <1>1
    <3>2. QED
      BY <1>1, <2>3, <2>5, <3>1 DEF HoldsAt
  <2>9. Decode(m.type, p) = Failed
    BY <1>1, <2>7, <2>8
  <2>10. QED
    BY <1>3, <1>7, <2>9, Outcomes DEF p, t
<1>8. QED
  BY <1>6, <1>7

\* For every message the types of the program can hold, however the stream is cut:
\* no decoder accepts the beginning of a payload, or a payload and more.
THEOREM WireIsSelfDelimiting == Spec => []SelfDelimiting
<1>1. CallInv => SelfDelimiting
  <2> SUFFICES ASSUME CallInv PROVE SelfDelimiting
    OBVIOUS
  <2>1. client.call \in Sent /\ Len(Frames[client.call]) \in Nat /\
          server.got \in 0 .. Len(Frames[client.call])
    BY SentMessages DEF CallInv
  <2>2. Delimited(ServerHolds)
    BY <2>1, DelimitedBeginnings DEF ServerHolds, Request, Beginning
  <2>3. ASSUME server.reply # Nothing PROVE Delimited(ClientHolds)
    <3>1. server.reply \in Sent /\ client.got \in 0 .. Len(Frames[server.reply])
      BY <2>3, SentMessages DEF CallInv
    <3>2. QED
      BY <3>1, DelimitedBeginnings DEF ClientHolds, Reply, Beginning
  <2>4. QED
    BY <2>2, <2>3 DEF SelfDelimiting
<1>2. QED
  BY <1>1, WireInvariant, PTL

\* A message that is understood is the message that was sent.
LEMMA UnderstoodAsSent ==
    ASSUME NEW m \in Sent, Understood[m].ok
    PROVE  As(m) = Messages[m]
<1> DEFINE F == Frames[m]
<1>1. PICK S : F \in Seq(S)
  BY FrameParts
<1>2. /\ Len(F) = 6 + Len(Body(m)) /\ F[3] = m.type /\ HeaderSize = 6
      /\ \A i \in 1 .. Len(Body(m)) : F[6 + i] = Body(m)[i]
  BY FrameParts DEF HeaderSize
<1>3. /\ Body(m) \in Seq(Nat) /\ Len(Body(m)) \in Nat
      /\ Decode(m.type, Body(m)) \in {Got(Values[m], Len(Body(m)) + 1), Failed}
      /\ Messages[m] = [type |-> m.type, value |-> Values[m]]
  BY Bodies DEF Buffers
<1>4. Payload(F) = SubSeq(F, 6 + 1, Len(F)) /\ Understood[m] = Decode(F[3], Payload(F))
  BY <1>2 DEF Payload, Understood
<1> HIDE DEF F
<1>5. /\ Payload(F) \in Seq(S) /\ Len(Payload(F)) = Len(Body(m))
      /\ \A i \in 1 .. Len(Body(m)) : Payload(F)[i] = Body(m)[i]
  <2>1. 6 \in 0 .. Len(F) /\ Len(F) - 6 = Len(Body(m))
    BY <1>2, <1>3
  <2>2. QED
    BY <1>1, <1>2, <1>4, <2>1, Ends
<1>6. Payload(F) = Body(m)
  <2>1. Payload(F) \in Seq(S \cup Nat) /\ Body(m) \in Seq(S \cup Nat)
    BY <1>3, <1>5
  <2>2. QED
    BY <1>5, <2>1, SeqEqual
<1>7. Understood[m] = Got(Values[m], Len(Body(m)) + 1)
  BY <1>2, <1>3, <1>4, <1>6, Outcomes
<1>8. As(m) = [type |-> m.type, value |-> Values[m]]
  BY <1>2, <1>7, Outcomes DEF As, F
<1>9. QED
  BY <1>3, <1>8

\* The terms of Call, in the states of the wire.
Handled == IF server.handled THEN As(client.call) ELSE Nothing
Answered == IF server.reply = Nothing THEN Nothing ELSE Messages[server.reply]
Told == CASE client.pc = "returned" -> As(server.reply)
          [] client.pc = "failed" -> Failure
          [] OTHER -> Nothing

LEMMA CarriedTerms ==
    /\ Carried!Init <=> Handled = Nothing /\ Answered = Nothing /\ Told = Nothing
    /\ Carried!Handle <=> /\ Handled = Nothing /\ Answered = Nothing
                          /\ Handled' = Messages[client.call]
                          /\ UNCHANGED <<Messages[client.call], Answered, Told>>
    /\ Carried!Answer <=> /\ Answered = Nothing /\ Answered' # Nothing
                          /\ UNCHANGED <<Messages[client.call], Handled, Told>>
    /\ Carried!Tell <=> /\ Answered # Nothing /\ Told = Nothing /\ Told' = Answered
                        /\ UNCHANGED <<Messages[client.call], Handled, Answered>>
    /\ Carried!Fail <=> /\ Told = Nothing /\ Told' = Failure
                        /\ UNCHANGED <<Messages[client.call], Handled, Answered>>
    /\ UNCHANGED Carried!vars <=> UNCHANGED <<Messages[client.call], Handled, Answered, Told>>
  BY DEF Carried!Init, Carried!Handle, Carried!Answer, Carried!Tell, Carried!Fail, Carried!vars,
         Handled, Answered, Told

\* Nothing that Call speaks of changes.
Unmoved == /\ client'.call = client.call /\ client'.pc = client.pc
           /\ server'.handled = server.handled /\ server'.reply = server.reply

LEMMA TermsFollow ==
    /\ client'.call = client.call => Messages[client.call]' = Messages[client.call]
    /\ client'.call = client.call /\ server'.handled = server.handled => Handled' = Handled
    /\ server'.reply = server.reply => Answered' = Answered
    /\ client.pc \notin {"returned", "failed"} => Told = Nothing
    /\ client'.pc \notin {"returned", "failed"} => Told' = Nothing
    /\ client'.pc = "failed" => Told' = Failure
    /\ client'.pc = client.pc /\ (client.pc = "returned" => server'.reply = server.reply) =>
            Told' = Told
<1>1. client'.call = client.call => Messages[client.call]' = Messages[client.call]
  OBVIOUS
<1>2. client'.call = client.call /\ server'.handled = server.handled => Handled' = Handled
  BY DEF Handled
<1>3. server'.reply = server.reply => Answered' = Answered
  BY DEF Answered
<1>4. /\ client.pc \notin {"returned", "failed"} => Told = Nothing
      /\ client'.pc \notin {"returned", "failed"} => Told' = Nothing
      /\ client'.pc = "failed" => Told' = Failure
  BY DEF Told
<1>5. client'.pc = client.pc /\ (client.pc = "returned" => server'.reply = server.reply) =>
            Told' = Told
  BY DEF Told
<1>6. QED
  BY <1>1, <1>2, <1>3, <1>4, <1>5

LEMMA AnswerIsNotNothing == \A m \in Sent : Messages[m] # Nothing /\ Messages[m].type = m.type
<1> SUFFICES ASSUME NEW m \in Sent PROVE Messages[m] # Nothing /\ Messages[m].type = m.type
  OBVIOUS
<1>1. Messages[m] = [type |-> m.type, value |-> Values[m]]
  BY Bodies
<1>2. m.type \in DOMAIN Written /\ "nothing" \notin DOMAIN Written /\ Nothing.type = "nothing"
  BY MessageTypes DEF Written, Nothing
<1>3. QED
  BY <1>1, <1>2

LEMMA CarriedInit == Init => Carried!Init
<1> SUFFICES ASSUME Init PROVE Carried!Init
  OBVIOUS
<1>1. client.pc = "idle" /\ server.handled = FALSE /\ server.reply = Nothing
  BY DEF Init
<1>2. QED
  BY <1>1, CarriedTerms DEF Handled, Answered, Told

LEMMA CarriedNext == CallInv /\ CallInv' /\ [Next]_vars => [Carried!Next]_(Carried!vars)
<1> SUFFICES ASSUME CallInv, CallInv', [Next]_vars PROVE [Carried!Next]_(Carried!vars)
  OBVIOUS
<1>1. ASSUME Unmoved PROVE UNCHANGED Carried!vars
  BY <1>1, TermsFollow, CarriedTerms DEF Unmoved
<1>2. ASSUME client'.call = client.call, client.pc \notin {"returned", "failed"},
             client'.pc = "failed", server' = server
      PROVE  Carried!Fail
  BY <1>2, TermsFollow, CarriedTerms
<1>3. ASSUME client'.call = client.call, client.pc \notin {"returned", "failed"},
             client'.pc \notin {"returned", "failed"}, server' = server
      PROVE  UNCHANGED Carried!vars
  BY <1>3, TermsFollow, CarriedTerms
<1>4. ASSUME client' = client, server.reply = Nothing, server'.reply \in Sent,
             server'.handled = server.handled
      PROVE  Carried!Answer
  <2>1. Answered = Nothing
    BY <1>4 DEF Answered
  <2>2. Answered' # Nothing
    BY <1>4, SentMessages, AnswerIsNotNothing DEF Answered
  <2>3. client.pc # "returned"
    BY <1>4 DEF CallInv
  <2>4. QED
    BY <1>4, <2>1, <2>2, <2>3, TermsFollow, CarriedTerms
<1>5. CASE Ask
  <2>1. client.pc = "idle" /\ client'.pc \in {"failed", "sending"} /\ client'.call = client.call
        /\ server' = server
    BY <1>5 DEF Ask, CallInv
  <2>2. QED
    BY <1>2, <1>3, <2>1 DEF Carried!Next
<1>6. CASE ClientSend
  <2>1. client.pc = "sending" /\ client'.pc \in {"receiving", "sending"}
        /\ client'.call = client.call /\ server' = server
    BY <1>6 DEF ClientSend, CallInv
  <2>2. QED
    BY <1>3, <2>1
<1>7. CASE ClientReceive
  <2>1. Unmoved
    BY <1>7 DEF ClientReceive, CallInv, Unmoved
  <2>2. QED
    BY <1>1, <2>1
<1>8. CASE ClientReturn
  <2>1. /\ client.pc = "receiving" /\ client'.pc \in {"returned", "failed"}
        /\ client'.call = client.call /\ server' = server /\ server.reply # Nothing
    BY <1>8 DEF ClientReturn, CallInv, ReplyIsHere
  <2>2. CASE client'.pc = "returned"
    <3>1. server.reply \in Sent /\ Understood[server.reply].ok
      BY <2>1, <2>2 DEF CallInv
    <3>2. Answered = Messages[server.reply] /\ Answered # Nothing
      BY <2>1, <3>1, AnswerIsNotNothing DEF Answered
    <3>3. Told' = As(server.reply)
      BY <2>1, <2>2 DEF Told
    <3>4. As(server.reply) = Messages[server.reply]
      BY <3>1, UnderstoodAsSent
    <3>5. Carried!Tell
      BY <2>1, <3>2, <3>3, <3>4, TermsFollow, CarriedTerms
    <3>6. QED
      BY <3>5 DEF Carried!Next
  <2>3. CASE client'.pc = "failed"
    BY <1>2, <2>1, <2>3 DEF Carried!Next
  <2>4. QED
    BY <2>1, <2>2, <2>3
<1>9. CASE ClientFail
  <2>1. client.pc \in {"sending", "receiving"} /\ client'.pc = "failed"
        /\ client'.call = client.call /\ server' = server
    BY <1>9 DEF ClientFail, CallInv
  <2>2. QED
    BY <1>2, <2>1 DEF Carried!Next
<1>10. CASE Hangup
  BY <1>1, <1>10 DEF Hangup, Unmoved
<1>11. CASE ServerReceive
  <2>1. Unmoved
    BY <1>11 DEF ServerReceive, CallInv, Unmoved
  <2>2. QED
    BY <1>1, <2>1
<1>12. CASE Drop
  <2>1. Unmoved
    BY <1>12 DEF Drop, CallInv, Unmoved
  <2>2. QED
    BY <1>1, <2>1
<1>13. CASE Dispatch
  <2>1. CASE Accepted(Request[3], Understood[client.call])
    <3>1. /\ server' = [server EXCEPT !.pc = "handling", !.handled = TRUE] /\ client' = client
          /\ server.pc = "reading" /\ server.reply = Nothing
      BY <1>13, <2>1 DEF Dispatch
    <3>2. server'.handled = TRUE /\ server'.reply = server.reply /\ server.handled = FALSE
      BY <3>1 DEF CallInv
    <3>3. client.call \in Sent /\ Understood[client.call].ok
      BY <2>1, SentMessages DEF CallInv, Accepted
    <3>4. As(client.call) = Messages[client.call]
      BY <3>3, UnderstoodAsSent
    <3>5. Handled = Nothing /\ Handled' = Messages[client.call] /\ Answered = Nothing
      BY <3>1, <3>2, <3>4 DEF Handled, Answered
    <3>6. Carried!Handle
      BY <3>1, <3>2, <3>5, TermsFollow, CarriedTerms
    <3>7. QED
      BY <3>6 DEF Carried!Next
  <2>2. CASE ~Accepted(Request[3], Understood[client.call])
    <3>1. PICK reply \in Refusals(Request[3]) :
            server' = [server EXCEPT !.pc = "replying", !.reply = reply]
      BY <1>13, <2>2 DEF Dispatch
    <3>2. client.call \in Calls /\ Request[3] = client.call.type
      BY SentMessages DEF CallInv, Request
    <3>3. reply \in Sent
      BY <3>1, <3>2, SentMessages
    <3>4. server'.reply = reply /\ server'.handled = server.handled
      BY <3>1 DEF CallInv
    <3>5. server.reply = Nothing /\ client' = client
      BY <1>13 DEF Dispatch
    <3>6. QED
      BY <1>4, <3>3, <3>4, <3>5 DEF Carried!Next
  <2>3. QED
    BY <2>1, <2>2
<1>14. CASE AppendRecord
  BY <1>1, <1>14 DEF AppendRecord, Unmoved
<1>15. CASE Store
  BY <1>1, <1>15 DEF Store, Unmoved
<1>16. CASE Respond
  <2>1. PICK reply \in Replies(client.call.type) :
            \E pc \in {"replying", "closed"} : server' = [server EXCEPT !.pc = pc, !.reply = reply]
    BY <1>16 DEF Respond
  <2>2. client.call \in Calls
    BY DEF CallInv
  <2>3. reply \in Sent
    BY <2>1, <2>2, SentMessages
  <2>4. server'.reply = reply /\ server'.handled = server.handled
    BY <2>1 DEF CallInv
  <2>5. server.reply = Nothing /\ client' = client
    BY <1>16 DEF Respond, CallInv
  <2>6. QED
    BY <1>4, <2>3, <2>4, <2>5 DEF Carried!Next
<1>17. CASE ServerSend
  <2>1. Unmoved
    BY <1>17 DEF ServerSend, CallInv, Unmoved
  <2>2. QED
    BY <1>1, <2>1
<1>18. CASE ServerFail
  <2>1. Unmoved
    BY <1>18 DEF ServerFail, CallInv, Unmoved
  <2>2. QED
    BY <1>1, <2>1
<1>19. CASE Interrupt
  BY <1>1, <1>19 DEF Interrupt, Unmoved
<1>20. CASE Crash
  <2>1. Unmoved
    BY <1>20 DEF Crash, CallInv, Unmoved
  <2>2. QED
    BY <1>1, <2>1
<1>21. CASE UNCHANGED vars
  BY <1>1, <1>21 DEF vars, Unmoved
<1>22. QED
  BY <1>5, <1>6, <1>7, <1>8, <1>9, <1>10, <1>11, <1>12, <1>13, <1>14, <1>15, <1>16, <1>17, <1>18,
     <1>19, <1>20, <1>21 DEF Next, Client, Server

\* Encoders, framing, a stream that is cut into pieces anywhere and may end
\* anywhere, and decoders together are a call: the coordinator handles the request
\* that was made, at most once, and the publisher is told what it answered.
THEOREM WireImplementsCall == Spec => ImplementsCall
<1>1. Spec => []CallInv
  BY WireInvariant
<1>2. QED
  BY <1>1, CarriedInit, CarriedNext, PTL DEF Spec, ImplementsCall, Carried!Spec

(***************************************************************************)
(* The journal.  Its file, the scan of it and what recovery keeps are      *)
(* tables that satisfy the equations they are defined by.                  *)
(***************************************************************************)
FileStep(records, g, n) ==
    IF n = 0 THEN << >>
    ELSE g[n - 1] \o RecordImage(Messages[records[n]], n, IF n = 1 THEN 0 ELSE Last(g[n - 1]))
FileTable(records) == CHOOSE g : g = [n \in 0 .. Len(records) |-> FileStep(records, g, n)]

LEMMA FileTableDefined ==
    ASSUME NEW records, Len(records) \in Nat
    PROVE  /\ File(records) = FileTable(records)[Len(records)]
           /\ \A n \in 0 .. Len(records) :
                   FileTable(records)[n] = FileStep(records, FileTable(records), n)
<1> DEFINE Fcn(g, n) == [i \in 0 .. n |-> FileStep(records, g, i)]
           Good == {n \in Nat : \E g : g = Fcn(g, n)}
<1>1. 0 \in Good
  <2> DEFINE g == [i \in 0 .. 0 |-> << >>]
  <2>1. \A i \in 0 .. 0 : FileStep(records, g, i) = << >>
    BY DEF FileStep
  <2>2. g = Fcn(g, 0)
    BY <2>1
  <2> HIDE DEF g
  <2>3. QED
    BY <2>2
<1>2. ASSUME NEW n \in Nat, n \in Good PROVE n + 1 \in Good
  <2>1. PICK g : g = Fcn(g, n)
    BY <1>2
  <2> DEFINE h == [i \in 0 .. n + 1 |-> IF i \in 0 .. n THEN g[i] ELSE FileStep(records, g, i)]
  <2>2. \A i \in 0 .. n : h[i] = g[i] /\ g[i] = FileStep(records, g, i)
    BY <2>1
  <2>3. \A i \in 0 .. n + 1 : h[i] = FileStep(records, g, i)
    BY <2>2
  <2>4. h = [i \in 0 .. n + 1 |-> h[i]]
    OBVIOUS
  <2> HIDE DEF h
  <2>5. \A i \in 0 .. n + 1 : FileStep(records, g, i) = FileStep(records, h, i)
    <3> TAKE i \in 0 .. n + 1
    <3>1. i # 0 => i - 1 \in 0 .. n
      OBVIOUS
    <3>2. i # 0 => g[i - 1] = h[i - 1]
      BY <2>2, <3>1
    <3>3. QED
      BY <3>2 DEF FileStep
  <2>6. h = Fcn(h, n + 1)
    BY <2>3, <2>4, <2>5
  <2>7. QED
    BY <2>6
<1>3. Nat \subseteq Good
  BY <1>1, <1>2, NatSetInduction
<1>4. \E g : g = Fcn(g, Len(records))
  BY <1>3
<1> DEFINE t == FileTable(records)
<1>5. t = Fcn(t, Len(records))
  BY <1>4 DEF FileTable
<1>6. File(records) = t[Len(records)]
  BY DEF File, FileTable, FileStep
<1> HIDE DEF t
<1>7. \A n \in 0 .. Len(records) : t[n] = FileStep(records, t, n)
  BY <1>5
<1>8. QED
  BY <1>6, <1>7 DEF t

ScanStep(file, g, n) ==
    IF n = 0 THEN [at |-> 0, previous |-> 0, records |-> << >>]
    ELSE LET s == g[n - 1]
             next == s.at + RecordTotal(file, s.at)
         IN  IF ~RecordSound(file, s.at, Len(s.records) + 1, s.previous) THEN s
             ELSE [at |-> next, previous |-> file[next],
                   records |-> Append(s.records, [code |-> file[s.at + 3],
                                                  payload |-> RecordPayload(file, s.at)])]
ScanTable(file) == CHOOSE g : g = [n \in 0 .. Len(file) \div (RecordHeaderSize + 1) |-> ScanStep(file, g, n)]

LEMMA ScanTableDefined ==
    ASSUME NEW file, Len(file) \div (RecordHeaderSize + 1) \in Nat
    PROVE  /\ Scan(file) = ScanTable(file)[Len(file) \div (RecordHeaderSize + 1)].records
           /\ \A n \in 0 .. Len(file) \div (RecordHeaderSize + 1) :
                   ScanTable(file)[n] = ScanStep(file, ScanTable(file), n)
<1> DEFINE Fcn(g, n) == [i \in 0 .. n |-> ScanStep(file, g, i)]
           Good == {n \in Nat : \E g : g = Fcn(g, n)}
<1>1. 0 \in Good
  <2> DEFINE g == [i \in 0 .. 0 |-> [at |-> 0, previous |-> 0, records |-> << >>]]
  <2>1. \A i \in 0 .. 0 : ScanStep(file, g, i) = [at |-> 0, previous |-> 0, records |-> << >>]
    BY DEF ScanStep
  <2>2. g = Fcn(g, 0)
    BY <2>1
  <2> HIDE DEF g
  <2>3. QED
    BY <2>2
<1>2. ASSUME NEW n \in Nat, n \in Good PROVE n + 1 \in Good
  <2>1. PICK g : g = Fcn(g, n)
    BY <1>2
  <2> DEFINE h == [i \in 0 .. n + 1 |-> IF i \in 0 .. n THEN g[i] ELSE ScanStep(file, g, i)]
  <2>2. \A i \in 0 .. n : h[i] = g[i] /\ g[i] = ScanStep(file, g, i)
    BY <2>1
  <2>3. \A i \in 0 .. n + 1 : h[i] = ScanStep(file, g, i)
    BY <2>2
  <2>4. h = [i \in 0 .. n + 1 |-> h[i]]
    OBVIOUS
  <2> HIDE DEF h
  <2>5. \A i \in 0 .. n + 1 : ScanStep(file, g, i) = ScanStep(file, h, i)
    <3> TAKE i \in 0 .. n + 1
    <3>1. i # 0 => i - 1 \in 0 .. n
      OBVIOUS
    <3>2. i # 0 => g[i - 1] = h[i - 1]
      BY <2>2, <3>1
    <3>3. QED
      BY <3>2 DEF ScanStep
  <2>6. h = Fcn(h, n + 1)
    BY <2>3, <2>4, <2>5
  <2>7. QED
    BY <2>6
<1>3. Nat \subseteq Good
  BY <1>1, <1>2, NatSetInduction
<1>4. \E g : g = Fcn(g, Len(file) \div (RecordHeaderSize + 1))
  BY <1>3
<1> DEFINE t == ScanTable(file)
<1>5. t = Fcn(t, Len(file) \div (RecordHeaderSize + 1))
  BY <1>4 DEF ScanTable
<1>6. Scan(file) = t[Len(file) \div (RecordHeaderSize + 1)].records
  BY DEF Scan, ScanTable, ScanStep
<1> HIDE DEF t
<1>7. \A n \in 0 .. Len(file) \div (RecordHeaderSize + 1) : t[n] = ScanStep(file, t, n)
  BY <1>5
<1>8. QED
  BY <1>6, <1>7 DEF t

KeptStep(reads, g, n) ==
    IF n = 0 THEN << >>
    ELSE IF ~reads[n].read.ok THEN g[n - 1]
    ELSE Append(g[n - 1], [type |-> reads[n].type, value |-> reads[n].read.value])
KeptTable(reads) == CHOOSE g : g = [n \in 0 .. Len(reads) |-> KeptStep(reads, g, n)]

LEMMA KeptTableDefined ==
    ASSUME NEW reads, Len(reads) \in Nat
    PROVE  /\ Kept(reads) = KeptTable(reads)[Len(reads)]
           /\ \A n \in 0 .. Len(reads) : KeptTable(reads)[n] = KeptStep(reads, KeptTable(reads), n)
<1> DEFINE Fcn(g, n) == [i \in 0 .. n |-> KeptStep(reads, g, i)]
           Good == {n \in Nat : \E g : g = Fcn(g, n)}
<1>1. 0 \in Good
  <2> DEFINE g == [i \in 0 .. 0 |-> << >>]
  <2>1. \A i \in 0 .. 0 : KeptStep(reads, g, i) = << >>
    BY DEF KeptStep
  <2>2. g = Fcn(g, 0)
    BY <2>1
  <2> HIDE DEF g
  <2>3. QED
    BY <2>2
<1>2. ASSUME NEW n \in Nat, n \in Good PROVE n + 1 \in Good
  <2>1. PICK g : g = Fcn(g, n)
    BY <1>2
  <2> DEFINE h == [i \in 0 .. n + 1 |-> IF i \in 0 .. n THEN g[i] ELSE KeptStep(reads, g, i)]
  <2>2. \A i \in 0 .. n : h[i] = g[i] /\ g[i] = KeptStep(reads, g, i)
    BY <2>1
  <2>3. \A i \in 0 .. n + 1 : h[i] = KeptStep(reads, g, i)
    BY <2>2
  <2>4. h = [i \in 0 .. n + 1 |-> h[i]]
    OBVIOUS
  <2> HIDE DEF h
  <2>5. \A i \in 0 .. n + 1 : KeptStep(reads, g, i) = KeptStep(reads, h, i)
    <3> TAKE i \in 0 .. n + 1
    <3>1. i # 0 => i - 1 \in 0 .. n
      OBVIOUS
    <3>2. i # 0 => g[i - 1] = h[i - 1]
      BY <2>2, <3>1
    <3>3. QED
      BY <3>2 DEF KeptStep
  <2>6. h = Fcn(h, n + 1)
    BY <2>3, <2>4, <2>5
  <2>7. QED
    BY <2>6
<1>3. Nat \subseteq Good
  BY <1>1, <1>2, NatSetInduction
<1>4. \E g : g = Fcn(g, Len(reads))
  BY <1>3
<1> DEFINE t == KeptTable(reads)
<1>5. t = Fcn(t, Len(reads))
  BY <1>4 DEF KeptTable
<1>6. Kept(reads) = t[Len(reads)]
  BY DEF Kept, KeptTable, KeptStep
<1> HIDE DEF t
<1>7. \A n \in 0 .. Len(reads) : t[n] = KeptStep(reads, t, n)
  BY <1>5
<1>8. QED
  BY <1>6, <1>7 DEF t

LEMMA RangeSeq ==
    ASSUME NEW S, NEW s \in Seq(S)
    PROVE  s \in Seq(Range(s))
  BY DEF Range

LEMMA ConcatRange ==
    ASSUME NEW s, s \in Seq(Range(s)), NEW t, t \in Seq(Range(t))
    PROVE  /\ s \o t \in Seq(Range(s \o t)) /\ Len(s \o t) = Len(s) + Len(t)
           /\ Len(s) \in Nat /\ Len(t) \in Nat
           /\ \A i \in 1 .. Len(s) : (s \o t)[i] = s[i]
           /\ \A i \in 1 .. Len(t) : (s \o t)[Len(s) + i] = t[i]
<1> DEFINE S == Range(s) \cup Range(t)
<1>1. s \in Seq(S) /\ t \in Seq(S)
  OBVIOUS
<1> HIDE DEF S
<1>2. /\ s \o t \in Seq(S) /\ Len(s \o t) = Len(s) + Len(t)
      /\ \A i \in 1 .. Len(s) : (s \o t)[i] = s[i]
      /\ \A i \in 1 .. Len(t) : (s \o t)[Len(s) + i] = t[i]
  BY <1>1, ConcatUnits
<1>3. s \o t \in Seq(Range(s \o t))
  BY <1>2, RangeSeq
<1>4. Len(s) \in Nat /\ Len(t) \in Nat
  BY <1>1
<1>5. QED
  BY <1>2, <1>3, <1>4

LEMMA Slice ==
    ASSUME NEW file, file \in Seq(Range(file)), NEW x, x \in Seq(Range(x)), NEW at \in Nat,
           at + Len(x) <= Len(file), \A i \in 1 .. Len(x) : file[at + i] = x[i]
    PROVE  SubSeq(file, at + 1, at + Len(x)) = x
<1> DEFINE S == Range(file) \cup Range(x)
           s == SubSeq(file, at + 1, at + Len(x))
<1>1. file \in Seq(S) /\ x \in Seq(S) /\ Len(x) \in Nat /\ Len(file) \in Nat
  OBVIOUS
<1> HIDE DEF S
<1>2. at + 1 \in 1 .. Len(file) + 1 /\ at + Len(x) \in at .. Len(file)
  BY <1>1
<1>3. s \in Seq(S) /\ Len(s) = Len(x)
  BY <1>1, <1>2
<1>4. ASSUME NEW i \in 1 .. Len(x) PROVE s[i] = x[i]
  <2>1. (at + 1) + i - 1 = at + i /\ i \in 1 .. (at + Len(x)) - (at + 1) + 1
    BY <1>1
  <2>2. s[i] = file[at + i]
    BY <1>1, <1>2, <2>1
  <2>3. QED
    BY <2>2
<1> HIDE DEF s
<1>5. s = x
  BY <1>1, <1>3, <1>4, SeqEqual
<1>6. QED
  BY <1>5 DEF s

\* What stands where in the image of a record.
ImageOf(image, m, n, previous) ==
    /\ image \in Seq(Range(image)) /\ Len(image) = 8 + Len(Body(m))
    /\ image[1] = RecordMagic /\ image[2] = FormatVersion /\ image[3] = RecordCode[m.type]
    /\ image[4] = Len(Body(m)) /\ image[5] = n /\ image[6] = previous
    /\ image[7] = Checksum(Body(m))
    /\ \A i \in 1 .. Len(Body(m)) : image[7 + i] = Body(m)[i]
    /\ \E body : /\ body \in Seq(Range(body)) /\ Len(body) = 7 + Len(Body(m))
                 /\ \A i \in 1 .. Len(body) : image[i] = body[i]
                 /\ image[8 + Len(Body(m))] = Checksum(body)

LEMMA RecordImages ==
    ASSUME NEW m \in Stored, NEW n, NEW previous
    PROVE  ImageOf(RecordImage(Messages[m], n, previous), m, n, previous)
<1> DEFINE u == Body(m)
           h == <<RecordMagic, FormatVersion, RecordCode[m.type], Len(u), n, previous, Checksum(u)>>
           body == h \o u
           sum == <<Checksum(body)>>
           image == body \o sum
<1>1. u \in Seq(Nat) /\ Len(u) \in Nat /\ u = Encode(Messages[m].type, Messages[m].value)
  <2>1. m \in Sent \cup Stored
    OBVIOUS
  <2>2. QED
    BY <2>1, Bodies DEF Buffers
<1>2. Messages[m].type = m.type
  <2>1. m \in Sent \cup Stored
    OBVIOUS
  <2>2. Messages[m] = [type |-> m.type, value |-> Values[m]]
    BY <2>1, Bodies
  <2>3. QED
    BY <2>2
<1>3. RecordImage(Messages[m], n, previous) = Append(body, Checksum(body))
  BY <1>1, <1>2 DEF RecordImage
<1>4. /\ h \in Seq(Range(h)) /\ Len(h) = 7
      /\ h[1] = RecordMagic /\ h[2] = FormatVersion /\ h[3] = RecordCode[m.type]
      /\ h[4] = Len(u) /\ h[5] = n /\ h[6] = previous /\ h[7] = Checksum(u)
  <2>1. Len(h) = 7 /\ \A i \in 1 .. 7 : h[i] \in Range(h)
    BY DEF Range
  <2>2. QED
    BY <2>1
<1>5. u \in Seq(Range(u))
  BY <1>1, RangeSeq
<1> HIDE DEF h, u
<1>6. /\ body \in Seq(Range(body)) /\ Len(body) = 7 + Len(u)
      /\ \A i \in 1 .. 7 : body[i] = h[i]
      /\ \A i \in 1 .. Len(u) : body[7 + i] = u[i]
  <2>1. /\ body \in Seq(Range(body)) /\ Len(body) = Len(h) + Len(u)
        /\ \A i \in 1 .. Len(h) : body[i] = h[i]
        /\ \A i \in 1 .. Len(u) : body[Len(h) + i] = u[i]
    <3>1. h \in Seq(Range(h))
      BY <1>4
    <3>2. QED
      BY <1>5, <3>1, ConcatRange
  <2>2. Len(h) = 7
    BY <1>4
  <2> HIDE DEF body
  <2>3. QED
    BY <2>1, <2>2
<1> HIDE DEF body
<1>7. sum \in Seq(Range(sum)) /\ Len(sum) = 1 /\ sum[1] = Checksum(body)
  BY DEF Range
<1> HIDE DEF sum
<1>8. /\ image \in Seq(Range(image)) /\ Len(image) = Len(body) + Len(sum)
      /\ \A i \in 1 .. Len(body) : image[i] = body[i]
      /\ \A i \in 1 .. Len(sum) : image[Len(body) + i] = sum[i]
  <2>1. body \in Seq(Range(body)) /\ sum \in Seq(Range(sum))
    BY <1>6, <1>7
  <2>2. QED
    BY <2>1, ConcatRange
<1>9. Append(body, Checksum(body)) = image
  <2>1. body \in Seq(Range(body) \cup {Checksum(body)})
    BY <1>6
  <2>2. QED
    BY <2>1 DEF sum
<1> HIDE DEF image
<1>10. /\ Len(image) = 8 + Len(u) /\ image[8 + Len(u)] = Checksum(body)
       /\ \A i \in 1 .. 7 : image[i] = h[i]
       /\ \A i \in 1 .. Len(u) : image[7 + i] = u[i]
  <2>1. Len(body) = 7 + Len(u) /\ Len(u) \in Nat
    BY <1>1, <1>6
  <2>2. Len(image) = 8 + Len(u)
    BY <1>7, <1>8, <2>1
  <2>3. image[8 + Len(u)] = Checksum(body)
    <3>1. 1 \in 1 .. Len(sum) /\ Len(body) + 1 = 8 + Len(u)
      BY <1>7, <2>1
    <3>2. QED
      BY <1>7, <1>8, <3>1
  <2>4. \A i \in 1 .. 7 : i \in 1 .. Len(body)
    BY <2>1
  <2>5. \A i \in 1 .. Len(u) : 7 + i \in 1 .. Len(body)
    BY <2>1
  <2>6. QED
    BY <1>6, <1>8, <2>2, <2>3, <2>4, <2>5
<1>11. /\ image[1] = RecordMagic /\ image[2] = FormatVersion /\ image[3] = RecordCode[m.type]
       /\ image[4] = Len(u) /\ image[5] = n /\ image[6] = previous /\ image[7] = Checksum(u)
  <2>1. /\ image[1] = h[1] /\ image[2] = h[2] /\ image[3] = h[3] /\ image[4] = h[4]
        /\ image[5] = h[5] /\ image[6] = h[6] /\ image[7] = h[7]
    BY <1>10
  <2>2. QED
    BY <1>4, <2>1
<1>12. ImageOf(image, m, n, previous)
  BY <1>6, <1>8, <1>10, <1>11 DEF ImageOf, u
<1>13. QED
  BY <1>3, <1>9, <1>12

LEMMA StoredTypes ==
    /\ Started \in Stored /\ Nothing \notin Stored
    /\ \A call \in Calls : Records(call.type) \subseteq Stored
    /\ \A m \in Stored : m.type \in DOMAIN RecordCode
    /\ \A type \in DOMAIN RecordCode :
            (CHOOSE t \in DOMAIN RecordCode : RecordCode[t] = RecordCode[type]) = type
<1>1. Started \in Stored /\ \A call \in Calls : Records(call.type) \subseteq Stored
  BY DEF Stored
<1>2. \A type, shape : Named(type, shape).type = type
  BY DEF Named
<1>3. DOMAIN RecordCode = {"plan", "fence", "coordinator_epoch"}
  BY DEF RecordCode
<1>4. ASSUME NEW type \in Requests, NEW m \in Records(type) PROVE m.type \in DOMAIN RecordCode
  <2>1. \E shape : m = Named("fence", shape) \/ m = Named("plan", shape)
    BY DEF Records, Requests
  <2>2. QED
    BY <1>2, <1>3, <2>1
<1>5. \A m \in Stored : m.type \in DOMAIN RecordCode
  <2>1. Started.type \in DOMAIN RecordCode
    BY <1>2, <1>3 DEF Started
  <2>2. \A call \in Calls : call.type \in Requests
    BY WireAssumption
  <2>3. QED
    BY <1>4, <2>1, <2>2 DEF Stored
<1>6. Nothing \notin Stored
  <2>1. Nothing.type \notin DOMAIN RecordCode
    BY <1>3 DEF Nothing
  <2>2. QED
    BY <1>5, <2>1
<1>7. \A type, t \in DOMAIN RecordCode : RecordCode[t] = RecordCode[type] => t = type
  BY <1>3 DEF RecordCode
<1>8. ASSUME NEW type \in DOMAIN RecordCode
      PROVE  (CHOOSE t \in DOMAIN RecordCode : RecordCode[t] = RecordCode[type]) = type
  BY <1>7
<1>9. QED
  BY <1>1, <1>5, <1>6, <1>8

\* The units x stand behind the first units of the file.
Shows(file, at, x) == at + Len(x) <= Len(file) /\ \A i \in 1 .. Len(x) : file[at + i] = x[i]

\* A record that is all there is found, whatever follows it.
LEMMA SoundRecord ==
    ASSUME NEW m \in Stored, NEW n, NEW previous, NEW image, ImageOf(image, m, n, previous),
           NEW file, file \in Seq(Range(file)), NEW at \in Nat,
           Shows(file, at, image), Len(Body(m)) <= MaxPayload
    PROVE  /\ RecordSound(file, at, n, previous) /\ RecordTotal(file, at) = Len(image)
           /\ RecordPayload(file, at) = Body(m) /\ file[at + 3] = RecordCode[m.type]
<1> USE DEF Shows
<1> DEFINE u == Body(m)
<1>1. u \in Seq(Range(u)) /\ Len(u) \in Nat /\ MaxPayload \in Nat
  <2>1. m \in Sent \cup Stored
    OBVIOUS
  <2>2. u \in Seq(Nat) /\ Len(u) \in Nat
    BY <2>1, Bodies DEF Buffers
  <2>3. QED
    BY <2>2, RangeSeq, CodecAssumption
<1> HIDE DEF u
<1>2. /\ image \in Seq(Range(image)) /\ Len(image) = 8 + Len(u)
      /\ image[1] = RecordMagic /\ image[2] = FormatVersion /\ image[3] = RecordCode[m.type]
      /\ image[4] = Len(u) /\ image[5] = n /\ image[6] = previous
      /\ image[7] = Checksum(u)
      /\ \A i \in 1 .. Len(u) : image[7 + i] = u[i]
  BY DEF ImageOf, u
<1>3. PICK body : /\ body \in Seq(Range(body)) /\ Len(body) = 7 + Len(u)
                  /\ \A i \in 1 .. Len(body) : image[i] = body[i]
                  /\ image[8 + Len(u)] = Checksum(body)
  BY DEF ImageOf, u
<1>4. Len(file) \in Nat
  OBVIOUS
<1>5. /\ file[at + 1] = RecordMagic /\ file[at + 2] = FormatVersion
      /\ file[at + 3] = RecordCode[m.type] /\ file[at + 4] = Len(u) /\ file[at + 5] = n
      /\ file[at + 6] = previous /\ file[at + 7] = Checksum(u)
  <2>1. \A i \in 1 .. 7 : i \in 1 .. Len(image)
    BY <1>1, <1>2
  <2>2. /\ file[at + 1] = image[1] /\ file[at + 2] = image[2] /\ file[at + 3] = image[3]
        /\ file[at + 4] = image[4] /\ file[at + 5] = image[5] /\ file[at + 6] = image[6]
        /\ file[at + 7] = image[7]
    BY <2>1
  <2>3. QED
    BY <1>2, <2>2
<1>6. RecordTotal(file, at) = Len(image) /\ RecordHeaderSize = 7
  BY <1>1, <1>2, <1>5 DEF RecordTotal, RecordHeaderSize
<1>7. RecordPayload(file, at) = u
  <2>1. \A i \in 1 .. Len(u) : file[(at + 7) + i] = u[i]
    <3> TAKE i \in 1 .. Len(u)
    <3>1. 7 + i \in 1 .. Len(image) /\ at + (7 + i) = (at + 7) + i
      BY <1>1, <1>2
    <3>2. QED
      BY <1>2, <3>1
  <2>2. at + 7 \in Nat /\ (at + 7) + Len(u) <= Len(file)
    BY <1>1, <1>2, <1>4
  <2>3. SubSeq(file, (at + 7) + 1, (at + 7) + Len(u)) = u
    BY <1>1, <2>1, <2>2, Slice
  <2>4. at + RecordTotal(file, at) - 1 = (at + 7) + Len(u) /\
          at + RecordHeaderSize + 1 = (at + 7) + 1
    BY <1>1, <1>2, <1>6
  <2>5. QED
    BY <2>3, <2>4 DEF RecordPayload
<1>8. SubSeq(file, at + 1, at + RecordTotal(file, at) - 1) = body
  <2>1. \A i \in 1 .. Len(body) : file[at + i] = body[i]
    <3> TAKE i \in 1 .. Len(body)
    <3>1. i \in 1 .. Len(image)
      BY <1>1, <1>2, <1>3
    <3>2. QED
      BY <1>3, <3>1
  <2>2. at + Len(body) <= Len(file) /\ at + RecordTotal(file, at) - 1 = at + Len(body)
    BY <1>1, <1>2, <1>3, <1>4, <1>6
  <2>3. SubSeq(file, at + 1, at + Len(body)) = body
    BY <1>3, <2>1, <2>2, Slice
  <2>4. QED
    BY <2>2, <2>3
<1>9. file[at + RecordTotal(file, at)] = Checksum(body)
  <2>1. 8 + Len(u) \in 1 .. Len(image) /\ RecordTotal(file, at) = 8 + Len(u)
    BY <1>1, <1>2, <1>6
  <2>2. QED
    BY <1>3, <2>1
<1>10. /\ Len(file) - at >= RecordHeaderSize + 1 /\ RecordTotal(file, at) <= Len(file) - at
       /\ file[at + 4] <= MaxPayload
  BY <1>1, <1>2, <1>4, <1>5, <1>6 DEF u
<1>11. RecordSound(file, at, n, previous)
  <2>1. m.type \in DOMAIN RecordCode
    BY StoredTypes
  <2>2. RecordCode[m.type] \in 1 .. 6
    BY <2>1 DEF RecordCode
  <2>3. QED
    BY <1>5, <1>7, <1>8, <1>9, <1>10, <2>2 DEF RecordSound
<1>12. QED
  BY <1>5, <1>6, <1>7, <1>11 DEF u

\* A record of which the end is missing is not.
LEMMA TornRecord ==
    ASSUME NEW m \in Stored, NEW n, NEW previous, NEW image, ImageOf(image, m, n, previous),
           NEW file, Len(file) \in Nat, NEW at \in Nat, at <= Len(file),
                   Len(file) < at + Len(image),
           \A i \in 1 .. Len(file) - at : file[at + i] = image[i], NEW s, NEW p
    PROVE  ~RecordSound(file, at, s, p)
<1>1. Len(Body(m)) \in Nat /\ Len(image) = 8 + Len(Body(m)) /\ image[4] = Len(Body(m))
  <2>1. m \in Sent \cup Stored
    OBVIOUS
  <2>2. QED
    BY <2>1, Bodies DEF ImageOf
<1>2. RecordHeaderSize = 7
  BY DEF RecordHeaderSize
<1>3. CASE Len(file) - at < 8
  BY <1>2, <1>3 DEF RecordSound
<1>4. CASE Len(file) - at >= 8
  <2>1. 4 \in 1 .. Len(file) - at
    BY <1>4
  <2>2. RecordTotal(file, at) = Len(image)
    BY <1>1, <1>2, <2>1 DEF RecordTotal
  <2>3. ~(RecordTotal(file, at) <= Len(file) - at)
    BY <1>1, <2>2
  <2>4. QED
    BY <2>3 DEF RecordSound
<1>5. QED
  BY <1>3, <1>4

LEMMA NoRecord ==
    ASSUME NEW file, Len(file) \in Nat, NEW s, NEW p
    PROVE  ~RecordSound(file, Len(file), s, p)
  BY DEF RecordSound, RecordHeaderSize

\* What the record behind the first k names as the one before it; the image of the
\* n-th record of a journal.
Before(t, k) == IF k = 0 THEN 0 ELSE Last(t[k])
Image(records, t, n) == RecordImage(Messages[records[n]], n, Before(t, n - 1))

LEMMA FileParts ==
    ASSUME NEW records \in Seq(Stored), NEW t, t = FileTable(records)
    PROVE  /\ File(records) = t[Len(records)] /\ t[0] = << >>
           /\ \A n \in 0 .. Len(records) :
                t[n] \in Seq(Range(t[n])) /\ Len(t[n]) \in Nat /\ Len(t[n]) >= 8 * n
           /\ \A n \in 1 .. Len(records) :
                /\ ImageOf(Image(records, t, n), records[n], n, Before(t, n - 1))
                /\ t[n] = t[n - 1] \o Image(records, t, n)
<1>1. Len(records) \in Nat /\ \A n \in 1 .. Len(records) : records[n] \in Stored
  OBVIOUS
<1>2. /\ File(records) = t[Len(records)]
      /\ \A n \in 0 .. Len(records) : t[n] = FileStep(records, t, n)
  BY <1>1, FileTableDefined
<1>3. t[0] = << >>
  <2>1. 0 \in 0 .. Len(records)
    BY <1>1
  <2>2. QED
    BY <1>2, <2>1 DEF FileStep
<1>4. ASSUME NEW n \in 1 .. Len(records)
      PROVE  /\ ImageOf(Image(records, t, n), records[n], n, Before(t, n - 1))
             /\ t[n] = t[n - 1] \o Image(records, t, n)
  <2>1. ImageOf(Image(records, t, n), records[n], n, Before(t, n - 1))
    BY <1>1, RecordImages DEF Image
  <2>2. n \in 0 .. Len(records) /\ n # 0 /\ (n = 1 <=> n - 1 = 0)
    BY <1>1
  <2>3. t[n] = t[n - 1] \o Image(records, t, n)
    BY <1>2, <2>2 DEF FileStep, Image, Before
  <2>4. QED
    BY <2>1, <2>3
<1> DEFINE Good == {n \in Nat : n <= Len(records) =>
                        t[n] \in Seq(Range(t[n])) /\ Len(t[n]) \in Nat /\ Len(t[n]) >= 8 * n}
<1>5. 0 \in Good
  <2>1. << >> \in Seq(Range(<< >>)) /\ Len(<< >>) = 0
    OBVIOUS
  <2>2. t[0] \in Seq(Range(t[0])) /\ Len(t[0]) = 0
    BY <1>3, <2>1
  <2>3. Len(t[0]) \in Nat /\ Len(t[0]) >= 8 * 0 /\ 0 \in Nat
    BY <2>2
  <2>4. QED
    BY <2>2, <2>3
<1>6. ASSUME NEW n \in Nat, n \in Good PROVE n + 1 \in Good
  <2> SUFFICES ASSUME n + 1 <= Len(records)
               PROVE  /\ t[n + 1] \in Seq(Range(t[n + 1])) /\ Len(t[n + 1]) \in Nat
                      /\ Len(t[n + 1]) >= 8 * (n + 1)
    OBVIOUS
  <2> DEFINE image == Image(records, t, n + 1)
  <2>1. n + 1 \in 1 .. Len(records) /\ (n + 1) - 1 = n /\ n <= Len(records)
    BY <1>1
  <2>2. t[n] \in Seq(Range(t[n])) /\ Len(t[n]) \in Nat /\ Len(t[n]) >= 8 * n
    BY <1>6, <2>1
  <2>3. t[n + 1] = t[n] \o image /\ ImageOf(image, records[n + 1], n + 1, Before(t, n))
    BY <1>4, <2>1
  <2>4. image \in Seq(Range(image)) /\ Len(image) = 8 + Len(Body(records[n + 1]))
    BY <2>3 DEF ImageOf
  <2>5. Len(Body(records[n + 1])) \in Nat
    <3>1. records[n + 1] \in Sent \cup Stored
      BY <1>1, <2>1
    <3>2. QED
      BY <3>1, Bodies
  <2> HIDE DEF image
  <2>6. t[n + 1] \in Seq(Range(t[n + 1])) /\ Len(t[n + 1]) = Len(t[n]) + Len(image)
    <3>1. t[n] \in Seq(Range(t[n])) /\ image \in Seq(Range(image))
      BY <2>2, <2>4
    <3>2. /\ t[n] \o image \in Seq(Range(t[n] \o image))
          /\ Len(t[n] \o image) = Len(t[n]) + Len(image)
      BY <3>1, ConcatRange
    <3>3. QED
      BY <2>3, <3>2
  <2>7. \A a, b, c \in Nat : a >= 8 * n => a + (8 + b) \in Nat /\ a + (8 + b) >= 8 * (n + 1)
    OBVIOUS
  <2>8. Len(t[n + 1]) = Len(t[n]) + (8 + Len(Body(records[n + 1])))
    BY <2>4, <2>6
  <2>9. Len(t[n + 1]) \in Nat /\ Len(t[n + 1]) >= 8 * (n + 1)
    BY <2>2, <2>5, <2>7, <2>8
  <2>10. QED
    BY <2>6, <2>9
<1>7. Nat \subseteq Good
  <2> HIDE DEF Good
  <2>1. QED
    BY <1>5, <1>6, NatSetInduction
<1>8. QED
  BY <1>1, <1>2, <1>3, <1>4, <1>7

\* The file of a journal begins with the file of any of its beginnings.
StartsWith(file, x) == Len(x) <= Len(file) /\ \A j \in 1 .. Len(x) : file[j] = x[j]

LEMMA FileGrows ==
    ASSUME NEW records \in Seq(Stored), NEW t, t = FileTable(records),
           NEW k \in Nat, NEW d \in Nat, k + d <= Len(records)
    PROVE  StartsWith(t[k + d], t[k])
<1> DEFINE Same(n) == Len(t[k]) <= Len(t[n]) /\ \A j \in 1 .. Len(t[k]) : t[n][j] = t[k][j]
           Good == {e \in Nat : k + e <= Len(records) => Same(k + e)}
<1>1. Len(records) \in Nat
  OBVIOUS
<1>2. \A n \in 0 .. Len(records) : t[n] \in Seq(Range(t[n])) /\ Len(t[n]) \in Nat
  BY FileParts
<1>3. 0 \in Good
  <2>1. k + 0 = k /\ k \in 0 .. Len(records)
    BY <1>1
  <2>2. QED
    BY <1>2, <2>1
<1>4. ASSUME NEW e \in Nat, e \in Good PROVE e + 1 \in Good
  <2> SUFFICES ASSUME k + (e + 1) <= Len(records) PROVE Same(k + (e + 1))
    OBVIOUS
  <2> DEFINE n == k + e
             image == Image(records, t, n + 1)
  <2>1. /\ k + (e + 1) = n + 1 /\ n <= Len(records) /\ n + 1 \in 1 .. Len(records)
        /\ n \in 0 .. Len(records) /\ (n + 1) - 1 = n /\ k \in 0 .. Len(records)
    BY <1>1
  <2>2. Same(n)
    BY <1>4, <2>1
  <2> HIDE DEF n
  <2>3. t[n + 1] = t[n] \o image /\ image \in Seq(Range(image))
    <3>1. t[n + 1] = t[n] \o image /\ ImageOf(image, records[n + 1], n + 1, Before(t, n))
      BY <2>1, FileParts
    <3>2. QED
      BY <3>1 DEF ImageOf
  <2>4. t[n] \in Seq(Range(t[n])) /\ Len(t[n]) \in Nat /\ Len(t[k]) \in Nat
    BY <1>2, <2>1
  <2> HIDE DEF image
  <2>5. /\ Len(t[n + 1]) = Len(t[n]) + Len(image) /\ Len(image) \in Nat
        /\ \A j \in 1 .. Len(t[n]) : t[n + 1][j] = t[n][j]
    BY <2>3, <2>4, ConcatRange
  <2>6. \A j \in 1 .. Len(t[k]) : j \in 1 .. Len(t[n])
    BY <2>2, <2>4
  <2>7. Same(n + 1)
    BY <2>2, <2>4, <2>5, <2>6
  <2>8. QED
    BY <2>1, <2>7
<1>5. Nat \subseteq Good
  <2> HIDE DEF Good
  <2>1. QED
    BY <1>3, <1>4, NatSetInduction
<1>6. QED
  BY <1>5 DEF StartsWith

\* A journal that grows by a record keeps what it had.
LEMMA FileKeeps ==
    ASSUME NEW records \in Seq(Stored), NEW m \in Stored, NEW n \in 0 .. Len(records)
    PROVE  FileTable(Append(records, m))[n] = FileTable(records)[n]
<1> DEFINE more == Append(records, m)
           t == FileTable(records)
           x == FileTable(more)
           Good == {k \in Nat : k <= Len(records) => x[k] = t[k]}
<1>1. /\ Len(records) \in Nat /\ more \in Seq(Stored) /\ Len(more) = Len(records) + 1
      /\ \A k \in 1 .. Len(records) : more[k] = records[k]
  OBVIOUS
<1> HIDE DEF more
<1>2. t[0] = << >> /\ x[0] = << >>
  BY <1>1, FileParts
<1>3. \A k \in 1 .. Len(records) : t[k] = t[k - 1] \o Image(records, t, k)
  BY FileParts
<1>4. \A k \in 1 .. Len(records) : x[k] = x[k - 1] \o Image(more, x, k)
  <2>1. \A k \in 1 .. Len(more) : x[k] = x[k - 1] \o Image(more, x, k)
    BY <1>1, FileParts
  <2>2. QED
    BY <1>1, <2>1
<1> HIDE DEF t, x
<1>5. 0 \in Good
  BY <1>2
<1>6. ASSUME NEW k \in Nat, k \in Good PROVE k + 1 \in Good
  <2> SUFFICES ASSUME k + 1 <= Len(records) PROVE x[k + 1] = t[k + 1]
    OBVIOUS
  <2>1. k + 1 \in 1 .. Len(records) /\ (k + 1) - 1 = k /\ k <= Len(records)
    BY <1>1
  <2>2. x[k] = t[k] /\ more[k + 1] = records[k + 1]
    BY <1>1, <1>6, <2>1
  <2>3. Image(more, x, k + 1) = Image(records, t, k + 1)
    BY <2>1, <2>2 DEF Image, Before
  <2>4. QED
    BY <1>3, <1>4, <2>1, <2>2, <2>3
<1>7. Nat \subseteq Good
  <2> HIDE DEF Good
  <2>1. QED
    BY <1>5, <1>6, NatSetInduction
<1>8. n \in Nat /\ n <= Len(records)
  BY <1>1
<1>9. QED
  BY <1>7, <1>8 DEF t, x, more

\* What the scan makes of the first n records of a journal, and where it then is.
FoundRecord(m) == [code |-> RecordCode[m.type], payload |-> Body(m)]
Found(records, n) == [i \in 1 .. n |-> FoundRecord(records[i])]
ScanState(records, t, n) ==
    [at |-> Len(t[n]), previous |-> Before(t, n), records |-> Found(records, n)]

LEMMA FoundGrows ==
    ASSUME NEW records, NEW n \in Nat
    PROVE  /\ Len(Found(records, n)) = n
           /\ Append(Found(records, n), FoundRecord(records[n + 1])) = Found(records, n + 1)
<1> DEFINE S == {FoundRecord(records[i]) : i \in 1 .. n + 1}
           a == Found(records, n)
           b == Found(records, n + 1)
           c == Append(a, FoundRecord(records[n + 1]))
<1>1. \A i \in 1 .. n + 1 : FoundRecord(records[i]) \in S
  OBVIOUS
<1> HIDE DEF S
<1>2. \A i \in 1 .. n : i \in 1 .. n + 1
  OBVIOUS
<1>3. n + 1 \in 1 .. n + 1
  OBVIOUS
<1>4. a \in Seq(S) /\ Len(a) = n /\ b \in Seq(S) /\ Len(b) = n + 1
  BY <1>1, <1>2 DEF Found
<1>5. (\A i \in 1 .. n : a[i] = FoundRecord(records[i]))
      /\ \A i \in 1 .. n + 1 : b[i] = FoundRecord(records[i])
  BY DEF Found
<1> HIDE DEF a, b
<1>6. /\ c \in Seq(S) /\ Len(c) = n + 1 /\ c[n + 1] = FoundRecord(records[n + 1])
      /\ \A i \in 1 .. n : c[i] = a[i]
  BY <1>1, <1>3, <1>4
<1> HIDE DEF c
<1>7. \A i \in 1 .. n + 1 : i \in 1 .. n \/ i = n + 1
  OBVIOUS
<1>8. \A i \in 1 .. n + 1 : c[i] = b[i]
  BY <1>3, <1>5, <1>6, <1>7
<1>9. c = b
  BY <1>4, <1>6, <1>8, SeqEqual
<1>10. QED
  BY <1>4, <1>9 DEF a, b, c

LEMMA StartsWithLess ==
    ASSUME NEW records \in Seq(Stored), NEW t, t = FileTable(records), NEW N \in 0 .. Len(records),
           NEW file, Len(file) \in Nat, StartsWith(file, t[N]), NEW n \in 0 .. N
    PROVE  StartsWith(file, t[n])
<1>1. PICK d \in Nat : n \in Nat /\ n + d = N /\ N <= Len(records)
  <2>1. N - n \in Nat /\ n \in Nat /\ n + (N - n) = N /\ N <= Len(records)
    OBVIOUS
  <2>2. QED
    BY <2>1
<1>2. Len(t[n]) <= Len(t[N]) /\ \A j \in 1 .. Len(t[n]) : t[N][j] = t[n][j]
  <2>1. n \in Nat /\ d \in Nat /\ n + d <= Len(records)
    BY <1>1
  <2>2. StartsWith(t[n + d], t[n])
    BY <2>1, FileGrows
  <2>3. QED
    BY <1>1, <2>2 DEF StartsWith
<1>3. Len(t[n]) \in Nat /\ Len(t[N]) \in Nat
  BY <1>1, FileParts
<1>4. \A j \in 1 .. Len(t[n]) : j \in 1 .. Len(t[N])
  BY <1>2, <1>3
<1>5. QED
  BY <1>2, <1>3, <1>4 DEF StartsWith

\* What the scan finds behind the first n - 1 records of a file that holds n.
FindsRecord(file, records, t, n) ==
    LET at == Len(t[n - 1]) IN
    /\ RecordSound(file, at, n, Before(t, n - 1))
    /\ at + RecordTotal(file, at) = Len(t[n]) /\ file[Len(t[n])] = Before(t, n)
    /\ RecordPayload(file, at) = Body(records[n])
    /\ file[at + 3] = RecordCode[records[n].type]

LEMMA ScanFindsRecord ==
    ASSUME NEW records \in Seq(Stored), NEW t, t = FileTable(records), NEW n \in 1 .. Len(records),
           NEW file, file \in Seq(Range(file)), StartsWith(file, t[n]),
           Len(Body(records[n])) <= MaxPayload
    PROVE  FindsRecord(file, records, t, n)
<1> DEFINE at == Len(t[n - 1])
           image == Image(records, t, n)
           before == Before(t, n - 1)
           m == records[n]
<1>1. Len(records) \in Nat /\ m \in Stored
  OBVIOUS
<1>2. n - 1 \in 0 .. Len(records) /\ n \in 0 .. Len(records) /\ n # 0
  BY <1>1
<1>3. /\ t[n - 1] \in Seq(Range(t[n - 1])) /\ at \in Nat
      /\ Len(t[n]) \in Nat /\ Len(t[n]) >= 8 * n
  BY <1>2, FileParts
<1>4. ImageOf(image, m, n, before) /\ t[n] = t[n - 1] \o image
  BY FileParts
<1>5. image \in Seq(Range(image))
  BY <1>4 DEF ImageOf
<1> HIDE DEF image, before, m
<1>6. /\ Len(t[n]) = at + Len(image) /\ Len(image) \in Nat
      /\ \A i \in 1 .. Len(image) : t[n][at + i] = image[i]
  <2>1. t[n - 1] \in Seq(Range(t[n - 1])) /\ image \in Seq(Range(image))
    BY <1>3, <1>5
  <2>2. /\ Len(t[n - 1] \o image) = Len(t[n - 1]) + Len(image) /\ Len(image) \in Nat
        /\ \A i \in 1 .. Len(image) : (t[n - 1] \o image)[Len(t[n - 1]) + i] = image[i]
    BY <2>1, ConcatRange
  <2>3. QED
    BY <1>4, <2>2
<1> HIDE DEF at
<1>7. Shows(file, at, image)
  <2>1. \A i \in 1 .. Len(image) : at + i \in 1 .. Len(t[n])
    BY <1>3, <1>6
  <2>2. QED
    BY <1>6, <2>1 DEF StartsWith, Shows
<1>8. Len(Body(m)) <= MaxPayload
  BY DEF m
<1>9. /\ RecordSound(file, at, n, before) /\ RecordTotal(file, at) = Len(image)
      /\ RecordPayload(file, at) = Body(m) /\ file[at + 3] = RecordCode[m.type]
  <2>1. m \in Stored /\ ImageOf(image, m, n, before) /\ at \in Nat
    BY <1>1, <1>3, <1>4
  <2>2. QED
    BY <1>7, <1>8, <2>1, SoundRecord
<1>10. file[Len(t[n])] = Before(t, n)
  <2>1. Len(t[n]) \in 1 .. Len(t[n])
    BY <1>2, <1>3
  <2>2. file[Len(t[n])] = t[n][Len(t[n])]
    BY <2>1 DEF StartsWith
  <2>3. QED
    BY <1>2, <2>2 DEF Before, Last
<1>11. QED
  BY <1>6, <1>9, <1>10 DEF at, before, m, FindsRecord

\* The scan of a file that starts with n records, and has no sound one behind them.
LEMMA ScanFinds ==
    ASSUME NEW records \in Seq(Stored), NEW t, t = FileTable(records), NEW N \in 0 .. Len(records),
           \A i \in 1 .. N : Len(Body(records[i])) <= MaxPayload,
           NEW file, file \in Seq(Range(file)), StartsWith(file, t[N]),
           \A s, p : ~RecordSound(file, Len(t[N]), s, p)
    PROVE  Scan(file) = Found(records, N)
<1> DEFINE D == Len(file) \div (RecordHeaderSize + 1)
           sc == ScanTable(file)
           State(n) == ScanState(records, t, n)
<1>1. Len(records) \in Nat /\ N \in Nat /\ N <= Len(records) /\ Len(file) \in Nat
  OBVIOUS
<1>2. D \in Nat /\ N <= D
  <2>1. Len(t[N]) \in Nat /\ Len(t[N]) >= 8 * N
    BY <1>1, FileParts
  <2>2. Len(file) >= 8 * N
    BY <1>1, <2>1 DEF StartsWith
  <2>3. D = Len(file) \div 8
    BY DEF RecordHeaderSize
  <2>4. QED
    BY <1>1, <2>2, <2>3
<1> HIDE DEF D
<1>3. Scan(file) = sc[D].records /\ \A n \in 0 .. D : sc[n] = ScanStep(file, sc, n)
  <2>1. Len(file) \div (RecordHeaderSize + 1) \in Nat
    BY <1>2 DEF D
  <2>2. QED
    BY <2>1, ScanTableDefined DEF D
<1> HIDE DEF sc
<1>4. ASSUME NEW n \in Nat
      PROVE  /\ State(n).at = Len(t[n]) /\ State(n).previous = Before(t, n)
             /\ State(n).records = Found(records, n) /\ Len(State(n).records) = n
  BY FoundGrows DEF ScanState
<1> DEFINE Good == {n \in Nat : n <= N => sc[n] = State(n)}
<1>5. 0 \in Good
  <2>1. 0 \in 0 .. D /\ t[0] = << >>
    BY <1>2, FileParts
  <2>2. sc[0] = [at |-> 0, previous |-> 0, records |-> << >>]
    BY <1>3, <2>1 DEF ScanStep
  <2>3. Len(t[0]) = 0 /\ Before(t, 0) = 0
    BY <2>1 DEF Before
  <2>4. Found(records, 0) = << >>
    <3>1. Found(records, 0) \in Seq({}) /\ Len(Found(records, 0)) = 0
      BY DEF Found
    <3>2. QED
      BY <3>1
  <2>5. QED
    BY <2>2, <2>3, <2>4 DEF ScanState
<1>6. ASSUME NEW n \in Nat, n \in Good PROVE n + 1 \in Good
  <2> SUFFICES ASSUME n + 1 <= N PROVE sc[n + 1] = State(n + 1)
    OBVIOUS
  <2> DEFINE at == Len(t[n])
             next == at + RecordTotal(file, at)
  <2>1. /\ n <= N /\ n + 1 \in 1 .. Len(records) /\ n + 1 \in 1 .. N /\ n + 1 \in 0 .. N
        /\ n + 1 \in 0 .. D /\ n + 1 # 0 /\ (n + 1) - 1 = n
    BY <1>1, <1>2
  <2>2. sc[n] = State(n)
    BY <1>6, <2>1
  <2>3. StartsWith(file, t[n + 1])
    BY <1>1, <2>1, StartsWithLess
  <2>4. Len(Body(records[n + 1])) <= MaxPayload
    BY <2>1
  <2>5. /\ RecordSound(file, at, n + 1, Before(t, n))
        /\ next = Len(t[n + 1]) /\ file[Len(t[n + 1])] = Before(t, n + 1)
        /\ RecordPayload(file, at) = Body(records[n + 1])
        /\ file[at + 3] = RecordCode[records[n + 1].type]
    <3>1. PICK k \in 1 .. Len(records) : k = n + 1 /\ k - 1 = n
      BY <2>1
    <3>2. StartsWith(file, t[k]) /\ Len(Body(records[k])) <= MaxPayload
      BY <2>3, <2>4, <3>1
    <3>3. FindsRecord(file, records, t, k)
      BY <3>2, ScanFindsRecord
    <3>4. QED
      BY <3>1, <3>3 DEF FindsRecord
  <2>6. sc[n].at = at /\ sc[n].previous = Before(t, n) /\ sc[n].records = Found(records, n)
        /\ Len(sc[n].records) = n
    BY <1>4, <2>2
  <2>7. sc[n + 1] = ScanStep(file, sc, n + 1)
    BY <1>3, <2>1
  <2>8. sc[n + 1] = [at |-> next, previous |-> file[next],
                     records |-> Append(sc[n].records, [code |-> file[at + 3],
                                                        payload |-> RecordPayload(file, at)])]
    BY <2>1, <2>5, <2>6, <2>7 DEF ScanStep
  <2>9. Append(sc[n].records, [code |-> file[at + 3], payload |-> RecordPayload(file, at)])
            = Found(records, n + 1)
    BY <2>5, <2>6, FoundGrows DEF FoundRecord
  <2>10. QED
    BY <2>5, <2>8, <2>9 DEF ScanState
<1>7. Nat \subseteq Good
  <2> HIDE DEF Good
  <2>1. QED
    BY <1>5, <1>6, NatSetInduction
<1>8. sc[N] = State(N)
  BY <1>1, <1>7
<1> DEFINE Still == {e \in Nat : N + e <= D => sc[N + e] = State(N)}
<1>9. 0 \in Still
  BY <1>1, <1>8
<1>10. ASSUME NEW e \in Nat, e \in Still PROVE e + 1 \in Still
  <2> SUFFICES ASSUME N + (e + 1) <= D PROVE sc[N + (e + 1)] = State(N)
    OBVIOUS
  <2> DEFINE k == N + (e + 1)
  <2>1. k \in 0 .. D /\ k # 0 /\ k - 1 = N + e /\ N + e <= D
    BY <1>1, <1>2
  <2> HIDE DEF k
  <2>2. sc[k - 1] = State(N)
    BY <1>10, <2>1
  <2>3. sc[k] = ScanStep(file, sc, k)
    BY <1>3, <2>1
  <2>4. ~RecordSound(file, sc[k - 1].at, Len(sc[k - 1].records) + 1, sc[k - 1].previous)
    BY <1>1, <1>4, <2>2
  <2>5. sc[k] = sc[k - 1]
    BY <2>1, <2>3, <2>4 DEF ScanStep
  <2>6. QED
    BY <2>2, <2>5 DEF k
<1>11. Nat \subseteq Still
  <2> HIDE DEF Still
  <2>1. QED
    BY <1>9, <1>10, NatSetInduction
<1>12. sc[D] = State(N)
  <2>1. D - N \in Nat /\ N + (D - N) = D
    BY <1>1, <1>2
  <2>2. PICK e \in Nat : N + e = D
    BY <2>1
  <2>3. e \in Still /\ N + e <= D
    BY <1>2, <1>11, <2>2
  <2>4. QED
    BY <2>2, <2>3
<1>13. QED
  BY <1>1, <1>3, <1>4, <1>12

\* Recovery keeps every record that decodes.
KeptRecord(read) == [type |-> read.type, value |-> read.read.value]
KeptPart(reads, n) == [i \in 1 .. n |-> KeptRecord(reads[i])]

LEMMA KeptGrows ==
    ASSUME NEW reads, NEW n \in Nat
    PROVE  Append(KeptPart(reads, n), KeptRecord(reads[n + 1])) = KeptPart(reads, n + 1)
<1> DEFINE S == {KeptRecord(reads[i]) : i \in 1 .. n + 1}
           a == KeptPart(reads, n)
           b == KeptPart(reads, n + 1)
           c == Append(a, KeptRecord(reads[n + 1]))
<1>1. \A i \in 1 .. n + 1 : KeptRecord(reads[i]) \in S
  OBVIOUS
<1> HIDE DEF S
<1>2. \A i \in 1 .. n : i \in 1 .. n + 1
  OBVIOUS
<1>3. n + 1 \in 1 .. n + 1
  OBVIOUS
<1>4. a \in Seq(S) /\ Len(a) = n /\ b \in Seq(S) /\ Len(b) = n + 1
  BY <1>1, <1>2 DEF KeptPart
<1>5. (\A i \in 1 .. n : a[i] = KeptRecord(reads[i]))
      /\ \A i \in 1 .. n + 1 : b[i] = KeptRecord(reads[i])
  BY DEF KeptPart
<1> HIDE DEF a, b
<1>6. /\ c \in Seq(S) /\ Len(c) = n + 1 /\ c[n + 1] = KeptRecord(reads[n + 1])
      /\ \A i \in 1 .. n : c[i] = a[i]
  BY <1>1, <1>3, <1>4
<1> HIDE DEF c
<1>7. \A i \in 1 .. n + 1 : i \in 1 .. n \/ i = n + 1
  OBVIOUS
<1>8. \A i \in 1 .. n + 1 : c[i] = b[i]
  BY <1>3, <1>5, <1>6, <1>7
<1>9. c = b
  BY <1>4, <1>6, <1>8, SeqEqual
<1>10. QED
  BY <1>9 DEF a, b, c

LEMMA KeptAll ==
    ASSUME NEW reads, NEW N \in Nat, Len(reads) = N, \A i \in 1 .. N : reads[i].read.ok
    PROVE  Kept(reads) = KeptPart(reads, N)
<1> DEFINE t == KeptTable(reads)
           Good == {n \in Nat : n <= N => t[n] = KeptPart(reads, n)}
<1>1. Kept(reads) = t[N] /\ \A n \in 0 .. N : t[n] = KeptStep(reads, t, n)
  BY KeptTableDefined
<1> HIDE DEF t
<1>2. 0 \in Good
  <2>1. 0 \in 0 .. N
    OBVIOUS
  <2>2. t[0] = << >>
    BY <1>1, <2>1 DEF KeptStep
  <2>3. KeptPart(reads, 0) \in Seq({}) /\ Len(KeptPart(reads, 0)) = 0
    BY DEF KeptPart
  <2>4. KeptPart(reads, 0) = << >>
    BY <2>3
  <2>5. QED
    BY <2>2, <2>4
<1>3. ASSUME NEW n \in Nat, n \in Good PROVE n + 1 \in Good
  <2> SUFFICES ASSUME n + 1 <= N PROVE t[n + 1] = KeptPart(reads, n + 1)
    OBVIOUS
  <2>1. n + 1 \in 0 .. N /\ n + 1 \in 1 .. N /\ n + 1 # 0 /\ (n + 1) - 1 = n /\ n <= N
    OBVIOUS
  <2>2. t[n + 1] = Append(t[n], KeptRecord(reads[n + 1]))
    BY <1>1, <2>1 DEF KeptStep, KeptRecord
  <2>3. t[n] = KeptPart(reads, n)
    BY <1>3, <2>1
  <2>4. QED
    BY <2>2, <2>3, KeptGrows
<1>4. Nat \subseteq Good
  <2> HIDE DEF Good
  <2>1. QED
    BY <1>2, <1>3, NatSetInduction
<1>5. QED
  BY <1>1, <1>4

\* A record that append accepts is one its decoder demands.
Fitting(m) == Len(Body(m)) <= MaxPayload => Fits(Read[m.type], Values[m])

LEMMA RecoveredRecords ==
    ASSUME NEW records \in Seq(Stored), NEW N \in 0 .. Len(records),
           \A i \in 1 .. N : Len(Body(records[i])) <= MaxPayload /\ Fitting(records[i]),
           NEW file, Scan(file) = Found(records, N)
    PROVE  Recovered(file) = [i \in 1 .. N |-> Messages[records[i]]]
<1> DEFINE found == Found(records, N)
           reads == [i \in DOMAIN found |-> ReadRecord(found[i])]
<1>1. N \in Nat /\ \A i \in 1 .. N : records[i] \in Stored
  OBVIOUS
<1>2. DOMAIN found = 1 .. N /\ \A i \in 1 .. N : found[i] = FoundRecord(records[i])
  BY DEF Found
<1>3. Recovered(file) = Kept(reads)
  BY DEF Recovered
<1> HIDE DEF found
<1>4. Len(reads) = N /\ \A i \in 1 .. N : reads[i] = ReadRecord(FoundRecord(records[i]))
  BY <1>1, <1>2
<1> HIDE DEF reads
<1>5. ASSUME NEW i \in 1 .. N
      PROVE  reads[i].read.ok /\ KeptRecord(reads[i]) = Messages[records[i]]
  <2> DEFINE m == records[i]
  <2>1. m \in Stored /\ m.type \in DOMAIN RecordCode /\ m \in Sent \cup Stored
    BY <1>1, StoredTypes
  <2>2. (CHOOSE u \in DOMAIN RecordCode : RecordCode[u] = RecordCode[m.type]) = m.type
    BY <2>1, StoredTypes
  <2>3. Len(Body(m)) <= MaxPayload /\ Fitting(m)
    OBVIOUS
  <2>4. reads[i] = ReadRecord(FoundRecord(m))
    BY <1>4
  <2> HIDE DEF m
  <2>5. FoundRecord(m).code = RecordCode[m.type] /\ FoundRecord(m).payload = Body(m)
    BY DEF FoundRecord
  <2>6. ReadRecord(FoundRecord(m)) = [type |-> m.type, read |-> Decode(m.type, Body(m))]
    BY <2>2, <2>5 DEF ReadRecord
  <2>7. Fits(Read[m.type], Values[m])
    BY <2>3 DEF Fitting
  <2>8. Decode(m.type, Body(m)) = Got(Values[m], Len(Body(m)) + 1)
    <3>1. m.type \in DOMAIN Written /\ HasType(Written[m.type], Values[m])
      BY <2>1, MessageTypes, WireAssumption
    <3>2. QED
      BY <2>3, <2>7, <3>1, RoundTrip DEF Body
  <2>9. Decode(m.type, Body(m)).ok /\ Decode(m.type, Body(m)).value = Values[m]
    BY <2>8, Outcomes
  <2>10. Messages[m] = [type |-> m.type, value |-> Values[m]]
    BY <2>1, Bodies
  <2>11. reads[i].read.ok /\ KeptRecord(reads[i]) = Messages[m]
    BY <2>4, <2>6, <2>9, <2>10 DEF KeptRecord
  <2>12. QED
    BY <2>11 DEF m
<1>6. Kept(reads) = KeptPart(reads, N)
  <2>1. \A i \in 1 .. N : reads[i].read.ok
    BY <1>5
  <2>2. QED
    BY <1>1, <1>4, <2>1, KeptAll
<1>7. KeptPart(reads, N) = [i \in 1 .. N |-> Messages[records[i]]]
  BY <1>5 DEF KeptPart
<1>8. QED
  BY <1>3, <1>6, <1>7

\* Every journal that starts with the record of the epoch is one of Journals.
LEMMA JournalFile ==
    ASSUME NEW records \in Seq(Stored), Len(records) >= 1, Len(records) <= MaxAppends + 1,
           records[1] = Started
    PROVE  Journals[records] = File(records)
<1> DEFINE n == Len(records) - 1
           more == [i \in 1 .. n |-> records[i + 1]]
           whole == <<Started>> \o more
<1>1. Len(records) \in Nat /\ n \in Nat /\ n + 1 = Len(records) /\ MaxAppends \in Nat /\
        n <= MaxAppends
  BY WireAssumption
<1> HIDE DEF n
<1>2. \A i \in 1 .. n : i + 1 \in 1 .. Len(records)
  BY <1>1
<1>3. more \in [1 .. n -> Stored] /\ more \in Seq(Stored) /\ Len(more) = n
  BY <1>1, <1>2
<1>4. \A i \in 1 .. n : more[i] = records[i + 1]
  OBVIOUS
<1> HIDE DEF more
<1>5. more \in BoundedSeq(Stored, MaxAppends)
  <2>1. n \in 0 .. MaxAppends
    BY <1>1
  <2>2. QED
    BY <1>3, <2>1 DEF BoundedSeq, SeqOf
<1>6. <<Started>> \in Seq(Stored) /\ Len(<<Started>>) = 1 /\ <<Started>>[1] = Started
  BY StoredTypes
<1>7. /\ whole \in Seq(Stored) /\ Len(whole) = 1 + n /\ whole[1] = Started
      /\ \A i \in 1 .. n : whole[1 + i] = more[i]
  BY <1>1, <1>3, <1>6
<1> HIDE DEF whole
<1>8. \A j \in 1 .. Len(records) : whole[j] = records[j]
  <2> TAKE j \in 1 .. Len(records)
  <2>1. CASE j = 1
    BY <1>7, <2>1
  <2>2. CASE j # 1
    <3>1. PICK i \in 1 .. n : j = 1 + i /\ j = i + 1
      <4>1. j - 1 \in 1 .. n /\ j = 1 + (j - 1) /\ j = (j - 1) + 1
        BY <1>1, <2>2
      <4>2. QED
        BY <4>1
    <3>2. whole[1 + i] = more[i] /\ more[i] = records[i + 1]
      BY <1>4, <1>7
    <3>3. QED
      BY <3>1, <3>2
  <2>3. QED
    BY <2>1, <2>2
<1>9. Len(whole) = Len(records)
  BY <1>1, <1>7
<1>10. whole = records
  BY <1>7, <1>8, <1>9, SeqEqual
<1>11. \E x \in BoundedSeq(Stored, MaxAppends) : records = <<Started>> \o x
  BY <1>5, <1>10 DEF whole
<1>12. QED
  BY <1>11 DEF Journals

\* The journal holds records that append accepted, the one of the epoch first; a
\* record that is being written is not all there.
JournalInv ==
    /\ journal \in [records : Seq(Stored), adding : Stored \cup {Nothing}, units : Nat]
    /\ Len(journal.records) >= 1 /\ Len(journal.records) <= MaxAppends + 1
    /\ journal.records[1] = Started
    /\ \A i \in 1 .. Len(journal.records) : Len(Body(journal.records[i])) <= MaxPayload
    /\ journal.adding = Nothing => journal.units = 0
    /\ journal.adding # Nothing => /\ Len(journal.records) <= MaxAppends
                                   /\ journal.units < Size[journal.adding]
                                   /\ Len(Body(journal.adding)) <= MaxPayload

LEMMA RecordSizes ==
    ASSUME NEW m \in Stored
    PROVE  Size[m] = 8 + Len(Body(m)) /\ Len(Body(m)) \in Nat
<1>1. m \in Sent \cup Stored
  OBVIOUS
<1>2. ImageOf(RecordImage(Messages[m], 1, 0), m, 1, 0)
  BY RecordImages
<1>3. QED
  BY <1>1, <1>2, Bodies DEF Size, ImageOf

LEMMA JournalInvInit == Init => JournalInv
<1> SUFFICES ASSUME Init PROVE JournalInv
  OBVIOUS
<1>1. journal = [records |-> <<Started>>, adding |-> Nothing, units |-> 0]
  BY DEF Init
<1>2. <<Started>> \in Seq(Stored) /\ Len(<<Started>>) = 1 /\ <<Started>>[1] = Started
  BY StoredTypes
<1>3. Len(Body(Started)) <= MaxPayload
  BY WireAssumption DEF Body
<1>4. MaxAppends \in Nat
  BY WireAssumption
<1>5. QED
  BY <1>1, <1>2, <1>3, <1>4 DEF JournalInv

LEMMA JournalInvNext == JournalInv /\ CallInv /\ [Next]_vars => JournalInv'
<1> SUFFICES ASSUME JournalInv, CallInv, [Next]_vars PROVE JournalInv'
  OBVIOUS
<1>1. CASE UNCHANGED journal
  BY <1>1 DEF JournalInv
<1>2. CASE AppendRecord
  <2>1. PICK record \in Records(client.call.type) :
            /\ Size[record] - RecordHeaderSize - 1 <= MaxPayload
            /\ journal' = [journal EXCEPT !.adding = record]
    BY <1>2 DEF AppendRecord
  <2>2. client.call \in Calls
    BY DEF CallInv
  <2>3. record \in Stored /\ record # Nothing
    BY <2>2, StoredTypes
  <2>4. Size[record] = 8 + Len(Body(record)) /\ Len(Body(record)) \in Nat
    BY <2>3, RecordSizes
  <2>5. Len(Body(record)) <= MaxPayload
    <3>1. MaxPayload \in Nat
      BY CodecAssumption
    <3>2. QED
      BY <2>1, <2>4, <3>1 DEF RecordHeaderSize
  <2>6. journal.adding = Nothing /\ Len(journal.records) <= MaxAppends /\ journal.units = 0
    BY <1>2 DEF AppendRecord, JournalInv
  <2>7. journal \in [records : Seq(Stored), adding : Stored \cup {Nothing}, units : Nat]
    BY DEF JournalInv
  <2>8. journal'.records = journal.records /\ journal'.adding = record /\ journal'.units = 0
        /\ journal' \in [records : Seq(Stored), adding : Stored \cup {Nothing}, units : Nat]
    BY <2>1, <2>3, <2>6, <2>7
  <2>9. 0 < Size[record]
    BY <2>4
  <2>10. QED
    BY <2>3, <2>5, <2>6, <2>8, <2>9 DEF JournalInv
<1>3. CASE Store
  <2> DEFINE r == journal.records
             m == journal.adding
  <2>1. m # Nothing /\ m \in Stored /\ r \in Seq(Stored) /\ Len(r) \in Nat /\ journal.units \in Nat
    BY <1>3 DEF Store, JournalInv
  <2>2. /\ Len(r) <= MaxAppends /\ Len(Body(m)) <= MaxPayload /\ Len(r) >= 1 /\ r[1] = Started
        /\ \A i \in 1 .. Len(r) : Len(Body(r[i])) <= MaxPayload
    BY <2>1 DEF JournalInv
  <2>3. MaxAppends \in Nat
    BY WireAssumption
  <2>4. CASE journal.units + 1 < Size[m]
    <3>1. journal' = [journal EXCEPT !.units = journal.units + 1]
      BY <1>3, <2>4 DEF Store
    <3>2. journal \in [records : Seq(Stored), adding : Stored \cup {Nothing}, units : Nat]
      BY DEF JournalInv
    <3>3. /\ journal' \in [records : Seq(Stored), adding : Stored \cup {Nothing}, units : Nat]
          /\ journal'.records = r /\ journal'.adding = m /\ journal'.units = journal.units + 1
      BY <2>1, <3>1, <3>2
    <3>4. Len(r) <= MaxAppends + 1
      BY <2>1, <2>2, <2>3
    <3> HIDE DEF r, m
    <3>5. QED
      BY <2>1, <2>2, <2>4, <3>3, <3>4 DEF JournalInv
  <2>5. CASE ~(journal.units + 1 < Size[m])
    <3>1. journal' = [records |-> Append(r, m), adding |-> Nothing, units |-> 0]
      BY <1>3, <2>5 DEF Store
    <3> DEFINE more == Append(r, m)
    <3>2. /\ more \in Seq(Stored) /\ Len(more) = Len(r) + 1 /\ more[Len(r) + 1] = m
          /\ \A i \in 1 .. Len(r) : more[i] = r[i]
      BY <2>1
    <3>3. journal'.records = more /\ journal'.adding = Nothing /\ journal'.units = 0
          /\ journal' \in [records : Seq(Stored), adding : Stored \cup {Nothing}, units : Nat]
      BY <3>1, <3>2
    <3> HIDE DEF r, m, more
    <3>4. more[1] = Started /\ Len(more) >= 1 /\ Len(more) <= MaxAppends + 1
      BY <2>1, <2>2, <2>3, <3>2
    <3>5. \A i \in 1 .. Len(more) : Len(Body(more[i])) <= MaxPayload
      <4> TAKE i \in 1 .. Len(more)
      <4>1. i \in 1 .. Len(r) \/ i = Len(r) + 1
        BY <2>1, <3>2
      <4>2. QED
        BY <2>2, <3>2, <4>1
    <3>6. QED
      BY <3>3, <3>4, <3>5 DEF JournalInv
  <2>6. QED
    BY <2>4, <2>5
<1>4. CASE Client
  <2>1. UNCHANGED journal
    BY <1>4 DEF Client, Ask, ClientSend, ClientReceive, ClientReturn, ClientFail, Hangup
  <2>2. QED
    BY <1>1, <2>1
<1>5. CASE Server
  <2>1. AppendRecord \/ Store \/ UNCHANGED journal
    BY <1>5 DEF Server, ServerReceive, Drop, Dispatch, Respond, ServerSend, ServerFail
  <2>2. QED
    BY <1>1, <1>2, <1>3, <2>1
<1>6. CASE Interrupt \/ Crash
  <2>1. UNCHANGED journal
    BY <1>6 DEF Interrupt, Crash
  <2>2. QED
    BY <1>1, <2>1
<1>7. CASE UNCHANGED vars
  <2>1. UNCHANGED journal
    BY <1>7 DEF vars
  <2>2. QED
    BY <1>1, <2>1
<1>8. QED
  BY <1>4, <1>5, <1>6, <1>7 DEF Next

\* What is left of the file when the coordinator dies: all of the records whose
\* append returned, and less than all of the one behind them.
LEMMA LeftOfFile ==
    ASSUME NEW records \in Seq(Stored), NEW t, t = FileTable(records), NEW n \in 0 .. Len(records),
           NEW units \in Nat, n = Len(records) => units = 0,
           n < Len(records) => /\ Len(records) = n + 1
                               /\ units < 8 + Len(Body(records[n + 1])),
           NEW file, file = SubSeq(File(records), 1, Len(t[n]) + units)
    PROVE  /\ file \in Seq(Range(file)) /\ StartsWith(file, t[n])
           /\ \A s, p : ~RecordSound(file, Len(t[n]), s, p)
<1> DEFINE N == Len(records)
           all == File(records)
           left == Len(t[n]) + units
<1>1. N \in Nat /\ n \in Nat /\ n <= N
  OBVIOUS
<1>2. all = t[N] /\ Len(t[n]) \in Nat /\ t[n] \in Seq(Range(t[n]))
  BY <1>1, FileParts
<1>3. all \in Seq(Range(all)) /\ Len(all) \in Nat
  <2>1. N \in 0 .. Len(records)
    BY <1>1
  <2> HIDE DEF N
  <2>2. t[N] \in Seq(Range(t[N])) /\ Len(t[N]) \in Nat
    BY <2>1, FileParts
  <2>3. QED
    BY <1>2, <2>2
<1>4. CASE n = N
  <2>1. left = Len(all) /\ units = 0
    BY <1>2, <1>4
  <2>2. SubSeq(all, 1, Len(all)) = all
    <3> DEFINE s == SubSeq(all, 1, Len(all))
               S == Range(all)
    <3>1. all \in Seq(S)
      BY <1>3
    <3> HIDE DEF S, all
    <3>2. s \in Seq(S) /\ Len(s) = Len(all) /\ \A i \in 1 .. Len(all) : s[i] = all[i]
      BY <1>3, <3>1
    <3> HIDE DEF s
    <3>3. s = all
      BY <3>1, <3>2, SeqEqual
    <3>4. QED
      BY <3>3 DEF s
  <2>3. file = all /\ file = t[n]
    BY <1>2, <1>4, <2>1, <2>2
  <2>4. Len(t[n]) = Len(file) /\ Len(file) \in Nat
    BY <1>2, <2>3
  <2>5. \A s, p : ~RecordSound(file, Len(t[n]), s, p)
    BY <2>4, NoRecord
  <2>6. StartsWith(file, t[n])
    BY <1>2, <2>3 DEF StartsWith
  <2>7. QED
    BY <1>2, <2>3, <2>5, <2>6
<1>5. CASE n < N
  <2> DEFINE m == records[N]
             image == Image(records, t, N)
  <2>1. N = n + 1 /\ N \in 1 .. N /\ N - 1 = n
    BY <1>1, <1>5
  <2>2. ImageOf(image, m, N, Before(t, n)) /\ t[N] = t[n] \o image /\ m \in Stored
    <3>1. N \in 1 .. Len(records) /\ m \in Stored
      BY <2>1
    <3> HIDE DEF N
    <3>2. ImageOf(Image(records, t, N), records[N], N, Before(t, N - 1))
          /\ t[N] = t[N - 1] \o Image(records, t, N)
      BY <3>1, FileParts
    <3>3. QED
      BY <2>1, <3>1, <3>2
  <2>3. units < 8 + Len(Body(m))
    BY <1>5, <2>1
  <2>4. image \in Seq(Range(image)) /\ Len(image) = 8 + Len(Body(m))
    BY <2>2 DEF ImageOf
  <2> HIDE DEF image, m
  <2>5. /\ Len(all) = Len(t[n]) + Len(image) /\ Len(image) \in Nat
        /\ \A i \in 1 .. Len(t[n]) : all[i] = t[n][i]
        /\ \A i \in 1 .. Len(image) : all[Len(t[n]) + i] = image[i]
    <3>1. t[n] \in Seq(Range(t[n])) /\ image \in Seq(Range(image))
      BY <1>2, <2>4
    <3>2. /\ Len(t[n] \o image) = Len(t[n]) + Len(image) /\ Len(image) \in Nat
          /\ \A i \in 1 .. Len(t[n]) : (t[n] \o image)[i] = t[n][i]
          /\ \A i \in 1 .. Len(image) : (t[n] \o image)[Len(t[n]) + i] = image[i]
      BY <3>1, ConcatRange
    <3>3. all = t[n] \o image
      BY <1>2, <2>2
    <3>4. QED
      BY <3>2, <3>3
  <2> HIDE DEF all
  <2>6. left \in Nat /\ left <= Len(all) /\ left < Len(t[n]) + Len(image)
    <3>1. units < Len(image)
      BY <2>3, <2>4
    <3>2. \A a, b \in Nat : units < b => /\ a + units \in Nat /\ a + units <= a + b
                                          /\ a + units < a + b
      OBVIOUS
    <3>3. QED
      BY <1>2, <2>5, <3>1, <3>2
  <2>7. /\ file \in Seq(Range(all)) /\ Len(file) = left
        /\ \A i \in 1 .. left : file[i] = all[i]
    <3>1. file = SubSeq(all, 1, left)
      BY DEF all
    <3> DEFINE S == Range(all)
    <3>2. all \in Seq(S)
      BY <1>3
    <3> HIDE DEF S, left
    <3>3. file \in Seq(S) /\ Len(file) = left /\ \A i \in 1 .. left : file[i] = all[i]
      <4>1. left <= Len(all) /\ left \in Nat /\ Len(all) \in Nat
        BY <1>3, <2>6
      <4> HIDE DEF all
      <4>2. QED
        BY <3>1, <3>2, <4>1, SMTT(30)
    <3>4. QED
      BY <3>3 DEF S
  <2>8. file \in Seq(Range(file))
    BY <2>7, RangeSeq
  <2>9. StartsWith(file, t[n])
    <3>1. \A i \in 1 .. Len(t[n]) : i \in 1 .. left
      BY <1>2
    <3>2. Len(t[n]) <= left
      BY <1>2
    <3>3. QED
      BY <2>5, <2>7, <3>1, <3>2 DEF StartsWith
  <2>10. /\ Len(file) \in Nat /\ Len(t[n]) <= Len(file) /\ Len(file) < Len(t[n]) + Len(image)
         /\ \A i \in 1 .. Len(file) - Len(t[n]) : file[Len(t[n]) + i] = image[i]
    <3>1. Len(file) - Len(t[n]) = units /\ units <= Len(image)
      BY <1>2, <2>3, <2>4, <2>7
    <3>2. \A i \in 1 .. units : i \in 1 .. Len(image) /\ Len(t[n]) + i \in 1 .. left
      BY <1>2, <2>5, <3>1
    <3>3. \A i \in 1 .. units : file[Len(t[n]) + i] = image[i]
      BY <2>5, <2>7, <3>2
    <3>4. Len(file) \in Nat /\ Len(t[n]) <= Len(file) /\ Len(file) < Len(t[n]) + Len(image)
      BY <1>2, <2>6, <2>7
    <3>5. QED
      BY <3>1, <3>3, <3>4
  <2>11. ASSUME NEW s, NEW p PROVE ~RecordSound(file, Len(t[n]), s, p)
    <3>1. m \in Stored /\ ImageOf(image, m, N, Before(t, n)) /\ Len(t[n]) \in Nat
      BY <1>2, <2>2
    <3>2. QED
      BY <2>10, <3>1, TornRecord
  <2>12. QED
    BY <2>8, <2>9, <2>11
<1>6. QED
  BY <1>1, <1>4, <1>5

\* Every record that append accepts is within the bounds of its decoder.  A plan
\* with more path shares for one demand than the decoder allows is not.
RecordsFit == \A m \in Stored : Fitting(m)

LEMMA RecoveryReads ==
    ASSUME RecordsFit, JournalInv
    PROVE  RecoveryReadsWhatWasWritten
<1> DEFINE r == journal.records
           m == journal.adding
           growing == IF m = Nothing THEN r ELSE Append(r, m)
           N == Len(r)
           left == Len(Journals[r]) + journal.units
           file == SubSeq(Journals[growing], 1, left)
           t == FileTable(growing)
<1>1. /\ r \in Seq(Stored) /\ N \in Nat /\ N >= 1 /\ N <= MaxAppends + 1 /\ r[1] = Started
      /\ journal.units \in Nat /\ m \in Stored \cup {Nothing}
      /\ \A i \in 1 .. N : Len(Body(r[i])) <= MaxPayload
  BY DEF JournalInv
<1>2. Journals[r] = File(r)
  BY <1>1, JournalFile
<1>3. MaxAppends \in Nat
  BY WireAssumption
<1>4. /\ growing \in Seq(Stored) /\ Journals[growing] = File(growing)
      /\ N \in 0 .. Len(growing) /\ \A i \in 1 .. N : growing[i] = r[i]
      /\ FileTable(growing)[N] = FileTable(r)[N]
      /\ N = Len(growing) => journal.units = 0
      /\ N < Len(growing) => /\ Len(growing) = N + 1
                             /\ journal.units < 8 + Len(Body(growing[N + 1]))
  <2>1. CASE m = Nothing
    <3>1. growing = r /\ journal.units = 0
      BY <2>1 DEF JournalInv
    <3> HIDE DEF r, m
    <3>2. QED
      BY <1>1, <1>2, <3>1
  <2>2. CASE m # Nothing
    <3>1. growing = Append(r, m) /\ m \in Stored
      BY <1>1, <2>2
    <3>2. N <= MaxAppends /\ journal.units < Size[m]
      BY <2>2 DEF JournalInv
    <3>3. Size[m] = 8 + Len(Body(m))
      BY <3>1, RecordSizes
    <3> HIDE DEF growing, r, m
    <3>4. /\ growing \in Seq(Stored) /\ Len(growing) = N + 1 /\ growing[N + 1] = m
          /\ \A i \in 1 .. N : growing[i] = r[i]
      BY <1>1, <3>1
    <3>5. /\ growing[1] = Started /\ Len(growing) >= 1 /\ Len(growing) <= MaxAppends + 1
          /\ N \in 0 .. Len(growing) /\ N \in 0 .. N /\ N # Len(growing)
      BY <1>1, <1>3, <3>2, <3>4
    <3>6. Journals[growing] = File(growing)
      BY <3>4, <3>5, JournalFile
    <3>7. FileTable(growing)[N] = FileTable(r)[N]
      BY <1>1, <3>1, <3>5, FileKeeps
    <3>8. QED
      BY <3>2, <3>3, <3>4, <3>5, <3>6, <3>7
  <2>3. QED
    BY <2>1, <2>2
<1> HIDE DEF growing, r, m
<1>5. File(r) = t[N] /\ left = Len(t[N]) + journal.units /\ Journals[growing] = File(growing)
  <2>1. File(r) = FileTable(r)[N]
    BY <1>1, FileParts
  <2>2. QED
    BY <1>2, <1>4, <2>1
<1>6. /\ file \in Seq(Range(file)) /\ StartsWith(file, t[N])
      /\ \A s, p : ~RecordSound(file, Len(t[N]), s, p)
  <2>1. file = SubSeq(File(growing), 1, Len(t[N]) + journal.units)
    BY <1>5
  <2> HIDE DEF file, N
  <2>2. QED
    BY <1>1, <1>4, <2>1, LeftOfFile
<1>7. \A i \in 1 .. N : growing[i] \in Stored /\ Len(Body(growing[i])) <= MaxPayload
                        /\ Fitting(growing[i])
  BY <1>1, <1>4 DEF RecordsFit
<1> HIDE DEF file, left
<1>8. Scan(file) = Found(growing, N)
  <2> HIDE DEF N
  <2>1. QED
    BY <1>4, <1>6, <1>7, ScanFinds
<1>9. Recovered(file) = [i \in 1 .. N |-> Messages[growing[i]]]
  <2> HIDE DEF N
  <2>1. QED
    BY <1>4, <1>7, <1>8, RecoveredRecords
<1>10. [i \in 1 .. N |-> Messages[growing[i]]] = [i \in DOMAIN r |-> Messages[r[i]]]
  <2>1. DOMAIN r = 1 .. N
    BY <1>1
  <2>2. \A i \in 1 .. N : Messages[growing[i]] = Messages[r[i]]
    BY <1>4
  <2>3. QED
    BY <2>1, <2>2
<1>11. QED
  BY <1>9, <1>10 DEF RecoveryReadsWhatWasWritten, file, left, growing, r, m

\* Wherever the coordinator dies, and whatever it was appending, recovery finds in
\* the file exactly the records whose append returned, with the values they were
\* written with (append, scan and replay of persist.cpp).
THEOREM WireRecoveryReads ==
    ASSUME RecordsFit
    PROVE  Spec => []RecoveryReadsWhatWasWritten
<1>1. JournalInv => RecoveryReadsWhatWasWritten
  BY RecoveryReads
<1>2. Spec => []CallInv
  BY WireInvariant
<1>3. QED
  BY <1>1, <1>2, JournalInvInit, JournalInvNext, PTL DEF Spec

===============================================================================
