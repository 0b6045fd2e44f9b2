--------------------------- MODULE RepositoryProofs ---------------------------
(***************************************************************************)
(* Proofs about Repository, for any number of records, appends, failed     *)
(* file operations and crashes, and any compaction threshold: what a       *)
(* restart recovers is a chain, and the repository implements DurableLog.  *)
(*                                                                         *)
(* The replay of the journal is a recursive function; what it computes is  *)
(* shown by induction on the journal (DataInduction), once, and the steps  *)
(* of the repository only use the lemmas about it.                         *)
(***************************************************************************)
EXTENDS Repository, DataInduction, SequenceTheorems, FiniteSetTheorems, TLAPS

Entries == Record \cup {Torn}

\* What the replay has come to.
Progress == [records : Seq(Record), last : Nat, prev : Nat, kept : Nat, stopped : BOOLEAN]

\* Records that were written by one chain of appends, left-over ones included:
\* an identity belongs to one record, and the digest a record names as its
\* predecessor determines its sequence number.
Consistent(U) ==
    /\ U \subseteq Record
    /\ \A r, x \in U : r.id = x.id => r = x
    /\ \A r, x \in U : r.prev = x.id => r.sequence = x.sequence + 1
    /\ \A r \in U : r.prev = ZeroDigest => r.sequence = 1

Chained(recs) ==
    \A i \in 1 .. Len(recs) :
        /\ recs[i].sequence = i
        /\ recs[i].prev = IF i = 1 THEN ZeroDigest ELSE recs[i - 1].id

RecordsOf(seq) == {r \in Record : \E i \in 1 .. Len(seq) : seq[i] = r}
Written == RecordsOf(journal) \cup RecordsOf(SnapshotRecords) \cup RecordsOf(records)

Extends(recs, base) ==
    /\ Len(base) <= Len(recs)
    /\ \A i \in 1 .. Len(base) : recs[i] = base[i]

(***************************************************************************)
(* The inductive invariant                                                 *)
(***************************************************************************)
TypeOK ==
    /\ snapshot \in {NoFile} \cup SnapshotFile
    /\ journal \in Seq(Entries)
    /\ pc \in Pcs \ {"refused"}
    /\ records \in Seq(Record)
    /\ records_since_compaction \in Nat
    /\ handle \in BOOLEAN
    /\ appending \in Nat
    /\ next_id \in 1 .. MaxAppends + 1 /\ faults \in Nat
    /\ acked \subseteq Nat

WrittenOK ==
    /\ Consistent(Written)
    /\ \A r \in Written : r.id < next_id /\ r.prev < r.id

\* Both the file and the memory hold a whole chain.
ChainsOK ==
    /\ Chained(SnapshotRecords) /\ SnapshotSequence = Len(SnapshotRecords)
    /\ Chained(records)
    /\ last_sequence = Len(records) /\ last_record_digest = LastDigest(records)

\* The snapshot file has been replaced and the journal is not open yet.
Covering == pc \in {"journal", "reopen"} \/ (pc \in {"idle", "snapshot"} /\ ~handle)
Covered == Covering => snapshot # NoFile /\ SnapshotRecords = records

\* The journal is open: memory is the snapshot and what was appended since, and
\* the first record of the journal, if it is whole, follows the snapshot's last.
Appending == pc \in {"idle", "snapshot"} /\ handle
Follows ==
    Appending =>
        /\ Extends(records, SnapshotRecords)
        /\ journal = << >> => records = SnapshotRecords
        /\ journal # << >> => \/ journal[1] = Torn
                              \/ journal[1] # Torn /\ journal[1].prev = LastDigest(SnapshotRecords)

PcsOK ==
    /\ pc = "down" => records = << >>
    /\ pc = "reopen" => journal = << >> /\ ~handle
    /\ appending # ZeroDigest => \E i \in 1 .. Len(records) : records[i].id = appending

Inv == TypeOK /\ WrittenOK /\ ChainsOK /\ Covered /\ Follows /\ PcsOK

(***************************************************************************)
(* The replay as a recursion                                               *)
(***************************************************************************)
\* The recursive definition of the replay defines a function: it has a value
\* after every record of the journal, computed from the one before.
LEMMA StepsDefined ==
    ASSUME NEW recs, NEW covered, NEW j, Len(j) \in Nat
    PROVE  /\ ReplaySteps(recs, covered, j)[0] = NothingReplayed(recs, covered)
           /\ \A n \in 1 .. Len(j) :
                ReplaySteps(recs, covered, j)[n] =
                  ReplayOne(ReplaySteps(recs, covered, j)[n - 1], j[n], n, covered)
<1> DEFINE Start == NothingReplayed(recs, covered)
           Fcn(g, n) == [m \in 0 .. n |-> IF m = 0 THEN Start
                                          ELSE ReplayOne(g[m - 1], j[m], m, covered)]
           Good == {n \in Nat : \E g : g = Fcn(g, n)}
<1> HIDE DEF Start
<1>1. 0 \in Good
  <2> DEFINE g == [m \in 0 .. 0 |-> Start]
  <2>1. g = Fcn(g, 0)
    OBVIOUS
  <2>2. QED
    BY <2>1
<1>2. ASSUME NEW n \in Nat, n \in Good PROVE n + 1 \in Good
  <2>1. PICK g : g = Fcn(g, n)
    BY <1>2
  <2> DEFINE last == ReplayOne(g[n], j[n + 1], n + 1, covered)
             h == [m \in 0 .. n + 1 |-> IF m <= n THEN g[m] ELSE last]
  <2>2. \A m \in 0 .. n : h[m] = g[m]
    OBVIOUS
  <2>3. h[n + 1] = last
    OBVIOUS
  <2>4. ASSUME NEW m \in 0 .. n + 1
        PROVE  h[m] = IF m = 0 THEN Start ELSE ReplayOne(h[m - 1], j[m], m, covered)
    <3>1. CASE m = 0
      <4>1. g[0] = Start
        BY <2>1
      <4>2. QED
        BY <2>2, <3>1, <4>1
    <3>2. CASE m # 0 /\ m <= n
      <4>1. g[m] = ReplayOne(g[m - 1], j[m], m, covered)
        BY <2>1, <3>2
      <4>2. h[m] = g[m] /\ h[m - 1] = g[m - 1]
        BY <2>2, <3>2
      <4>3. QED
        BY <3>2, <4>1, <4>2
    <3>3. CASE m = n + 1
      <4>1. m - 1 = n /\ h[m - 1] = g[n] /\ m # 0
        BY <2>2, <3>3
      <4>2. QED
        BY <2>3, <3>3, <4>1
    <3>4. QED
      BY <3>1, <3>2, <3>3
  <2>5. h = Fcn(h, n + 1)
    <3> HIDE DEF last
    <3>1. QED
      BY <2>4
  <2> HIDE DEF h
  <2>6. \E f : f = Fcn(f, n + 1)
    BY <2>5
  <2>7. QED
    BY <2>6
<1>3. Nat \subseteq Good
  BY <1>1, <1>2, NatSetInduction
<1>4. \E g : g = Fcn(g, Len(j))
  BY <1>3
<1>5. ReplaySteps(recs, covered, j) = CHOOSE g : g = Fcn(g, Len(j))
  BY DEF ReplaySteps, Start
<1>6. ReplaySteps(recs, covered, j) = Fcn(ReplaySteps(recs, covered, j), Len(j))
  BY <1>4, <1>5
<1> DEFINE after == ReplaySteps(recs, covered, j)
<1> HIDE DEF after
<1>7. after = [m \in 0 .. Len(j) |-> IF m = 0 THEN Start
                                      ELSE ReplayOne(after[m - 1], j[m], m, covered)]
  BY <1>6 DEF after
<1>8. after[0] = Start /\ \A n \in 1 .. Len(j) : after[n] = ReplayOne(after[n - 1], j[n], n, covered)
  BY <1>7
<1>9. QED
  BY <1>8 DEF after, Start

\* Two journals that begin alike are replayed alike as far as that goes.
LEMMA ReplayPrefix ==
    ASSUME NEW recs, NEW covered, NEW i, NEW j, Len(i) \in Nat, Len(j) \in Nat, Len(i) <= Len(j),
           \A n \in 1 .. Len(i) : i[n] = j[n]
    PROVE  \A n \in 0 .. Len(i) :
              ReplaySteps(recs, covered, i)[n] = ReplaySteps(recs, covered, j)[n]
<1> DEFINE I == ReplaySteps(recs, covered, i)
           J == ReplaySteps(recs, covered, j)
           Good == {n \in Nat : n <= Len(i) => I[n] = J[n]}
<1>1. /\ I[0] = J[0]
      /\ \A n \in 1 .. Len(i) : I[n] = ReplayOne(I[n - 1], i[n], n, covered)
      /\ \A n \in 1 .. Len(j) : J[n] = ReplayOne(J[n - 1], j[n], n, covered)
  BY StepsDefined
<1> HIDE DEF I, J
<1>2. 0 \in Good
  BY <1>1
<1>3. ASSUME NEW n \in Nat, n \in Good PROVE n + 1 \in Good
  <2> SUFFICES ASSUME n + 1 <= Len(i) PROVE I[n + 1] = J[n + 1]
    OBVIOUS
  <2>1. n + 1 \in 1 .. Len(i) /\ n + 1 \in 1 .. Len(j) /\ (n + 1) - 1 = n
    OBVIOUS
  <2>2. I[n] = J[n] /\ i[n + 1] = j[n + 1]
    BY <1>3, <2>1
  <2>3. QED
    BY <1>1, <2>1, <2>2
<1>4. Nat \subseteq Good
  BY <1>2, <1>3, NatSetInduction
<1>5. QED
  BY <1>4 DEF I, J

(***************************************************************************)
(* What the replay computes                                                *)
(***************************************************************************)
\* The digest at the end of a chain.
LEMMA LastDigestOf ==
    ASSUME NEW recs \in Seq(Record)
    PROVE  /\ LastDigest(recs) \in Nat
           /\ LastDigest(recs) = ZeroDigest <=> recs = << >>
           /\ recs # << >> => /\ Len(recs) \in 1 .. Len(recs) /\ recs[Len(recs)] \in Record
                              /\ LastDigest(recs) = recs[Len(recs)].id
<1>1. CASE recs = << >>
  BY <1>1 DEF LastDigest, ZeroDigest
<1>2. CASE recs # << >>
  <2>1. Len(recs) \in Nat \ {0} /\ Len(recs) \in 1 .. Len(recs)
    BY <1>2, EmptySeq
  <2>2. recs[Len(recs)] \in Record
    BY <2>1
  <2>3. recs[Len(recs)].id \in Nat \ {0}
    BY <2>2 DEF Record
  <2>4. QED
    BY <1>2, <2>1, <2>2, <2>3 DEF LastDigest, ZeroDigest
<1>3. QED
  BY <1>1, <1>2

Sound(U, recs, s) ==
    /\ s \in Progress
    /\ Chained(s.records) /\ RecordsOf(s.records) \subseteq U
    /\ s.last = Len(s.records) /\ s.prev = LastDigest(s.records)
    /\ Extends(s.records, recs)

\* A record is taken when the replay has not stopped and it follows the last.
Accepts(s, r) == ~s.stopped /\ r # Torn /\ r.prev = s.prev
Taken(s, r, n) ==
    [records |-> Append(s.records, r), last |-> s.last + 1, prev |-> r.id, kept |-> n,
     stopped |-> FALSE]
Stopped(s) == [s EXCEPT !.stopped = TRUE]

\* The predecessor a record names determines its sequence number.
LEMMA FollowsInSequence ==
    ASSUME NEW U, Consistent(U), NEW recs \in Seq(Record), Chained(recs), RecordsOf(recs) \subseteq U,
           NEW r \in U, r.prev = LastDigest(recs)
    PROVE  r.sequence = Len(recs) + 1
<1>1. CASE recs = << >>
  <2>1. r.prev = ZeroDigest /\ Len(recs) = 0
    BY <1>1, LastDigestOf
  <2>2. QED
    BY <2>1 DEF Consistent
<1>2. CASE recs # << >>
  <2> DEFINE x == recs[Len(recs)]
  <2>1. Len(recs) \in 1 .. Len(recs) /\ x \in Record /\ r.prev = x.id
    BY <1>2, LastDigestOf
  <2>2. x \in U /\ x.sequence = Len(recs)
    BY <2>1 DEF RecordsOf, Chained
  <2> HIDE DEF x
  <2>3. QED
    BY <2>1, <2>2 DEF Consistent
<1>3. QED
  BY <1>1, <1>2

\* So the replay never skips a record, and stops for good at the first that
\* does not follow.
LEMMA OneStep ==
    ASSUME NEW U, Consistent(U), NEW recs \in Seq(Record), NEW s, Sound(U, recs, s),
           NEW r \in U \cup {Torn}, NEW n \in Nat
    PROVE  ReplayOne(s, r, n, Len(recs)) = IF Accepts(s, r) THEN Taken(s, r, n) ELSE Stopped(s)
<1>1. CASE Accepts(s, r)
  <2>1. r \in U /\ r # Torn /\ s.records \in Seq(Record) /\ s.last = Len(s.records)
    BY <1>1 DEF Accepts, Sound, Progress
  <2>2. r.prev = LastDigest(s.records)
    BY <1>1 DEF Accepts, Sound
  <2>3. r.sequence = Len(s.records) + 1
    BY <2>1, <2>2, FollowsInSequence DEF Sound
  <2>4. Len(recs) \in Nat /\ Len(s.records) \in Nat /\ Len(recs) <= Len(s.records)
    BY <2>1 DEF Sound, Extends
  <2>5. ~(r.sequence <= Len(recs)) /\ r.sequence = s.last + 1
    BY <2>1, <2>3, <2>4
  <2>6. QED
    BY <1>1, <2>5 DEF ReplayOne, Accepts, Taken
<1>2. CASE ~Accepts(s, r)
  BY <1>2 DEF ReplayOne, Accepts, Stopped
<1>3. QED
  BY <1>1, <1>2

\* A chain grows by a record that names its last.
LEMMA ChainGrows ==
    ASSUME NEW recs \in Seq(Record), Chained(recs), NEW r \in Record,
           r.prev = LastDigest(recs), r.sequence = Len(recs) + 1
    PROVE  /\ Append(recs, r) \in Seq(Record) /\ Len(Append(recs, r)) = Len(recs) + 1
           /\ Chained(Append(recs, r)) /\ LastDigest(Append(recs, r)) = r.id
           /\ Extends(Append(recs, r), recs)
           /\ RecordsOf(Append(recs, r)) \subseteq RecordsOf(recs) \cup {r}
<1> DEFINE a == Append(recs, r)
           n == Len(recs)
<1>1. /\ a \in Seq(Record) /\ Len(a) = n + 1 /\ n \in Nat
      /\ a[n + 1] = r /\ \A i \in 1 .. n : a[i] = recs[i]
  BY AppendProperties
<1>2. LastDigest(a) = r.id
  <2>1. a # << >> /\ a[Len(a)] = r
    BY <1>1
  <2>2. QED
    BY <2>1 DEF LastDigest
<1>3. n = 0 => r.prev = ZeroDigest
  <2>1. n = 0 => recs = << >>
    BY EmptySeq
  <2>2. QED
    BY <2>1 DEF LastDigest
<1>4. n # 0 => r.prev = recs[n].id
  BY LastDigestOf
<1> HIDE DEF a
<1>5. ASSUME NEW i \in 1 .. Len(a)
      PROVE  a[i].sequence = i /\ a[i].prev = IF i = 1 THEN ZeroDigest ELSE a[i - 1].id
  <2>1. CASE i \in 1 .. n
    <3>1. i # 1 => a[i - 1] = recs[i - 1]
      BY <1>1, <2>1
    <3>2. a[i] = recs[i]
      BY <1>1, <2>1
    <3>3. QED
      BY <2>1, <3>1, <3>2 DEF Chained
  <2>2. CASE i = n + 1
    BY <1>1, <1>3, <1>4, <2>2
  <2>3. QED
    BY <1>1, <2>1, <2>2
<1>6. Chained(a)
  BY <1>5 DEF Chained
<1>7. Extends(a, recs)
  BY <1>1 DEF Extends
<1>8. RecordsOf(a) \subseteq RecordsOf(recs) \cup {r}
  <2> SUFFICES ASSUME NEW i \in 1 .. Len(a), a[i] \in Record
               PROVE  a[i] \in RecordsOf(recs) \cup {r}
    BY DEF RecordsOf
  <2>1. CASE i \in 1 .. n
    BY <1>1, <2>1 DEF RecordsOf
  <2>2. QED
    BY <1>1, <2>1
<1>9. QED
  BY <1>1, <1>2, <1>6, <1>7, <1>8 DEF a

\* The replay stays sound.
LEMMA StepSound ==
    ASSUME NEW U, Consistent(U), NEW recs \in Seq(Record), NEW s, Sound(U, recs, s),
           NEW r \in U \cup {Torn}, NEW n \in Nat
    PROVE  /\ Accepts(s, r) => Sound(U, recs, Taken(s, r, n))
           /\ Sound(U, recs, Stopped(s))
<1>1. Sound(U, recs, Stopped(s))
  BY DEF Sound, Stopped, Progress
<1>2. ASSUME Accepts(s, r) PROVE Sound(U, recs, Taken(s, r, n))
  <2>1. r \in U /\ r \in Record /\ s.records \in Seq(Record) /\ s.last = Len(s.records)
    BY <1>2 DEF Accepts, Sound, Progress, Consistent
  <2>2. r.prev = LastDigest(s.records)
    BY <1>2 DEF Accepts, Sound
  <2>3. r.sequence = Len(s.records) + 1
    BY <2>1, <2>2, FollowsInSequence DEF Sound
  <2> DEFINE a == Append(s.records, r)
  <2>4. /\ a \in Seq(Record) /\ Len(a) = Len(s.records) + 1 /\ Chained(a) /\ LastDigest(a) = r.id
        /\ Extends(a, s.records) /\ RecordsOf(a) \subseteq RecordsOf(s.records) \cup {r}
    BY <2>1, <2>2, <2>3, ChainGrows DEF Sound
  <2>5. Taken(s, r, n) = [records |-> a, last |-> Len(s.records) + 1, prev |-> r.id, kept |-> n,
                          stopped |-> FALSE]
    BY <2>1 DEF Taken
  <2> HIDE DEF a
  <2>6. Extends(a, recs)
    <3>1. Len(recs) \in Nat /\ Len(s.records) \in Nat
      BY <2>1
    <3>2. QED
      BY <2>4, <3>1 DEF Sound, Extends
  <2>7. RecordsOf(a) \subseteq U
    BY <2>1, <2>4 DEF Sound
  <2>8. r.id \in Nat /\ Len(s.records) + 1 \in Nat
    BY <2>1 DEF Record
  <2>9. QED
    BY <2>4, <2>5, <2>6, <2>7, <2>8 DEF Sound, Progress
<1>3. QED
  BY <1>1, <1>2

\* A snapshot that is a chain and a journal of records that belong together.
Replayable(U, recs, j) ==
    /\ Consistent(U)
    /\ recs \in Seq(Record) /\ Chained(recs) /\ RecordsOf(recs) \subseteq U
    /\ j \in Seq(Entries) /\ RecordsOf(j) \subseteq U

LEMMA EntryOf ==
    ASSUME NEW U, NEW recs, NEW j, Replayable(U, recs, j), NEW n \in 1 .. Len(j)
    PROVE  j[n] \in U \cup {Torn}
<1>1. j[n] \in Entries
  BY DEF Replayable
<1>2. QED
  BY <1>1 DEF Replayable, Entries, RecordsOf

\* The same, as if nothing had stopped it.
Resumed(s) == [records |-> s.records, last |-> s.last, prev |-> s.prev, kept |-> s.kept,
               stopped |-> FALSE]

\* Where the replay has come to after n records: what it has taken is a chain
\* that extends the snapshot's; it is what it was after the last record kept,
\* and it keeps a record only if the first one follows the snapshot.
Reached(U, recs, j, n, s) ==
    /\ Sound(U, recs, s)
    /\ s.kept <= n /\ (~s.stopped => s.kept = n)
    /\ ReplaySteps(recs, Len(recs), j)[s.kept] = Resumed(s)
    /\ s.kept # 0 => j[1] # Torn /\ j[1].prev = LastDigest(recs)

LEMMA ReplayReaches ==
    ASSUME NEW U, NEW recs, NEW j, Replayable(U, recs, j)
    PROVE  \A n \in 0 .. Len(j) : Reached(U, recs, j, n, ReplaySteps(recs, Len(recs), j)[n])
<1> DEFINE after == ReplaySteps(recs, Len(recs), j)
           Good == {n \in Nat : n <= Len(j) => Reached(U, recs, j, n, after[n])}
           start == NothingReplayed(recs, Len(recs))
<1>1. Len(j) \in Nat /\ Len(recs) \in Nat /\ recs \in Seq(Record)
  BY DEF Replayable
<1>2. /\ after[0] = start
      /\ \A n \in 1 .. Len(j) : after[n] = ReplayOne(after[n - 1], j[n], n, Len(recs))
  BY <1>1, StepsDefined
<1>3. Sound(U, recs, start)
  <2>1. LastDigest(recs) \in Nat
    BY <1>1, LastDigestOf
  <2>2. start = [records |-> recs, last |-> Len(recs), prev |-> LastDigest(recs), kept |-> 0,
                 stopped |-> FALSE]
    BY DEF NothingReplayed
  <2>3. start \in Progress
    BY <1>1, <2>1, <2>2 DEF Progress
  <2>4. QED
    BY <1>1, <2>2, <2>3 DEF Sound, Extends, Replayable
<1>4. start.kept = 0 /\ start.stopped = FALSE /\ start.prev = LastDigest(recs)
      /\ Resumed(start) = start
  BY DEF NothingReplayed, Resumed
<1> HIDE DEF start
<1>5. 0 \in Good
  <2>1. Reached(U, recs, j, 0, start)
    BY <1>2, <1>3, <1>4 DEF Reached
  <2>2. QED
    BY <1>2, <2>1
<1>6. ASSUME NEW n \in Nat, n \in Good PROVE n + 1 \in Good
  <2> SUFFICES ASSUME n + 1 <= Len(j) PROVE Reached(U, recs, j, n + 1, after[n + 1])
    OBVIOUS
  <2> DEFINE s == after[n]
             r == j[n + 1]
  <2>1. Reached(U, recs, j, n, s)
    BY <1>1, <1>6
  <2>2. n + 1 \in 1 .. Len(j) /\ (n + 1) - 1 = n
    BY <1>1
  <2>3. r \in U \cup {Torn}
    BY <2>2, EntryOf
  <2>4. after[n + 1] = ReplayOne(s, r, n + 1, Len(recs))
    BY <1>2, <2>2
  <2>5. after[n + 1] = IF Accepts(s, r) THEN Taken(s, r, n + 1) ELSE Stopped(s)
    BY <1>1, <2>1, <2>3, <2>4, OneStep DEF Reached, Replayable
  <2>6. /\ Accepts(s, r) => Sound(U, recs, Taken(s, r, n + 1))
        /\ Sound(U, recs, Stopped(s))
    <3>1. Sound(U, recs, s) /\ Consistent(U) /\ n + 1 \in Nat
      BY <2>1 DEF Reached, Replayable
    <3> HIDE DEF s, r
    <3>2. QED
      BY <1>1, <2>3, <3>1, StepSound
  <2>7. CASE Accepts(s, r)
    <3> DEFINE x == Taken(s, r, n + 1)
    <3>1. x.kept = n + 1 /\ x.stopped = FALSE /\ Resumed(x) = x
      <4> HIDE DEF s, r
      <4>1. QED
        BY DEF Taken, Resumed
    <3>2. j[1] # Torn /\ j[1].prev = LastDigest(recs)
      <4>1. CASE n = 0
        <5>1. s = start /\ r = j[1]
          BY <1>2, <4>1
        <5>2. QED
          BY <1>4, <2>7, <5>1 DEF Accepts
      <4>2. CASE n # 0
        BY <2>1, <2>7, <4>2 DEF Reached, Accepts
      <4>3. QED
        BY <4>1, <4>2
    <3>3. after[n + 1] = x
      BY <2>5, <2>7
    <3>4. Sound(U, recs, x)
      BY <2>6, <2>7
    <3> HIDE DEF x
    <3>5. Reached(U, recs, j, n + 1, x)
      <4>1. ReplaySteps(recs, Len(recs), j)[x.kept] = Resumed(x)
        BY <3>1, <3>3
      <4>2. QED
        BY <3>1, <3>2, <3>4, <4>1 DEF Reached
    <3>6. QED
      BY <3>3, <3>5
  <2>8. CASE ~Accepts(s, r)
    <3> DEFINE x == Stopped(s)
    <3>1. s \in Progress
      BY <2>1 DEF Reached, Sound
    <3>2. x.kept = s.kept /\ x.stopped = TRUE
          /\ Resumed(x) = Resumed(s)
      BY <3>1 DEF Stopped, Progress, Resumed
    <3>3. after[n + 1] = x /\ Sound(U, recs, x)
      BY <2>5, <2>6, <2>8
    <3>4. s.kept \in Nat
      BY <3>1 DEF Progress
    <3> HIDE DEF x
    <3>5. QED
      BY <2>1, <3>2, <3>3, <3>4 DEF Reached
  <2>9. QED
    BY <2>7, <2>8
<1>7. Nat \subseteq Good
  BY <1>5, <1>6, NatSetInduction
<1> HIDE DEF after
<1>8. \A n \in 0 .. Len(j) : Reached(U, recs, j, n, after[n])
  BY <1>1, <1>7
<1>9. QED
  BY <1>8 DEF after

(***************************************************************************)
(* The replay of a whole journal                                           *)
(***************************************************************************)
ReplayOf(recs, j) == ReplaySteps(recs, Len(recs), j)[Len(j)]

LEMMA ReplayedChain ==
    ASSUME NEW U, NEW recs, NEW j, Replayable(U, recs, j)
    PROVE  Reached(U, recs, j, Len(j), ReplayOf(recs, j))
<1>1. Len(j) \in 0 .. Len(j)
  BY DEF Replayable
<1>2. QED
  BY <1>1, ReplayReaches DEF ReplayOf

\* An empty journal adds nothing.
LEMMA ReplayedNothing ==
    ASSUME NEW recs
    PROVE  /\ ReplayOf(recs, << >>) = NothingReplayed(recs, Len(recs))
           /\ ReplayOf(recs, << >>).records = recs /\ ~ReplayOf(recs, << >>).stopped
<1>1. Len(<< >>) = 0
  OBVIOUS
<1>2. ReplayOf(recs, << >>) = NothingReplayed(recs, Len(recs))
  BY <1>1, StepsDefined DEF ReplayOf
<1>3. QED
  BY <1>2 DEF NothingReplayed

\* One record more.
LEMMA ReplayedAppend ==
    ASSUME NEW U, NEW recs, NEW j, Replayable(U, recs, j), NEW r \in U \cup {Torn}
    PROVE  ReplayOf(recs, Append(j, r)) =
             IF Accepts(ReplayOf(recs, j), r) THEN Taken(ReplayOf(recs, j), r, Len(j) + 1)
             ELSE Stopped(ReplayOf(recs, j))
<1> DEFINE a == Append(j, r)
<1>1. r \in Entries /\ j \in Seq(Entries) /\ recs \in Seq(Record) /\ Consistent(U)
  BY DEF Replayable, Entries, Consistent
<1>2. /\ Len(j) \in Nat /\ Len(a) = Len(j) + 1
      /\ a[Len(j) + 1] = r /\ \A i \in 1 .. Len(j) : a[i] = j[i]
  BY <1>1, AppendProperties
<1> HIDE DEF a
<1>3. ReplaySteps(recs, Len(recs), a)[Len(j)] = ReplayOf(recs, j)
  <2>1. Len(j) \in 0 .. Len(j) /\ Len(a) \in Nat /\ Len(j) <= Len(a) /\ \A i \in 1 .. Len(j) : j[i] = a[i]
    BY <1>2
  <2>2. QED
    BY <1>2, <2>1, ReplayPrefix DEF ReplayOf
<1>4. Len(a) \in 1 .. Len(a) /\ Len(a) - 1 = Len(j) /\ a[Len(a)] = r /\ Len(a) \in Nat
  BY <1>2
<1>5. ReplayOf(recs, a) = ReplayOne(ReplayOf(recs, j), r, Len(j) + 1, Len(recs))
  BY <1>2, <1>3, <1>4, StepsDefined DEF ReplayOf
<1>6. Sound(U, recs, ReplayOf(recs, j))
  BY ReplayedChain DEF Reached
<1>7. QED
  BY <1>1, <1>2, <1>5, <1>6, OneStep DEF a

\* The journal cut after its last good record is replayed to the same end.
LEMMA ReplayedCut ==
    ASSUME NEW U, NEW recs, NEW j, Replayable(U, recs, j)
    PROVE  LET s == ReplayOf(recs, j)
           IN  ReplayOf(recs, SubSeq(j, 1, s.kept)) = Resumed(s)
<1> DEFINE s == ReplayOf(recs, j)
           i == SubSeq(j, 1, s.kept)
<1>1. Reached(U, recs, j, Len(j), s)
  BY ReplayedChain
<1>2. s.kept \in Nat /\ Len(j) \in Nat /\ s.kept <= Len(j) /\ j \in Seq(Entries)
  BY <1>1 DEF Reached, Sound, Progress, Replayable
<1>3. ReplaySteps(recs, Len(recs), j)[s.kept] = Resumed(s)
  BY <1>1 DEF Reached
<1> HIDE DEF s
<1>4. Len(i) = s.kept /\ \A n \in 1 .. Len(i) : i[n] = j[n]
  BY <1>2, SubSeqProperties
<1> HIDE DEF i
<1>5. \A n \in 0 .. Len(i) : ReplaySteps(recs, Len(recs), i)[n] = ReplaySteps(recs, Len(recs), j)[n]
  BY <1>2, <1>4, ReplayPrefix
<1>6. ReplaySteps(recs, Len(recs), i)[Len(i)] = ReplaySteps(recs, Len(recs), j)[Len(i)]
  BY <1>2, <1>4, <1>5
<1>7. ReplayOf(recs, i) = Resumed(s)
  BY <1>3, <1>4, <1>6 DEF ReplayOf
<1>8. QED
  BY <1>7 DEF s, i

(***************************************************************************)
(* Chains                                                                  *)
(***************************************************************************)
\* Every record of a chain names the one before it, as the checks of open and
\* of the snapshot see it.
LEMMA ChainLinks ==
    ASSUME NEW recs \in Seq(Record), Chained(recs)
    PROVE  \A i \in DOMAIN recs : /\ recs[i].sequence = i
                                  /\ recs[i].prev = LastDigest(SubSeq(recs, 1, i - 1))
<1> SUFFICES ASSUME NEW i \in DOMAIN recs
             PROVE  recs[i].sequence = i /\ recs[i].prev = LastDigest(SubSeq(recs, 1, i - 1))
  OBVIOUS
<1>1. i \in 1 .. Len(recs) /\ Len(recs) \in Nat
  OBVIOUS
<1> DEFINE c == SubSeq(recs, 1, i - 1)
<1>2. c \in Seq(Record) /\ Len(c) = i - 1 /\ \A k \in 1 .. i - 1 : c[k] = recs[k]
  BY <1>1, SubSeqProperties
<1> HIDE DEF c
<1>3. LastDigest(c) = IF i = 1 THEN ZeroDigest ELSE recs[i - 1].id
  <2>1. CASE i = 1
    BY <1>2, <2>1, EmptySeq DEF LastDigest
  <2>2. CASE i # 1
    <3>1. c # << >> /\ Len(c) = i - 1 /\ i - 1 \in 1 .. i - 1
      BY <1>1, <1>2, <2>2, EmptySeq
    <3>2. QED
      BY <1>2, <2>2, <3>1 DEF LastDigest
  <2>3. QED
    BY <2>1, <2>2
<1>4. QED
  BY <1>1, <1>3 DEF Chained, c

\* A chain is determined by its last digest.
LEMMA ChainDetermined ==
    ASSUME NEW U, Consistent(U),
           NEW a \in Seq(Record), Chained(a), RecordsOf(a) \subseteq U,
           NEW b \in Seq(Record), Chained(b), RecordsOf(b) \subseteq U,
           LastDigest(a) = LastDigest(b)
    PROVE  a = b
<1>1. CASE a = << >>
  BY <1>1, LastDigestOf
<1>2. CASE a # << >>
  <2>1. b # << >>
    BY <1>2, LastDigestOf
  <2> DEFINE n == Len(a)
  <2>2. /\ n \in 1 .. n /\ a[n] \in Record /\ Len(b) \in 1 .. Len(b) /\ b[Len(b)] \in Record
        /\ a[n].id = b[Len(b)].id
    BY <1>2, <2>1, LastDigestOf
  <2>3. ASSUME NEW i \in 1 .. n, NEW k \in 1 .. Len(b), a[i].id = b[k].id
        PROVE  a[i] = b[k]
    <3>1. a[i] \in U /\ b[k] \in U
      BY DEF RecordsOf
    <3>2. QED
      BY <2>3, <3>1 DEF Consistent
  <2>4. a[n] = b[Len(b)] /\ a[n].sequence = n /\ b[Len(b)].sequence = Len(b)
    BY <2>2, <2>3 DEF Chained
  <2>5. Len(b) = n /\ n \in Nat
    BY <2>4
  <2> DEFINE Good == {k \in Nat : k < n => a[n - k] = b[n - k]}
  <2>6. 0 \in Good
    BY <2>4, <2>5
  <2>7. ASSUME NEW k \in Nat, k \in Good PROVE k + 1 \in Good
    <3> SUFFICES ASSUME k + 1 < n PROVE a[n - (k + 1)] = b[n - (k + 1)]
      OBVIOUS
    <3> DEFINE i == n - k
    <3>1. i \in 1 .. n /\ i # 1 /\ i - 1 \in 1 .. n /\ n - (k + 1) = i - 1 /\ a[i] = b[i]
      BY <2>5, <2>7
    <3>2. a[i].prev = a[i - 1].id /\ b[i].prev = b[i - 1].id
      BY <2>5, <3>1 DEF Chained
    <3>3. QED
      BY <2>3, <2>5, <3>1, <3>2
  <2>8. Nat \subseteq Good
    BY <2>6, <2>7, NatSetInduction
  <2>9. ASSUME NEW i \in 1 .. n PROVE a[i] = b[i]
    <3>1. n - i \in Nat /\ n - i < n /\ n - (n - i) = i
      BY <2>5
    <3>2. n - i \in Good
      BY <2>8, <3>1
    <3>3. QED
      BY <3>1, <3>2
  <2>10. QED
    BY <2>5, <2>9, SeqEqual
<1>3. QED
  BY <1>1, <1>2

(***************************************************************************)
(* The records on disk and in memory                                       *)
(***************************************************************************)
LEMMA ConsistentSubset ==
    ASSUME NEW U, Consistent(U), NEW V, V \subseteq U PROVE Consistent(V)
<1>1. QED
  BY DEF Consistent

LEMMA RecordsOfAppend ==
    ASSUME NEW j \in Seq(Entries), NEW r \in Entries
    PROVE  /\ Append(j, r) \in Seq(Entries) /\ Append(j, r) # << >>
           /\ Len(Append(j, r)) = Len(j) + 1
           /\ Append(j, r)[1] = IF j = << >> THEN r ELSE j[1]
           /\ RecordsOf(Append(j, r)) \subseteq RecordsOf(j) \cup {r}
           /\ r = Torn => RecordsOf(Append(j, r)) \subseteq RecordsOf(j)
<1> DEFINE a == Append(j, r)
           n == Len(j)
<1>1. /\ a \in Seq(Entries) /\ a # << >> /\ Len(a) = n + 1 /\ n \in Nat
      /\ a[n + 1] = r /\ \A i \in 1 .. n : a[i] = j[i]
  BY AppendProperties
<1> HIDE DEF a
<1>2. j = << >> <=> n = 0
  BY EmptySeq
<1>3. RecordsOf(a) \subseteq RecordsOf(j) \cup {r}
  <2> SUFFICES ASSUME NEW i \in 1 .. Len(a), a[i] \in Record
               PROVE  a[i] \in RecordsOf(j) \cup {r}
    BY DEF RecordsOf
  <2>1. CASE i \in 1 .. n
    BY <1>1, <2>1 DEF RecordsOf
  <2>2. QED
    BY <1>1, <2>1
<1>4. r = Torn => RecordsOf(a) \subseteq RecordsOf(j)
  BY <1>3, BytesAssumption DEF RecordsOf
<1>5. a[1] = IF j = << >> THEN r ELSE j[1]
  BY <1>1, <1>2
<1>6. QED
  BY <1>1, <1>3, <1>4, <1>5 DEF a

LEMMA RecordsOfCut ==
    ASSUME NEW j \in Seq(Entries), NEW k \in Nat, k <= Len(j)
    PROVE  /\ SubSeq(j, 1, k) \in Seq(Entries) /\ Len(SubSeq(j, 1, k)) = k
           /\ k # 0 => SubSeq(j, 1, k)[1] = j[1]
           /\ SubSeq(j, 1, k) = << >> <=> k = 0
           /\ RecordsOf(SubSeq(j, 1, k)) \subseteq RecordsOf(j)
<1> DEFINE c == SubSeq(j, 1, k)
<1>1. c \in Seq(Entries) /\ Len(c) = k /\ \A i \in 1 .. k : c[i] = j[i]
  BY SubSeqProperties
<1> HIDE DEF c
<1>2. c = << >> <=> k = 0
  BY <1>1, EmptySeq
<1>3. RecordsOf(c) \subseteq RecordsOf(j)
  BY <1>1 DEF RecordsOf
<1>4. QED
  BY <1>1, <1>2, <1>3 DEF c

LEMMA SnapshotView ==
    ASSUME TypeOK
    PROVE  SnapshotRecords \in Seq(Record) /\ SnapshotSequence \in Nat
<1>1. CASE snapshot = NoFile
  BY <1>1 DEF SnapshotRecords, SnapshotSequence
<1>2. CASE snapshot # NoFile
  BY <1>2 DEF TypeOK, SnapshotFile, SnapshotRecords, SnapshotSequence
<1>3. QED
  BY <1>1, <1>2

LEMMA InvReplayable ==
    ASSUME Inv
    PROVE  /\ Replayable(Written, SnapshotRecords, journal)
           /\ Replay = ReplayOf(SnapshotRecords, journal)
           /\ SnapshotChained
<1>1. SnapshotRecords \in Seq(Record) /\ journal \in Seq(Entries)
  BY SnapshotView DEF Inv, TypeOK
<1>2. Replayable(Written, SnapshotRecords, journal)
  BY <1>1 DEF Replayable, Inv, WrittenOK, ChainsOK, Written
<1>3. Replay = ReplayOf(SnapshotRecords, journal)
  BY DEF Replay, ReplayOf, Inv, ChainsOK
<1>4. SnapshotChained
  BY <1>1, ChainLinks DEF SnapshotChained, Inv, ChainsOK
<1>5. QED
  BY <1>2, <1>3, <1>4

(***************************************************************************)
(* The invariant is inductive                                              *)
(***************************************************************************)
\* A fence beyond its bound is written and refused at once, the chain goes on
\* from it, and the next snapshot is refused (the run of MCRepository_refused
\* shows it).  The results are about the behaviours that do not come to that:
\* there is room for a fence whenever there is room for a record.
FenceRoom == "fence" \in Kinds /\ Len(records) < MaxRecords => Fences(records) < MaxFences

\* The record an append writes belongs with those written before it.
LEMMA NewRecordBelongs ==
    ASSUME Inv, Appendable, NEW kind \in Kinds
    PROVE  LET r == NewRecord(kind)
           IN  /\ r \in Record /\ r # Torn
               /\ r.prev = LastDigest(records) /\ r.sequence = Len(records) + 1 /\ r.id = next_id
               /\ Consistent(Written \cup {r})
               /\ \A x \in Written \cup {r} : x.id < next_id + 1 /\ x.prev < x.id
<1> DEFINE r == NewRecord(kind)
<1>1. /\ records \in Seq(Record) /\ Len(records) \in Nat /\ next_id \in Nat \ {0}
      /\ Consistent(Written) /\ \A x \in Written : x.id < next_id /\ x.prev < x.id
  BY RepositoryAssumption DEF Inv, TypeOK, WrittenOK
<1>2. last_sequence = Len(records) /\ last_record_digest = LastDigest(records)
  BY DEF Inv, ChainsOK
<1>3. LastDigest(records) \in Nat
  BY <1>1, LastDigestOf
<1>4. r = [kind |-> kind, sequence |-> Len(records) + 1, prev |-> LastDigest(records), id |-> next_id]
  BY <1>2 DEF NewRecord
<1>5. /\ r \in Record /\ r.prev = LastDigest(records) /\ r.sequence = Len(records) + 1
      /\ r.id = next_id
  BY <1>1, <1>3, <1>4 DEF Record
<1> HIDE DEF r
<1>6. r # Torn
  BY <1>5, BytesAssumption
<1>7. records # << >> => \E x \in Written : x.id = r.prev /\ x.sequence = Len(records)
  <2> SUFFICES ASSUME records # << >>
               PROVE  \E x \in Written : x.id = r.prev /\ x.sequence = Len(records)
    OBVIOUS
  <2> DEFINE x == records[Len(records)]
  <2>1. Len(records) \in 1 .. Len(records) /\ x \in Record /\ r.prev = x.id
    BY <1>1, <1>5, LastDigestOf
  <2>2. x \in Written
    BY <2>1 DEF Written, RecordsOf
  <2>3. x.sequence = Len(records)
    BY <2>1 DEF Inv, ChainsOK, Chained
  <2>4. QED
    BY <2>1, <2>2, <2>3
<1>8. records = << >> => r.prev = ZeroDigest /\ r.sequence = 1
  BY <1>5 DEF LastDigest
<1>9. r.prev < next_id
  <2>1. CASE records = << >>
    BY <1>1, <1>8, <2>1 DEF ZeroDigest
  <2>2. CASE records # << >>
    BY <1>1, <1>7, <2>2
  <2>3. QED
    BY <2>1, <2>2
<1>10. \A x \in Written : /\ x \in Record /\ x.id \in Nat \ {0} /\ x.prev \in Nat /\ x.sequence \in Nat
                          /\ x.id < next_id /\ x.prev < x.id
  BY <1>1 DEF Consistent, Record
<1>11. Consistent(Written \cup {r})
  <2>1. Written \cup {r} \subseteq Record
    BY <1>5, <1>10
  <2>2. \A y, x \in Written \cup {r} : y.id = x.id => y = x
    BY <1>1, <1>5, <1>10 DEF Consistent
  <2>3. ASSUME NEW y \in Written \cup {r}, NEW x \in Written \cup {r}, y.prev = x.id
        PROVE  y.sequence = x.sequence + 1
    <3>1. CASE y \in Written
      <4>1. y.prev < next_id
        BY <1>1, <1>10, <3>1
      <4>2. x \in Written
        BY <1>1, <1>5, <2>3, <4>1
      <4>3. QED
        BY <1>1, <2>3, <3>1, <4>2 DEF Consistent
    <3>2. CASE y = r
      <4>1. x \in Written
        BY <1>1, <1>5, <1>9, <2>3, <3>2
      <4>2. records # << >>
        BY <1>8, <1>10, <2>3, <3>2, <4>1 DEF ZeroDigest
      <4>3. PICK z \in Written : z.id = r.prev /\ z.sequence = Len(records)
        BY <1>7, <4>2
      <4>4. x = z
        BY <1>1, <2>3, <3>2, <4>1, <4>3 DEF Consistent
      <4>5. QED
        BY <1>5, <3>2, <4>3, <4>4
    <3>3. QED
      BY <3>1, <3>2
  <2>4. \A y \in Written \cup {r} : y.prev = ZeroDigest => y.sequence = 1
    <3>1. r.prev = ZeroDigest => r.sequence = 1
      BY <1>1, <1>5, <1>8, LastDigestOf
    <3>2. QED
      BY <1>1, <3>1 DEF Consistent
  <2>5. QED
    BY <2>1, <2>2, <2>3, <2>4 DEF Consistent
<1>12. \A x \in Written \cup {r} : x.id < next_id + 1 /\ x.prev < x.id
  BY <1>1, <1>5, <1>9, <1>10
<1>13. QED
  BY <1>5, <1>6, <1>11, <1>12 DEF r

\* A step that writes no new record keeps them consistent.
LEMMA WrittenShrinks ==
    ASSUME WrittenOK, Written' \subseteq Written, next_id \in Nat, next_id' \in {next_id, next_id + 1}
    PROVE  WrittenOK'
<1>1. Consistent(Written')
  BY ConsistentSubset DEF WrittenOK
<1>2. \A r \in Written' : r.id < next_id' /\ r.prev < r.id
  <2>1. \A r \in Written : r.id \in Nat
    BY DEF WrittenOK, Consistent, Record
  <2>2. QED
    BY <2>1 DEF WrittenOK
<1>3. Consistent(Written)'
  BY <1>1 DEF Consistent
<1>4. QED
  BY <1>2, <1>3 DEF WrittenOK

\* A step that writes the new record, too.
LEMMA WrittenGrows ==
    ASSUME Inv, Appendable, NEW kind \in Kinds, Written' \subseteq Written \cup {NewRecord(kind)},
           next_id' = next_id + 1
    PROVE  WrittenOK'
<1>1. /\ Consistent(Written \cup {NewRecord(kind)})
      /\ \A x \in Written \cup {NewRecord(kind)} : x.id < next_id + 1 /\ x.prev < x.id
  BY NewRecordBelongs
<1>2. Consistent(Written')
  BY <1>1, ConsistentSubset
<1>3. Consistent(Written)'
  BY <1>2 DEF Consistent
<1>4. QED
  BY <1>1, <1>3 DEF WrittenOK

LEMMA InitInv == Init => Inv
<1> SUFFICES ASSUME Init PROVE Inv
  OBVIOUS
<1>1. SnapshotRecords = << >> /\ SnapshotSequence = 0
  BY DEF Init, SnapshotRecords, SnapshotSequence
<1>2. RecordsOf(<< >>) = {} /\ << >> \in Seq(Record) /\ << >> \in Seq(Entries) /\ Len(<< >>) = 0
  BY DEF RecordsOf
<1>3. Written = {}
  BY <1>1, <1>2 DEF Init, Written
<1>4. TypeOK
  <2>1. 1 \in 1 .. MaxAppends + 1
    BY RepositoryAssumption
  <2>2. QED
    BY <1>2, <2>1 DEF Init, TypeOK, Pcs, ZeroDigest
<1>5. WrittenOK
  BY <1>3 DEF WrittenOK, Consistent
<1>6. ChainsOK
  BY <1>1, <1>2 DEF Init, ChainsOK, Chained, LastDigest
<1>7. QED
  BY <1>4, <1>5, <1>6 DEF Init, Inv, Covered, Covering, Follows, Appending, PcsOK

\* What a step leaves alone.
LEMMA SameSnapshot ==
    ASSUME UNCHANGED snapshot
    PROVE  SnapshotRecords' = SnapshotRecords /\ SnapshotSequence' = SnapshotSequence
<1>1. QED
  BY DEF SnapshotRecords, SnapshotSequence

LEMMA OpenInv == ASSUME Inv, Open PROVE Inv'
<1> DEFINE P == ReplayOf(SnapshotRecords, journal)
           S == SnapshotRecords
<1>1. Replayable(Written, S, journal) /\ Replay = P /\ SnapshotChained
  BY InvReplayable
<1>2. /\ pc = "down" /\ pc' = "idle" /\ journal' = SubSeq(journal, 1, P.kept)
      /\ records' = P.records /\ last_sequence' = P.last /\ last_record_digest' = LastDigest(P.records)
      /\ records_since_compaction' = Len(P.records) /\ handle' = TRUE
      /\ UNCHANGED <<snapshot, appending, next_id, faults, acked>>
  BY <1>1 DEF Open
<1>3. SnapshotRecords' = S /\ SnapshotSequence' = SnapshotSequence
  BY <1>2, SameSnapshot
<1>4. Reached(Written, S, journal, Len(journal), P)
  BY <1>1, ReplayedChain
<1>5. ReplayOf(S, SubSeq(journal, 1, P.kept)) = Resumed(P)
  BY <1>1, ReplayedCut
<1>6. /\ P.kept \in Nat /\ P.kept <= Len(journal) /\ P.records \in Seq(Record) /\ P.last = Len(P.records)
      /\ Chained(P.records) /\ RecordsOf(P.records) \subseteq Written /\ Extends(P.records, S)
      /\ (P.kept # 0 => journal[1] # Torn /\ journal[1].prev = LastDigest(S))
  BY <1>4 DEF Reached, Sound, Progress
<1> HIDE DEF P
<1>7. journal \in Seq(Entries)
  BY DEF Inv, TypeOK
<1>8. /\ journal' \in Seq(Entries) /\ RecordsOf(journal') \subseteq RecordsOf(journal)
      /\ journal' = << >> <=> P.kept = 0
      /\ P.kept # 0 => journal'[1] = journal[1]
  BY <1>2, <1>6, <1>7, RecordsOfCut
<1>9. Written' \subseteq Written
  BY <1>2, <1>3, <1>6, <1>8 DEF Written
<1>10. next_id \in Nat
  BY RepositoryAssumption DEF Inv, TypeOK
<1>11. WrittenOK'
  BY <1>2, <1>9, <1>10, WrittenShrinks DEF Inv
<1>12. TypeOK'
  <2>1. Len(P.records) \in Nat
    BY <1>6
  <2>2. QED
    BY <1>2, <1>6, <1>8, <2>1 DEF Inv, TypeOK, Pcs
<1>13. ChainsOK'
  BY <1>2, <1>3, <1>6 DEF Inv, ChainsOK
<1>14. journal' = << >> => P.records = S
  <2>1. journal' = << >> => Resumed(P).records = S
    BY <1>2, <1>5, ReplayedNothing
  <2>2. QED
    BY <2>1 DEF Resumed
<1>15. Follows'
  BY <1>2, <1>3, <1>6, <1>8, <1>14 DEF Follows
<1>16. Covered'
  BY <1>2 DEF Covered, Covering
<1>17. PcsOK'
  <2>1. appending = ZeroDigest
    BY <1>2 DEF Inv, PcsOK
  <2>2. QED
    BY <1>2, <2>1 DEF PcsOK
<1>18. QED
  BY <1>11, <1>12, <1>13, <1>15, <1>16, <1>17 DEF Inv

\* The process is gone: only the files count.
LEMMA GoneInv ==
    ASSUME Inv, Gone, UNCHANGED snapshot, WrittenOK', journal' \in Seq(Entries),
           next_id' \in 1 .. MaxAppends + 1, UNCHANGED <<faults, acked>>
    PROVE  Inv'
<1>1. SnapshotRecords' = SnapshotRecords /\ SnapshotSequence' = SnapshotSequence
  BY SameSnapshot
<1>2. << >> \in Seq(Record) /\ Len(<< >>) = 0 /\ Chained(<< >>) /\ LastDigest(<< >>) = ZeroDigest
  BY DEF Chained, LastDigest
<1>3. TypeOK'
  BY <1>2 DEF Inv, TypeOK, Gone, Pcs, ZeroDigest
<1>4. ChainsOK'
  BY <1>1, <1>2 DEF Inv, ChainsOK, Gone
<1>5. QED
  BY <1>3, <1>4 DEF Inv, Gone, Covered, Covering, Follows, Appending, PcsOK

LEMMA CrashInv == ASSUME Inv, Crash PROVE Inv'
<1>1. Gone /\ UNCHANGED <<snapshot, journal, next_id, faults, acked>>
  BY DEF Crash
<1>2. Written' \subseteq Written
  <2>1. SnapshotRecords' = SnapshotRecords /\ records' = << >>
    BY <1>1, SameSnapshot DEF Gone
  <2>2. RecordsOf(<< >>) = {}
    BY DEF RecordsOf
  <2>3. QED
    BY <1>1, <2>1, <2>2 DEF Written
<1>3. next_id \in Nat
  BY RepositoryAssumption DEF Inv, TypeOK
<1>4. WrittenOK'
  BY <1>1, <1>2, <1>3, WrittenShrinks DEF Inv
<1>5. journal' \in Seq(Entries) /\ next_id' \in 1 .. MaxAppends + 1
  BY <1>1 DEF Inv, TypeOK
<1>6. QED
  BY <1>1, <1>4, <1>5, GoneInv

\* What an append may leave in the journal.
LEMMA JournalGrows ==
    ASSUME Inv, Appendable, NEW kind \in Kinds,
           journal' \in {journal, Append(journal, Torn), Append(journal, NewRecord(kind))},
           UNCHANGED snapshot
    PROVE  /\ journal' \in Seq(Entries)
           /\ RecordsOf(journal') \subseteq RecordsOf(journal) \cup {NewRecord(kind)}
           /\ \/ journal' = << >> /\ journal = << >>
              \/ /\ journal' # << >>
                 /\ \/ journal'[1] = Torn
                    \/ journal'[1] # Torn /\ journal'[1].prev = LastDigest(SnapshotRecords)
           /\ next_id + 1 \in 1 .. MaxAppends + 1
<1> DEFINE r == NewRecord(kind)
<1>1. r \in Record /\ r # Torn /\ r.prev = LastDigest(records)
  BY NewRecordBelongs
<1> HIDE DEF r
<1>2. journal \in Seq(Entries) /\ r \in Entries /\ Torn \in Entries
  BY <1>1 DEF Inv, TypeOK, Entries
<1>3. /\ journal = << >> => records = SnapshotRecords
      /\ journal # << >> => \/ journal[1] = Torn
                            \/ journal[1] # Torn /\ journal[1].prev = LastDigest(SnapshotRecords)
  BY DEF Inv, Follows, Appending, Appendable
<1>4. next_id + 1 \in 1 .. MaxAppends + 1
  BY RepositoryAssumption DEF Inv, TypeOK, Appendable
<1>5. CASE journal' = journal
  BY <1>2, <1>3, <1>4, <1>5
<1>6. CASE journal' = Append(journal, Torn)
  BY <1>2, <1>3, <1>4, <1>6, RecordsOfAppend
<1>7. CASE journal' = Append(journal, r)
  <2>1. journal = << >> => r.prev = LastDigest(SnapshotRecords)
    BY <1>1, <1>3
  <2>2. QED
    BY <1>1, <1>2, <1>3, <1>4, <1>7, <2>1, RecordsOfAppend DEF r
<1>8. QED
  BY <1>5, <1>6, <1>7 DEF r

LEMMA AppendFailsInv == ASSUME Inv, NEW kind \in Kinds, AppendFails(kind) PROVE Inv'
<1>1. /\ Appendable /\ UNCHANGED <<snapshot, pc, memory, handle, appending, acked>>
      /\ next_id' = next_id + 1 /\ faults' = faults + 1
      /\ journal' \in {journal, Append(journal, Torn), Append(journal, NewRecord(kind))}
  BY DEF AppendFails, Fault
<1>2. SnapshotRecords' = SnapshotRecords /\ SnapshotSequence' = SnapshotSequence
  BY <1>1, SameSnapshot
<1>3. UNCHANGED <<records, last_sequence, last_record_digest, records_since_compaction>>
  BY <1>1 DEF memory
<1>4. /\ journal' \in Seq(Entries)
      /\ RecordsOf(journal') \subseteq RecordsOf(journal) \cup {NewRecord(kind)}
      /\ \/ journal' = << >> /\ journal = << >>
         \/ /\ journal' # << >>
            /\ \/ journal'[1] = Torn
               \/ journal'[1] # Torn /\ journal'[1].prev = LastDigest(SnapshotRecords)
      /\ next_id + 1 \in 1 .. MaxAppends + 1
  BY <1>1, JournalGrows
<1>5. Written' \subseteq Written \cup {NewRecord(kind)}
  BY <1>2, <1>3, <1>4 DEF Written
<1>6. WrittenOK'
  BY <1>1, <1>5, WrittenGrows
<1>7. TypeOK'
  BY <1>1, <1>3, <1>4 DEF Inv, TypeOK
<1>8. ChainsOK'
  BY <1>2, <1>3 DEF Inv, ChainsOK
<1>9. Follows'
  BY <1>1, <1>2, <1>3, <1>4 DEF Inv, Follows, Appending
<1>10. Covered' /\ PcsOK'
  BY <1>1, <1>2, <1>3 DEF Inv, Covered, Covering, PcsOK, Appendable
<1>11. QED
  BY <1>6, <1>7, <1>8, <1>9, <1>10 DEF Inv

LEMMA AppendCrashesInv == ASSUME Inv, NEW kind \in Kinds, AppendCrashes(kind) PROVE Inv'
<1>1. /\ Appendable /\ Gone /\ UNCHANGED <<snapshot, faults, acked>> /\ next_id' = next_id + 1
      /\ journal' \in {journal, Append(journal, Torn), Append(journal, NewRecord(kind))}
  BY DEF AppendCrashes
<1>2. /\ journal' \in Seq(Entries)
      /\ RecordsOf(journal') \subseteq RecordsOf(journal) \cup {NewRecord(kind)}
      /\ next_id + 1 \in 1 .. MaxAppends + 1
  BY <1>1, JournalGrows
<1>3. SnapshotRecords' = SnapshotRecords /\ records' = << >>
  BY <1>1, SameSnapshot DEF Gone
<1>4. RecordsOf(<< >>) = {}
  BY DEF RecordsOf
<1>5. Written' \subseteq Written \cup {NewRecord(kind)}
  BY <1>2, <1>3, <1>4 DEF Written
<1>6. WrittenOK'
  BY <1>1, <1>5, WrittenGrows
<1>7. QED
  BY <1>1, <1>2, <1>6, GoneInv

\* An append that succeeds, with or without a compaction to follow.
LEMMA AppendRecordEffect ==
    ASSUME Inv, FenceRoom, NEW kind \in Kinds, AppendRecord(kind)
    PROVE  /\ Appendable /\ UNCHANGED <<snapshot, handle, faults>>
           /\ journal' = Append(journal, NewRecord(kind))
           /\ records' = Append(records, NewRecord(kind))
           /\ last_sequence' = last_sequence + 1 /\ last_record_digest' = next_id
           /\ records_since_compaction' = records_since_compaction + 1
           /\ next_id' = next_id + 1
           /\ pc' \in {"idle", "snapshot"}
           /\ appending' \in {next_id, ZeroDigest}
           /\ acked' \in {acked, acked \cup {next_id}}
<1>1. Len(records) < MaxRecords
  BY DEF AppendRecord, Appendable
<1>2. Fences(records) \in Nat
  <2>1. DOMAIN records = 1 .. Len(records) /\ Len(records) \in Nat
    BY DEF Inv, TypeOK
  <2>2. IsFiniteSet(DOMAIN records)
    BY <2>1, FS_Interval
  <2>3. IsFiniteSet({i \in DOMAIN records : records[i].kind = "fence"})
    BY <2>2, FS_Subset
  <2>4. QED
    BY <2>3, FS_CardinalityType DEF Fences
<1>3. ~(kind = "fence" /\ Fences(records) >= MaxFences)
  BY <1>1, <1>2, RepositoryAssumption DEF FenceRoom
<1>4. QED
  BY <1>3 DEF AppendRecord

LEMMA AppendRecordInv == ASSUME Inv, FenceRoom, NEW kind \in Kinds, AppendRecord(kind) PROVE Inv'
<1> DEFINE r == NewRecord(kind)
<1>1. /\ Appendable /\ UNCHANGED <<snapshot, handle, faults>>
      /\ journal' = Append(journal, r) /\ records' = Append(records, r)
      /\ last_sequence' = last_sequence + 1 /\ last_record_digest' = next_id
      /\ records_since_compaction' = records_since_compaction + 1 /\ next_id' = next_id + 1
      /\ pc' \in {"idle", "snapshot"} /\ appending' \in {next_id, ZeroDigest}
      /\ acked' \in {acked, acked \cup {next_id}}
  BY AppendRecordEffect
<1>2. /\ r \in Record /\ r # Torn /\ r.prev = LastDigest(records) /\ r.sequence = Len(records) + 1
      /\ r.id = next_id
  BY <1>1, NewRecordBelongs
<1>3. SnapshotRecords' = SnapshotRecords /\ SnapshotSequence' = SnapshotSequence
  BY <1>1, SameSnapshot
<1>4. /\ journal' \in Seq(Entries)
      /\ RecordsOf(journal') \subseteq RecordsOf(journal) \cup {r}
      /\ \/ journal' = << >> /\ journal = << >>
         \/ /\ journal' # << >>
            /\ \/ journal'[1] = Torn
               \/ journal'[1] # Torn /\ journal'[1].prev = LastDigest(SnapshotRecords)
      /\ next_id + 1 \in 1 .. MaxAppends + 1
  BY <1>1, JournalGrows
<1>5. records \in Seq(Record) /\ Chained(records) /\ Len(records) \in Nat /\ journal \in Seq(Entries)
  BY DEF Inv, TypeOK, ChainsOK
<1>6. /\ records' \in Seq(Record) /\ Len(records') = Len(records) + 1
      /\ Chained(records') /\ LastDigest(records') = next_id
      /\ Extends(records', records)
      /\ RecordsOf(records') \subseteq RecordsOf(records) \cup {r}
  BY <1>1, <1>2, <1>5, ChainGrows
<1>7. records'[Len(records')].id = next_id /\ Len(records') \in 1 .. Len(records')
  <2>1. records'[Len(records')] = r
    BY <1>1, <1>2, <1>5, AppendProperties
  <2>2. QED
    BY <1>2, <1>5, <1>6, <2>1
<1>8. Written' \subseteq Written \cup {r}
  BY <1>3, <1>4, <1>6 DEF Written
<1>9. WrittenOK'
  BY <1>1, <1>8, WrittenGrows
<1> HIDE DEF r
<1>10. TypeOK'
  <2>1. next_id \in Nat
    BY RepositoryAssumption DEF Inv, TypeOK
  <2>2. QED
    BY <1>1, <1>4, <1>6, <2>1 DEF Inv, TypeOK, Pcs, ZeroDigest
<1>11. ChainsOK'
  BY <1>1, <1>3, <1>6 DEF Inv, ChainsOK
<1>12. Follows'
  <2>1. Extends(records, SnapshotRecords)
    BY <1>1 DEF Inv, Follows, Appending, Appendable
  <2>2. Len(SnapshotRecords) \in Nat
    BY SnapshotView DEF Inv
  <2>3. Extends(records', SnapshotRecords)
    BY <1>5, <1>6, <2>1, <2>2 DEF Extends
  <2>4. journal' # << >>
    BY <1>1, <1>2, <1>5, RecordsOfAppend DEF Entries
  <2>5. QED
    BY <1>3, <1>4, <2>3, <2>4 DEF Follows
<1>13. Covered' /\ PcsOK'
  BY <1>1, <1>7 DEF Covered, Covering, PcsOK, Appendable
<1>14. QED
  BY <1>9, <1>10, <1>11, <1>12, <1>13 DEF Inv

\* The steps of a compaction that change no file.
LEMMA SameFilesInv ==
    ASSUME Inv, UNCHANGED <<snapshot, journal, records, last_sequence, last_record_digest, next_id>>,
           TypeOK', Covered', Follows', PcsOK'
    PROVE  Inv'
<1>1. SnapshotRecords' = SnapshotRecords /\ SnapshotSequence' = SnapshotSequence
  BY SameSnapshot
<1>2. Written' \subseteq Written
  BY <1>1 DEF Written
<1>3. next_id \in Nat
  BY RepositoryAssumption DEF Inv, TypeOK
<1>4. WrittenOK'
  BY <1>2, <1>3, WrittenShrinks DEF Inv
<1>5. ChainsOK'
  BY <1>1 DEF Inv, ChainsOK
<1>6. QED
  BY <1>4, <1>5 DEF Inv

LEMMA CompactInv == ASSUME Inv, Compact PROVE Inv'
<1>1. /\ pc = "idle" /\ pc' = "snapshot"
      /\ UNCHANGED <<snapshot, journal, records, last_sequence, last_record_digest,
                     records_since_compaction, handle, appending, next_id, faults, acked>>
  BY DEF Compact, memory
<1>2. SnapshotRecords' = SnapshotRecords
  BY <1>1, SameSnapshot
<1>3. TypeOK'
  BY <1>1 DEF Inv, TypeOK, Pcs
<1>4. Covered' /\ Follows' /\ PcsOK'
  BY <1>1, <1>2 DEF Inv, Covered, Covering, Follows, Appending, PcsOK
<1>5. QED
  BY <1>1, <1>3, <1>4, SameFilesInv

\* A compaction that is given up leaves the journal closed once the snapshot
\* has been replaced, and open before.
LEMMA GiveUpInv ==
    ASSUME Inv, GiveUp, UNCHANGED journal, pc \in {"snapshot", "journal", "reopen"},
           handle' = handle \/ handle' = FALSE,
           pc = "journal" => handle' = FALSE,
           pc = "snapshot" => UNCHANGED handle
    PROVE  Inv'
<1>1. /\ pc' = "idle" /\ appending' = ZeroDigest /\ faults' = faults + 1
      /\ UNCHANGED <<snapshot, records, last_sequence, last_record_digest,
                     records_since_compaction, next_id, acked>>
  BY DEF GiveUp, Fault, memory
<1>2. SnapshotRecords' = SnapshotRecords
  BY <1>1, SameSnapshot
<1>3. TypeOK'
  <2>1. handle' \in BOOLEAN
    BY Zenon DEF Inv, TypeOK
  <2>2. QED
    BY <1>1, <2>1 DEF Inv, TypeOK, Pcs, ZeroDigest
<1>4. Covered' /\ Follows' /\ PcsOK'
  BY <1>1, <1>2 DEF Inv, TypeOK, Covered, Covering, Follows, Appending, PcsOK
<1>5. QED
  BY <1>1, <1>3, <1>4, SameFilesInv

LEMMA ReplaceSnapshotInv == ASSUME Inv, ReplaceSnapshot PROVE Inv'
<1>1. CASE GiveUp /\ UNCHANGED <<journal, handle>>
  BY <1>1, GiveUpInv DEF ReplaceSnapshot
<1>2. CASE /\ snapshot' = [sequence |-> last_sequence, records |-> records]
           /\ pc' = "journal"
           /\ UNCHANGED <<journal, memory, handle, appending, next_id, faults, acked>>
  <2>1. /\ pc = "snapshot" /\ pc' = "journal"
        /\ UNCHANGED <<journal, records, last_sequence, last_record_digest,
                       records_since_compaction, handle, appending, next_id, faults, acked>>
    BY <1>2 DEF ReplaceSnapshot, memory
  <2>2. records \in Seq(Record) /\ last_sequence = Len(records) /\ Len(records) \in Nat
    BY DEF Inv, TypeOK, ChainsOK
  <2>3. snapshot' \in SnapshotFile /\ snapshot'.records = records /\ snapshot'.sequence = last_sequence
    BY <1>2, <2>2 DEF SnapshotFile
  <2>4. snapshot' # NoFile
    BY <2>3, BytesAssumption
  <2>5. SnapshotRecords' = records /\ SnapshotSequence' = Len(records)
    BY <2>2, <2>3, <2>4 DEF SnapshotRecords, SnapshotSequence
  <2>6. Written' \subseteq Written
    BY <2>1, <2>5 DEF Written
  <2>7. next_id \in Nat
    BY RepositoryAssumption DEF Inv, TypeOK
  <2>8. WrittenOK'
    BY <2>1, <2>6, <2>7, WrittenShrinks DEF Inv
  <2>9. TypeOK'
    BY <2>1, <2>3 DEF Inv, TypeOK, Pcs
  <2>10. ChainsOK'
    BY <2>1, <2>5 DEF Inv, ChainsOK
  <2>11. Covered' /\ Follows' /\ PcsOK'
    BY <2>1, <2>4, <2>5 DEF Inv, Covered, Covering, Follows, Appending, PcsOK
  <2>12. QED
    BY <2>8, <2>9, <2>10, <2>11 DEF Inv
<1>3. QED
  BY <1>1, <1>2 DEF ReplaceSnapshot

LEMMA ResetJournalInv == ASSUME Inv, ResetJournal PROVE Inv'
<1>1. CASE GiveUp /\ UNCHANGED journal
  BY <1>1, GiveUpInv DEF ResetJournal
<1>2. CASE /\ journal' = << >> /\ pc' = "reopen"
           /\ UNCHANGED <<snapshot, memory, appending, next_id, faults, acked>>
  <2>1. /\ pc = "journal" /\ handle' = FALSE
        /\ UNCHANGED <<snapshot, records, last_sequence, last_record_digest,
                       records_since_compaction, appending, next_id, faults, acked>>
    BY <1>2 DEF ResetJournal, memory
  <2>2. SnapshotRecords' = SnapshotRecords /\ SnapshotSequence' = SnapshotSequence
    BY <2>1, SameSnapshot
  <2>3. journal' \in Seq(Entries) /\ RecordsOf(journal') = {}
    BY <1>2 DEF RecordsOf
  <2>4. Written' \subseteq Written
    BY <2>1, <2>2, <2>3 DEF Written
  <2>5. next_id \in Nat
    BY RepositoryAssumption DEF Inv, TypeOK
  <2>6. WrittenOK'
    BY <2>1, <2>4, <2>5, WrittenShrinks DEF Inv
  <2>7. TypeOK'
    BY <1>2, <2>1, <2>3 DEF Inv, TypeOK, Pcs
  <2>8. ChainsOK'
    BY <2>1, <2>2 DEF Inv, ChainsOK
  <2>9. Covered' /\ Follows' /\ PcsOK'
    BY <1>2, <2>1, <2>2 DEF Inv, Covered, Covering, Follows, Appending, PcsOK
  <2>10. QED
    BY <2>6, <2>7, <2>8, <2>9 DEF Inv
<1>3. QED
  BY <1>1, <1>2 DEF ResetJournal

LEMMA ReopenInv == ASSUME Inv, Reopen PROVE Inv'
<1>1. CASE GiveUp /\ UNCHANGED <<journal, handle>>
  <2>1. pc = "reopen"
    BY DEF Reopen
  <2>2. QED
    BY <1>1, <2>1, GiveUpInv
<1>2. CASE /\ handle' = TRUE /\ records_since_compaction' = 0 /\ pc' = "idle"
           /\ acked' = IF appending = ZeroDigest THEN acked ELSE acked \cup {appending}
           /\ appending' = ZeroDigest
           /\ UNCHANGED <<snapshot, journal, records, last_sequence, last_record_digest,
                          next_id, faults>>
  <2>1. pc = "reopen"
    BY DEF Reopen
  <2>2. SnapshotRecords' = SnapshotRecords
    BY <1>2, SameSnapshot
  <2>3. SnapshotRecords = records /\ journal = << >>
    BY <2>1 DEF Inv, Covered, Covering, PcsOK
  <2>4. Extends(records, records)
    BY DEF Extends, Inv, TypeOK
  <2>5. TypeOK'
    BY <1>2 DEF Inv, TypeOK, Pcs, ZeroDigest
  <2>6. Covered' /\ Follows' /\ PcsOK'
    BY <1>2, <2>2, <2>3, <2>4 DEF Covered, Covering, Follows, PcsOK
  <2>7. QED
    BY <1>2, <2>5, <2>6, SameFilesInv
<1>3. QED
  BY <1>1, <1>2 DEF Reopen

LEMMA NextInv == ASSUME Inv, FenceRoom, [Next]_vars PROVE Inv'
<1>1. ASSUME NEW kind \in Kinds, AppendFails(kind) \/ AppendCrashes(kind) \/ AppendRecord(kind)
      PROVE  Inv'
  BY <1>1, AppendFailsInv, AppendCrashesInv, AppendRecordInv
<1>2. CASE UNCHANGED vars
  <2>1. UNCHANGED <<snapshot, journal, pc, records, last_sequence, last_record_digest,
                    records_since_compaction, handle, appending, next_id, faults, acked>>
    BY <1>2 DEF vars, memory
  <2>2. SnapshotRecords' = SnapshotRecords
    BY <2>1, SameSnapshot
  <2>3. TypeOK'
    BY <2>1 DEF Inv, TypeOK
  <2>4. Covered' /\ Follows' /\ PcsOK'
    BY <2>1, <2>2 DEF Inv, Covered, Covering, Follows, Appending, PcsOK
  <2>5. QED
    BY <2>1, <2>3, <2>4, SameFilesInv
<1>3. QED
  BY <1>1, <1>2, OpenInv, CrashInv, CompactInv, ReplaceSnapshotInv, ResetJournalInv, ReopenInv
  DEF Next

\* What a restart recovers is a chain.
LEMMA InvRecovers == Inv => RecoveredChained
<1> SUFFICES ASSUME Inv PROVE RecoveredChained
  OBVIOUS
<1> DEFINE P == ReplayOf(SnapshotRecords, journal)
<1>1. Replayable(Written, SnapshotRecords, journal) /\ Replay = P /\ SnapshotChained
  BY InvReplayable
<1>2. P.records \in Seq(Record) /\ Chained(P.records)
  BY <1>1, ReplayedChain DEF Reached, Sound, Progress
<1> HIDE DEF P
<1>3. QED
  BY <1>1, <1>2, ChainLinks DEF RecoveredChained

\* Recovery (open): whatever file operations failed and wherever the process
\* died, the snapshot is accepted and the records recovered are one chain from
\* the first append on, without a gap.
THEOREM RecoveredChainedHolds == Spec /\ []FenceRoom => []RecoveredChained
<1>1. Inv /\ FenceRoom /\ [Next]_vars => Inv'
  BY NextInv
<1>2. QED
  BY <1>1, InitInv, InvRecovers, PTL DEF Spec

(***************************************************************************)
(* The repository as the abstract log                                      *)
(***************************************************************************)
IdsOf(recs) == [i \in DOMAIN recs |-> recs[i].id]

LEMMA IdsOfSeq ==
    ASSUME NEW recs \in Seq(Record)
    PROVE  /\ IdsOf(recs) \in Seq(Nat) /\ Len(IdsOf(recs)) = Len(recs)
           /\ \A i \in 1 .. Len(recs) : IdsOf(recs)[i] = recs[i].id
<1>1. DOMAIN recs = 1 .. Len(recs) /\ Len(recs) \in Nat
  OBVIOUS
<1>2. \A i \in 1 .. Len(recs) : recs[i] \in Record /\ recs[i].id \in Nat
  <2>1. \A i \in 1 .. Len(recs) : recs[i] \in Record
    OBVIOUS
  <2>2. \A r \in Record : r.id \in Nat
    BY DEF Record
  <2>3. QED
    BY <2>1, <2>2
<1> DEFINE f == [i \in 1 .. Len(recs) |-> recs[i].id]
<1>3. f \in [1 .. Len(recs) -> Nat]
  BY <1>2
<1>4. f \in Seq(Nat)
  BY <1>1, <1>3, SeqDef
<1>5. DOMAIN f = 1 .. Len(recs)
  OBVIOUS
<1>6. Len(f) = Len(recs)
  BY <1>1, <1>4, <1>5, LenProperties
<1>7. IdsOf(recs) = f
  BY <1>1 DEF IdsOf
<1>8. QED
  BY <1>4, <1>6, <1>7

LEMMA IdsOfAppend ==
    ASSUME NEW recs \in Seq(Record), NEW r \in Record
    PROVE  IdsOf(Append(recs, r)) = Append(IdsOf(recs), r.id)
<1> DEFINE a == Append(recs, r)
           n == Len(recs)
           b == Append(IdsOf(recs), r.id)
<1>1. /\ a \in Seq(Record) /\ Len(a) = n + 1 /\ n \in Nat
      /\ a[n + 1] = r /\ \A i \in 1 .. n : a[i] = recs[i]
  BY AppendProperties
<1>2. r.id \in Nat
  BY DEF Record
<1>3. /\ b \in Seq(Nat) /\ Len(b) = n + 1
      /\ b[n + 1] = r.id /\ \A i \in 1 .. n : b[i] = recs[i].id
  BY <1>2, IdsOfSeq, AppendProperties
<1> HIDE DEF a, b
<1>4. IdsOf(a) \in Seq(Nat) /\ Len(IdsOf(a)) = n + 1 /\ \A i \in 1 .. n + 1 : IdsOf(a)[i] = a[i].id
  BY <1>1, IdsOfSeq
<1>5. ASSUME NEW i \in 1 .. n + 1 PROVE IdsOf(a)[i] = b[i]
  <2>1. CASE i \in 1 .. n
    <3>1. a[i] = recs[i] /\ b[i] = recs[i].id /\ IdsOf(a)[i] = a[i].id
      BY <1>1, <1>3, <1>4, <2>1
    <3>2. QED
      BY <3>1
  <2>2. CASE i = n + 1
    BY <1>1, <1>3, <1>4, <2>2
  <2>3. QED
    BY <1>1, <2>1, <2>2
<1>6. IdsOf(a) = b
  BY <1>1, <1>3, <1>4, <1>5, SeqEqual
<1>7. QED
  BY <1>6 DEF a, b

\* The identities tell records apart.
LEMMA IdsDetermine ==
    ASSUME NEW U, Consistent(U), NEW a \in Seq(Record), RecordsOf(a) \subseteq U,
           NEW b \in Seq(Record), RecordsOf(b) \subseteq U
    PROVE  IdsOf(a) = IdsOf(b) <=> a = b
<1> SUFFICES ASSUME IdsOf(a) = IdsOf(b) PROVE a = b
  OBVIOUS
<1>1. Len(a) = Len(b)
  BY IdsOfSeq
<1>2. ASSUME NEW i \in 1 .. Len(a) PROVE a[i] = b[i]
  <2>1. a[i].id = b[i].id
    BY <1>1, IdsOfSeq
  <2>2. a[i] \in U /\ b[i] \in U
    BY <1>1 DEF RecordsOf
  <2>3. QED
    BY <2>1, <2>2 DEF Consistent
<1>3. QED
  BY <1>1, <1>2, SeqEqual

Recovered == ReplayOf(SnapshotRecords, journal)

\* Nothing stands between what callers read and what a restart recovers.
Whole ==
    /\ Recovered.records = records
    /\ handle /\ pc # "journal" => ~Recovered.stopped

LEMMA RecoveredOK ==
    ASSUME Inv
    PROVE  /\ Replayable(Written, SnapshotRecords, journal)
           /\ Recovered.records \in Seq(Record) /\ Chained(Recovered.records)
           /\ RecordsOf(Recovered.records) \subseteq Written
           /\ Recovered.prev = LastDigest(Recovered.records)
           /\ Recovered.stopped \in BOOLEAN
           /\ Consistent(Written)
           /\ records \in Seq(Record) /\ Chained(records) /\ RecordsOf(records) \subseteq Written
<1>1. Replayable(Written, SnapshotRecords, journal)
  BY InvReplayable
<1>2. Sound(Written, SnapshotRecords, Recovered)
  BY <1>1, ReplayedChain DEF Recovered, Reached
<1>3. QED
  BY <1>1, <1>2 DEF Sound, Progress, Inv, TypeOK, WrittenOK, ChainsOK, Written

\* The variables of the abstract log.
LEMMA LogView ==
    ASSUME Inv
    PROVE  /\ RecoverableIds = IdsOf(Recovered.records)
           /\ pc = "down" => ReadIds = RecoverableIds /\ Intact
           /\ pc # "down" => ReadIds = IdsOf(records) /\ (Intact <=> Whole)
<1>1. Replay = Recovered
  BY InvReplayable DEF Recovered
<1>2. RecoverableIds = IdsOf(Recovered.records)
  BY <1>1 DEF RecoverableIds, IdsOf
<1>3. ReadIds = IF pc = "down" THEN RecoverableIds ELSE IdsOf(records)
  BY DEF ReadIds, IdsOf
<1>4. IdsOf(Recovered.records) = IdsOf(records) <=> Recovered.records = records
  BY RecoveredOK, IdsDetermine
<1>5. QED
  BY <1>1, <1>2, <1>3, <1>4 DEF Intact, Whole

LEMMA NextLogView ==
    ASSUME Inv'
    PROVE  /\ RecoverableIds' = IdsOf(Recovered'.records)
           /\ pc' = "down" => ReadIds' = RecoverableIds' /\ Intact'
           /\ pc' # "down" => ReadIds' = IdsOf(records') /\ (Intact' <=> Whole')
<1>1. (Inv => /\ RecoverableIds = IdsOf(Recovered.records)
              /\ pc = "down" => ReadIds = RecoverableIds /\ Intact
              /\ pc # "down" => ReadIds = IdsOf(records) /\ (Intact <=> Whole))'
  BY LogView, PTL
<1>2. QED
  BY <1>1


\* The record of an append goes to the end of what a restart recovers exactly
\* when nothing stands in between; otherwise the replay stops before it.
LEMMA AppendedReplay ==
    ASSUME Inv, Appendable, NEW kind \in Kinds
    PROVE  LET P == Recovered
               r == NewRecord(kind)
               Q == ReplayOf(SnapshotRecords, Append(journal, r))
               T == ReplayOf(SnapshotRecords, Append(journal, Torn))
           IN  /\ T.records = P.records /\ T.stopped
               /\ Whole => Q.records = Append(records, r) /\ ~Q.stopped
               /\ ~Whole => Q.records = P.records /\ Q.stopped
<1> DEFINE P == Recovered
           r == NewRecord(kind)
           S == SnapshotRecords
           U == Written \cup {r}
<1>1. /\ r \in Record /\ r # Torn /\ r.prev = LastDigest(records) /\ Consistent(U)
  BY NewRecordBelongs
<1>2. /\ Replayable(Written, S, journal) /\ P.records \in Seq(Record) /\ Chained(P.records)
      /\ RecordsOf(P.records) \subseteq Written /\ P.prev = LastDigest(P.records)
      /\ P.stopped \in BOOLEAN
      /\ Consistent(Written) /\ records \in Seq(Record) /\ Chained(records)
      /\ RecordsOf(records) \subseteq Written
  BY RecoveredOK
<1>3. Replayable(U, S, journal)
  BY <1>1, <1>2 DEF Replayable
<1>4. pc = "idle" /\ handle
  BY DEF Appendable
<1> DEFINE Q == ReplayOf(S, Append(journal, r))
           T == ReplayOf(S, Append(journal, Torn))
<1>5. P = ReplayOf(S, journal)
  BY DEF Recovered
<1>6. r \in U \cup {Torn} /\ Torn \in U \cup {Torn}
  OBVIOUS
<1> HIDE DEF P, r, S, U
<1>7. /\ Q = IF Accepts(P, r) THEN Taken(P, r, Len(journal) + 1) ELSE Stopped(P)
      /\ T = IF Accepts(P, Torn) THEN Taken(P, Torn, Len(journal) + 1) ELSE Stopped(P)
  BY <1>3, <1>5, <1>6, ReplayedAppend
<1> HIDE DEF Q, T
<1>8. Stopped(P).records = P.records /\ Stopped(P).stopped
  <2>1. P \in Progress
    BY <1>2, <1>5, ReplayedChain DEF Reached, Sound
  <2>2. QED
    BY <2>1 DEF Stopped, Progress
<1>9. T.records = P.records /\ T.stopped
  BY <1>7, <1>8 DEF Accepts
<1>10. Accepts(P, r) <=> Whole
  <2>1. P.prev = LastDigest(records) => P.records = records
    BY <1>2, ChainDetermined
  <2>2. Whole <=> P.records = records /\ ~P.stopped
    BY <1>4 DEF Whole, P
  <2>3. Accepts(P, r) <=> ~P.stopped /\ LastDigest(records) = P.prev
    BY <1>1 DEF Accepts
  <2>4. P.records = records => P.prev = LastDigest(records)
    BY <1>2
  <2>5. QED
    BY <2>1, <2>2, <2>3, <2>4
<1>11. Whole => Q.records = Append(records, r) /\ ~Q.stopped
  <2>1. Whole => P.records = records
    BY DEF Whole, P
  <2>2. QED
    BY <1>7, <1>10, <2>1 DEF Taken
<1>12. ~Whole => Q.records = P.records /\ Q.stopped
  BY <1>7, <1>8, <1>10
<1>13. QED
  BY <1>9, <1>11, <1>12 DEF P, r, S, Q, T

\* What the steps of the repository do to the abstract log: an identity that
\* is appended is the next one, and nothing else is lost in a failure or a
\* crash between two appends.
LogStep ==
    \/ UNCHANGED <<ReadIds, RecoverableIds, Intact, faults, acked>>
    \/ Log!Rewrite
    \/ appending # ZeroDigest /\ Log!Ack(appending)
    \/ (Log!Fail(1) \/ Log!Crash(1)) /\ UNCHANGED <<RecoverableIds, acked>>
    \/ /\ Appendable /\ next_id' = next_id + 1
       /\ Log!Write(next_id) \/ Log!Fail(next_id) \/ Log!Crash(next_id)

LEMMA SameRecovered ==
    ASSUME Inv, Inv', UNCHANGED <<snapshot, journal>>
    PROVE  Recovered' = Recovered /\ RecoverableIds' = RecoverableIds
<1>1. SnapshotRecords' = SnapshotRecords
  BY SameSnapshot
<1>2. Recovered' = Recovered
  BY <1>1 DEF Recovered
<1>3. QED
  BY <1>2, LogView, NextLogView

LEMMA OpenLog == ASSUME Inv, Inv', Open PROVE LogStep
<1> DEFINE P == Recovered
<1>1. Replayable(Written, SnapshotRecords, journal) /\ Replay = P /\ SnapshotChained
  BY InvReplayable DEF Recovered
<1>2. /\ pc = "down" /\ pc' = "idle" /\ journal' = SubSeq(journal, 1, P.kept)
      /\ records' = P.records /\ UNCHANGED <<snapshot, faults, acked>>
  BY <1>1 DEF Open
<1>3. SnapshotRecords' = SnapshotRecords
  BY <1>2, SameSnapshot
<1>4. Recovered' = Resumed(P)
  <2>1. ReplayOf(SnapshotRecords, SubSeq(journal, 1, P.kept)) = Resumed(P)
    BY <1>1, ReplayedCut DEF Recovered
  <2>2. QED
    BY <1>2, <1>3, <2>1 DEF Recovered
<1>5. Recovered'.records = P.records /\ ~Recovered'.stopped
  BY <1>4 DEF Resumed
<1>6. Whole'
  BY <1>2, <1>5 DEF Whole
<1>7. RecoverableIds' = RecoverableIds
  BY <1>5, LogView, NextLogView
<1>8. ReadIds' = ReadIds
  BY <1>2, <1>5, <1>7, LogView, NextLogView
<1>9. Intact /\ Intact'
  BY <1>2, <1>6, LogView, NextLogView
<1>10. Intact' = Intact
  BY <1>9 DEF Intact
<1>11. QED
  BY <1>2, <1>7, <1>8, <1>10 DEF LogStep

LEMMA CrashLog == ASSUME Inv, Inv', Crash PROVE LogStep
<1>1. pc' = "down" /\ UNCHANGED <<snapshot, journal, faults, acked>>
  BY DEF Crash, Gone
<1>2. RecoverableIds' = RecoverableIds
  BY <1>1, SameRecovered
<1>3. ReadIds' = RecoverableIds' /\ Intact' = TRUE
  BY <1>1, NextLogView DEF Intact
<1>4. RecoverableIds' \in Log!With(1)
  BY <1>2 DEF Log!With
<1>5. Log!Crash(1)
  BY <1>1, <1>3, <1>4 DEF Log!Crash
<1>6. QED
  BY <1>1, <1>2, <1>5 DEF LogStep


\* What an append that fails or is cut short leaves behind is either nothing,
\* or all of the record at the end of what is recoverable, or bytes that stop
\* the replay.
LEMMA LeftBehind ==
    ASSUME Inv, Inv', Appendable, NEW kind \in Kinds, UNCHANGED snapshot,
           journal' \in {journal, Append(journal, Torn), Append(journal, NewRecord(kind))}
    PROVE  /\ RecoverableIds' \in Log!With(next_id)
           /\ \/ Recovered' = Recovered
              \/ Recovered'.stopped /\ RecoverableIds' = RecoverableIds
              \/ Recovered'.records = Append(records, NewRecord(kind))
<1> DEFINE r == NewRecord(kind)
<1>1. SnapshotRecords' = SnapshotRecords
  BY SameSnapshot
<1>2. Recovered' = ReplayOf(SnapshotRecords, journal')
  BY <1>1 DEF Recovered
<1>3. r \in Record /\ r.id = next_id
  BY NewRecordBelongs
<1>4. pc # "down" /\ records \in Seq(Record)
  BY RecoveredOK DEF Appendable
<1>5. RecoverableIds = IdsOf(Recovered.records) /\ (Intact <=> Whole)
  BY <1>4, LogView
<1>6. RecoverableIds' = IdsOf(Recovered'.records)
  BY NextLogView
<1>7. CASE journal' = journal
  <2>1. Recovered' = Recovered
    BY <1>2, <1>7 DEF Recovered
  <2>2. QED
    BY <1>5, <1>6, <2>1 DEF Log!With
<1>8. CASE journal' = Append(journal, Torn)
  <2>1. Recovered'.records = Recovered.records /\ Recovered'.stopped
    BY <1>2, <1>8, AppendedReplay
  <2>2. QED
    BY <1>5, <1>6, <2>1 DEF Log!With
<1>9. CASE journal' = Append(journal, r)
  <2>1. CASE Whole
    <3>1. Recovered'.records = Append(records, r)
      BY <1>2, <1>9, <2>1, AppendedReplay
    <3>2. Recovered.records = records
      BY <2>1 DEF Whole
    <3>3. RecoverableIds' = Append(RecoverableIds, next_id)
      BY <1>3, <1>4, <1>5, <1>6, <3>1, <3>2, IdsOfAppend
    <3>4. QED
      BY <1>5, <2>1, <3>1, <3>3 DEF Log!With
  <2>2. CASE ~Whole
    <3>1. Recovered'.records = Recovered.records /\ Recovered'.stopped
      BY <1>2, <1>9, <2>2, AppendedReplay
    <3>2. QED
      BY <1>5, <1>6, <3>1 DEF Log!With
  <2>3. QED
    BY <2>1, <2>2
<1>10. QED
  BY <1>7, <1>8, <1>9

LEMMA AppendFailsLog == ASSUME Inv, Inv', NEW kind \in Kinds, AppendFails(kind) PROVE LogStep
<1> DEFINE r == NewRecord(kind)
<1>1. /\ Appendable /\ UNCHANGED <<snapshot, pc, records, handle, acked>>
      /\ next_id' = next_id + 1 /\ faults' = faults + 1
      /\ journal' \in {journal, Append(journal, Torn), Append(journal, r)}
  BY DEF AppendFails, Fault, memory
<1>2. pc = "idle" /\ pc' = "idle" /\ handle /\ handle'
  BY <1>1 DEF Appendable
<1>3. ReadIds' = ReadIds
  BY <1>1, <1>2, LogView, NextLogView
<1>4. /\ RecoverableIds' \in Log!With(next_id)
      /\ \/ Recovered' = Recovered
         \/ Recovered'.stopped /\ RecoverableIds' = RecoverableIds
         \/ Recovered'.records = Append(records, r)
  BY <1>1, LeftBehind
<1>5. (Intact <=> Whole) /\ (Intact' <=> Whole')
  BY <1>2, LogView, NextLogView
<1>6. \/ Intact' = Intact /\ RecoverableIds' = RecoverableIds
      \/ Intact' = FALSE
  <2>1. CASE Recovered' = Recovered
    <3>1. Whole' <=> Whole
      BY <1>1, <2>1 DEF Whole
    <3>2. RecoverableIds' = RecoverableIds
      BY <2>1, LogView, NextLogView
    <3>3. QED
      BY <1>5, <3>1, <3>2 DEF Intact
  <2>2. CASE Recovered'.stopped
    <3>1. ~Whole'
      BY <1>2, <2>2 DEF Whole
    <3>2. QED
      BY <1>5, <3>1 DEF Intact
  <2>3. CASE Recovered'.records = Append(records, r)
    <3>1. r \in Record /\ records \in Seq(Record)
      BY <1>1, NewRecordBelongs DEF Inv, TypeOK
    <3>2. Append(records, r) # records
      <4>1. Len(Append(records, r)) = Len(records) + 1 /\ Len(records) \in Nat
        BY <3>1, AppendProperties
      <4>2. QED
        BY <4>1
    <3>3. ~Whole'
      BY <1>1, <2>3, <3>2 DEF Whole
    <3>4. QED
      BY <1>5, <3>3 DEF Intact
  <2>4. QED
    BY <1>4, <2>1, <2>2, <2>3
<1>7. Log!Fail(next_id)
  <2>1. CASE Intact' = Intact /\ RecoverableIds' = RecoverableIds
    BY <1>1, <1>3, <1>4, <2>1 DEF Log!Fail
  <2>2. CASE Intact' = FALSE
    BY <1>1, <1>3, <1>4, <2>2 DEF Log!Fail
  <2>3. QED
    BY <1>6, <2>1, <2>2
<1>8. QED
  BY <1>1, <1>7 DEF LogStep

LEMMA AppendCrashesLog == ASSUME Inv, Inv', NEW kind \in Kinds, AppendCrashes(kind) PROVE LogStep
<1>1. /\ Appendable /\ pc' = "down" /\ UNCHANGED <<snapshot, faults, acked>>
      /\ next_id' = next_id + 1
      /\ journal' \in {journal, Append(journal, Torn), Append(journal, NewRecord(kind))}
  BY DEF AppendCrashes, Gone
<1>2. RecoverableIds' \in Log!With(next_id)
  BY <1>1, LeftBehind
<1>3. ReadIds' = RecoverableIds' /\ Intact' = TRUE
  BY <1>1, NextLogView DEF Intact
<1>4. Log!Crash(next_id)
  BY <1>1, <1>2, <1>3 DEF Log!Crash
<1>5. QED
  BY <1>1, <1>4 DEF LogStep

LEMMA AppendRecordLog ==
    ASSUME Inv, Inv', FenceRoom, NEW kind \in Kinds, AppendRecord(kind) PROVE LogStep
<1> DEFINE r == NewRecord(kind)
<1>1. /\ Appendable /\ UNCHANGED <<snapshot, handle, faults>>
      /\ journal' = Append(journal, r) /\ records' = Append(records, r)
      /\ next_id' = next_id + 1 /\ pc' \in {"idle", "snapshot"}
      /\ acked' \in {acked, acked \cup {next_id}}
  BY AppendRecordEffect
<1>2. pc = "idle" /\ handle /\ handle'
  BY <1>1 DEF Appendable
<1>3. r \in Record /\ r.id = next_id /\ records \in Seq(Record) /\ next_id \in Nat
  <2>1. r \in Record /\ r.id = next_id
    BY <1>1, NewRecordBelongs
  <2>2. records \in Seq(Record) /\ next_id \in Nat
    BY RepositoryAssumption DEF Inv, TypeOK
  <2>3. QED
    BY <2>1, <2>2
<1>4. /\ RecoverableIds = IdsOf(Recovered.records) /\ RecoverableIds' = IdsOf(Recovered'.records)
      /\ ReadIds = IdsOf(records) /\ ReadIds' = IdsOf(records')
      /\ Intact <=> Whole
      /\ Intact' <=> Whole'
  BY <1>1, <1>2, LogView, NextLogView
<1>5. ReadIds' = Append(ReadIds, next_id)
  BY <1>1, <1>3, <1>4, IdsOfAppend
<1>6. ~Log!Holds(ReadIds, next_id)
  <2>1. \A i \in 1 .. Len(records) : records[i] \in Written
    BY <1>3 DEF Written, RecordsOf
  <2>2. \A i \in 1 .. Len(records) : records[i].id # next_id
    BY <1>3, <2>1 DEF Inv, WrittenOK, Consistent, Record
  <2>3. QED
    BY <1>3, <1>4, <2>2, IdsOfSeq DEF Log!Holds
<1>7. Recovered' = ReplayOf(SnapshotRecords, Append(journal, r))
  BY <1>1, SameSnapshot DEF Recovered
<1>8. RecoverableIds' = (IF Intact THEN ReadIds' ELSE RecoverableIds) /\ Intact' = Intact
  <2>1. CASE Whole
    <3>1. Recovered'.records = records' /\ ~Recovered'.stopped
      BY <1>1, <1>7, <2>1, AppendedReplay
    <3>2. Whole'
      BY <3>1 DEF Whole
    <3>3. QED
      BY <1>4, <2>1, <3>1, <3>2 DEF Intact
  <2>2. CASE ~Whole
    <3>1. Recovered'.records = Recovered.records /\ Recovered'.stopped
      BY <1>1, <1>7, <2>2, AppendedReplay
    <3>2. ~Whole'
      BY <1>1, <1>2, <3>1 DEF Whole
    <3>3. QED
      BY <1>4, <2>2, <3>1, <3>2 DEF Intact
  <2>3. QED
    BY <2>1, <2>2
<1>9. Log!Write(next_id)
  BY <1>1, <1>5, <1>6, <1>8 DEF Log!Write
<1>10. QED
  BY <1>1, <1>9 DEF LogStep

LEMMA CompactLog == ASSUME Inv, Inv', Compact PROVE LogStep
<1>1. /\ pc = "idle" /\ pc' = "snapshot"
      /\ UNCHANGED <<snapshot, journal, records, handle, faults, acked>>
  BY DEF Compact, memory
<1>2. Recovered' = Recovered /\ RecoverableIds' = RecoverableIds
  BY <1>1, SameRecovered
<1>3. ReadIds' = ReadIds /\ (Intact <=> Whole) /\ (Intact' <=> Whole')
  BY <1>1, LogView, NextLogView
<1>4. Whole' <=> Whole
  BY <1>1, <1>2 DEF Whole
<1>5. Intact' = Intact
  BY <1>3, <1>4 DEF Intact
<1>6. QED
  BY <1>1, <1>2, <1>3, <1>5 DEF LogStep

\* A compaction given up part of the way is a failure that wrote nothing.
LEMMA GiveUpLog ==
    ASSUME Inv, Inv', GiveUp, UNCHANGED journal, pc \in {"snapshot", "journal", "reopen"},
           \/ UNCHANGED handle /\ pc = "snapshot"
           \/ handle' = FALSE /\ pc = "journal"
           \/ UNCHANGED handle /\ pc = "reopen"
    PROVE  LogStep
<1>1. pc' = "idle" /\ faults' = faults + 1 /\ UNCHANGED <<snapshot, records, acked>>
  BY DEF GiveUp, Fault, memory
<1>2. Recovered' = Recovered /\ RecoverableIds' = RecoverableIds
  BY <1>1, SameRecovered
<1>3. ReadIds' = ReadIds /\ (Intact <=> Whole) /\ (Intact' <=> Whole')
  BY <1>1, LogView, NextLogView
<1>4. Whole' <=> Whole
  BY <1>1, <1>2 DEF Whole
<1>5. Intact' = Intact
  BY <1>3, <1>4 DEF Intact
<1>6. Log!Fail(1)
  BY <1>1, <1>2, <1>3, <1>5 DEF Log!Fail, Log!With
<1>7. QED
  BY <1>1, <1>2, <1>6 DEF LogStep

\* The snapshot file is replaced.  Either all that callers read is recoverable
\* from then on; or records left in the journal follow the new snapshot as they
\* followed the old one, and then the two are the same.
LEMMA ReplaceSnapshotLog == ASSUME Inv, Inv', ReplaceSnapshot PROVE LogStep
<1>1. CASE GiveUp /\ UNCHANGED <<journal, handle>>
  BY <1>1, GiveUpLog DEF ReplaceSnapshot
<1>2. CASE /\ snapshot' = [sequence |-> last_sequence, records |-> records]
           /\ pc' = "journal"
           /\ UNCHANGED <<journal, memory, handle, appending, next_id, faults, acked>>
  <2>1. /\ pc = "snapshot" /\ pc' = "journal" /\ UNCHANGED <<journal, records, handle, faults, acked>>
    BY <1>2 DEF ReplaceSnapshot, memory
  <2>2. SnapshotRecords' = records
    BY <2>1 DEF Inv, Covered, Covering
  <2>3. /\ ReadIds' = ReadIds /\ ReadIds = IdsOf(records)
        /\ RecoverableIds = IdsOf(Recovered.records) /\ RecoverableIds' = IdsOf(Recovered'.records)
        /\ Intact <=> Whole
        /\ Intact' <=> Whole'
    BY <2>1, LogView, NextLogView
  <2>4. Whole' <=> Recovered'.records = records
    BY <2>1 DEF Whole
  <2>5. CASE Recovered'.records = records
    <3>1. RecoverableIds' = ReadIds /\ Intact' = TRUE
      BY <2>3, <2>4, <2>5 DEF Intact
    <3>2. Log!Rewrite
      BY <2>1, <2>3, <3>1 DEF Log!Rewrite
    <3>3. QED
      BY <3>2 DEF LogStep
  <2>6. CASE Recovered'.records # records
    <3> DEFINE Q == ReplayOf(records, journal)
    <3>1. Recovered' = Q
      BY <2>1, <2>2 DEF Recovered
    <3>2. /\ Replayable(Written, SnapshotRecords, journal)
          /\ Consistent(Written) /\ records \in Seq(Record) /\ Chained(records)
          /\ RecordsOf(records) \subseteq Written
      BY RecoveredOK
    <3>3. Replayable(Written, records, journal)
      BY <3>2 DEF Replayable
    <3>4. Reached(Written, records, journal, Len(journal), Q)
      BY <3>3, ReplayedChain
    <3> HIDE DEF Q
    <3>5. Q.kept # 0
      <4> SUFFICES ASSUME Q.kept = 0 PROVE FALSE
        OBVIOUS
      <4>1. ReplaySteps(records, Len(records), journal)[0] = Resumed(Q)
        BY <3>4 DEF Reached
      <4>2. Len(journal) \in Nat
        BY <3>3 DEF Replayable
      <4>3. NothingReplayed(records, Len(records)) = Resumed(Q)
        BY <4>1, <4>2, StepsDefined
      <4>4. Q.records = records
        BY <4>3 DEF NothingReplayed, Resumed
      <4>5. QED
        BY <2>6, <3>1, <4>4
    <3>6. journal[1] # Torn /\ journal[1].prev = LastDigest(records)
      BY <3>4, <3>5 DEF Reached
    <3>7. journal # << >>
      <4>1. Q.kept \in Nat /\ Q.kept <= Len(journal)
        BY <3>4 DEF Reached, Sound, Progress
      <4>2. QED
        BY <3>5, <4>1
    <3>8. SnapshotRecords = records
      <4>1. CASE handle
        <5>1. journal[1].prev = LastDigest(SnapshotRecords)
          BY <2>1, <3>6, <3>7, <4>1 DEF Inv, Follows, Appending
        <5>2. SnapshotRecords \in Seq(Record) /\ Chained(SnapshotRecords)
              /\ RecordsOf(SnapshotRecords) \subseteq Written
          BY <3>2 DEF Replayable
        <5>3. QED
          BY <3>2, <3>6, <5>1, <5>2, ChainDetermined
      <4>2. CASE ~handle
        BY <2>1, <4>2 DEF Inv, Covered, Covering
      <4>3. QED
        BY <4>1, <4>2
    <3>9. Recovered' = Recovered
      BY <3>1, <3>8 DEF Recovered, Q
    <3>10. ~Whole /\ ~Whole'
      BY <2>4, <2>6, <3>9 DEF Whole
    <3>11. Intact' = Intact /\ RecoverableIds' = RecoverableIds
      BY <2>3, <3>9, <3>10 DEF Intact
    <3>12. QED
      BY <2>1, <2>3, <3>11 DEF LogStep
  <2>7. QED
    BY <2>5, <2>6
<1>3. QED
  BY <1>1, <1>2 DEF ReplaceSnapshot

LEMMA ResetJournalLog == ASSUME Inv, Inv', ResetJournal PROVE LogStep
<1>1. CASE GiveUp /\ UNCHANGED journal
  BY <1>1, GiveUpLog DEF ResetJournal
<1>2. CASE /\ journal' = << >> /\ pc' = "reopen"
           /\ UNCHANGED <<snapshot, memory, appending, next_id, faults, acked>>
  <2>1. pc = "journal" /\ handle' = FALSE /\ UNCHANGED <<snapshot, records, faults, acked>>
    BY <1>2 DEF ResetJournal, memory
  <2>2. SnapshotRecords' = records
    BY <2>1, SameSnapshot DEF Inv, Covered, Covering
  <2>3. Recovered'.records = records
    BY <1>2, <2>2, ReplayedNothing DEF Recovered
  <2>4. Whole'
    BY <2>1, <2>3 DEF Whole
  <2>5. RecoverableIds' = ReadIds /\ ReadIds' = ReadIds /\ Intact' = TRUE
    BY <1>2, <2>1, <2>3, <2>4, LogView, NextLogView DEF Intact
  <2>6. Log!Rewrite
    BY <2>1, <2>5 DEF Log!Rewrite
  <2>7. QED
    BY <2>6 DEF LogStep
<1>3. QED
  BY <1>1, <1>2 DEF ResetJournal

LEMMA ReopenLog == ASSUME Inv, Inv', Reopen PROVE LogStep
<1>1. CASE GiveUp /\ UNCHANGED <<journal, handle>>
  BY <1>1, GiveUpLog DEF Reopen
<1>2. CASE /\ handle' = TRUE /\ pc' = "idle"
           /\ acked' = IF appending = ZeroDigest THEN acked ELSE acked \cup {appending}
           /\ UNCHANGED <<snapshot, journal, records, faults>>
  <2>1. pc = "reopen"
    BY DEF Reopen
  <2>2. SnapshotRecords = records /\ journal = << >>
    BY <2>1 DEF Inv, Covered, Covering, PcsOK
  <2>3. Recovered.records = records /\ ~Recovered.stopped
    BY <2>2, ReplayedNothing DEF Recovered
  <2>4. Recovered' = Recovered /\ RecoverableIds' = RecoverableIds
    BY <1>2, SameRecovered
  <2>5. Whole /\ Whole'
    BY <1>2, <2>3, <2>4 DEF Whole
  <2>6. ReadIds' = ReadIds /\ ReadIds = IdsOf(records) /\ Intact' = Intact
    BY <1>2, <2>1, <2>5, LogView, NextLogView DEF Intact
  <2>7. CASE appending = ZeroDigest
    BY <1>2, <2>4, <2>6, <2>7 DEF LogStep
  <2>8. CASE appending # ZeroDigest
    <3>1. PICK i \in 1 .. Len(records) : records[i].id = appending
      BY <2>8 DEF Inv, PcsOK
    <3>2. Log!Holds(ReadIds, appending)
      BY <2>6, <3>1, IdsOfSeq DEF Log!Holds, Inv, TypeOK
    <3>3. Log!Ack(appending)
      BY <1>2, <2>4, <2>6, <2>8, <3>2 DEF Log!Ack
    <3>4. QED
      BY <2>8, <3>3 DEF LogStep
  <2>9. QED
    BY <2>7, <2>8
<1>3. QED
  BY <1>1, <1>2 DEF Reopen

LEMMA NextLog == ASSUME Inv, Inv', FenceRoom, [Next]_vars PROVE LogStep
<1>1. ASSUME NEW kind \in Kinds, AppendFails(kind) \/ AppendCrashes(kind) \/ AppendRecord(kind)
      PROVE  LogStep
  BY <1>1, AppendFailsLog, AppendCrashesLog, AppendRecordLog
<1>2. CASE UNCHANGED vars
  <2>1. UNCHANGED <<snapshot, journal, pc, records, handle, faults, acked>>
    BY <1>2 DEF vars, memory
  <2>2. Recovered' = Recovered /\ RecoverableIds' = RecoverableIds
    BY <2>1, SameRecovered
  <2>3. ReadIds' = ReadIds
    BY <2>1, <2>2, LogView, NextLogView
  <2>4. Whole' <=> Whole
    BY <2>1, <2>2 DEF Whole
  <2>5. Intact' = Intact
    BY <2>1, <2>4, LogView, NextLogView DEF Intact
  <2>6. QED
    BY <2>1, <2>2, <2>3, <2>5 DEF LogStep
<1>3. QED
  BY <1>1, <1>2, OpenLog, CrashLog, CompactLog, ReplaceSnapshotLog, ResetJournalLog, ReopenLog
  DEF Next


\* The repository implements the log that its callers are given: whatever fails
\* and wherever the process dies, what callers read and what a restart recovers
\* part only in a file operation that fails, meet again in a compaction or a
\* restart, and nothing else loses, adds or reorders a record (persist.cpp).
THEOREM ImplementsLogHolds == Spec /\ []FenceRoom => ImplementsLog
<1>1. Init => Log!LogInit
  <2> SUFFICES ASSUME Init PROVE Log!LogInit
    OBVIOUS
  <2>1. Inv
    BY InitInv
  <2>2. SnapshotRecords = << >> /\ journal = << >>
    BY DEF Init, SnapshotRecords
  <2>3. Recovered.records = << >>
    BY <2>2, ReplayedNothing DEF Recovered
  <2>4. IdsOf(<< >>) = << >>
    <3>1. IdsOf(<< >>) \in Seq(Nat) /\ Len(IdsOf(<< >>)) = 0
      <4>1. << >> \in Seq(Record) /\ Len(<< >>) = 0
        OBVIOUS
      <4>2. QED
        BY <4>1, IdsOfSeq
    <3>2. QED
      BY <3>1, EmptySeq
  <2>5. RecoverableIds = << >> /\ ReadIds = << >> /\ Intact = TRUE
    BY <2>1, <2>3, <2>4, LogView DEF Init, Intact
  <2>6. QED
    BY <2>5 DEF Init, Log!LogInit
<1>2. Inv /\ Inv' /\ FenceRoom /\ [Next]_vars => [Log!LogNext]_(Log!logVars)
  <2> SUFFICES ASSUME Inv, Inv', FenceRoom, [Next]_vars PROVE [Log!LogNext]_(Log!logVars)
    OBVIOUS
  <2>1. LogStep
    BY NextLog
  <2>2. 1 \in Ids
    BY RepositoryAssumption DEF Ids
  <2>3. Appendable => next_id \in Ids
    BY RepositoryAssumption DEF Appendable, Ids, Inv, TypeOK
  <2>4. appending # ZeroDigest => appending \in Ids
    <3> SUFFICES ASSUME appending # ZeroDigest PROVE appending \in Ids
      OBVIOUS
    <3>1. PICK i \in 1 .. Len(records) : records[i].id = appending
      BY DEF Inv, PcsOK
    <3>2. records[i] \in Record
      BY DEF Inv, TypeOK
    <3>3. records[i] \in Written
      BY <3>2 DEF Written, RecordsOf
    <3>4. appending < next_id /\ appending \in Nat \ {0}
      BY <3>1, <3>2, <3>3 DEF Inv, WrittenOK, Record
    <3>5. QED
      BY <3>4, RepositoryAssumption DEF Inv, TypeOK, Ids
  <2>5. QED
    BY <2>1, <2>2, <2>3, <2>4 DEF LogStep, Log!LogNext, Log!logVars
<1>3. Inv /\ FenceRoom /\ [Next]_vars => Inv'
  BY NextInv
<1>4. QED
  BY <1>1, <1>2, <1>3, InitInv, PTL DEF Spec, ImplementsLog, Log!LogSpec

(***************************************************************************)
(* Acknowledged records                                                    *)
(***************************************************************************)
LEMMA HoldsAppend ==
    ASSUME NEW s \in Seq(Nat), NEW n \in Nat, NEW x
    PROVE  Log!Holds(Append(s, n), x) <=> Log!Holds(s, x) \/ x = n
<1> DEFINE a == Append(s, n)
<1>1. /\ Len(a) = Len(s) + 1 /\ Len(s) \in Nat /\ a[Len(s) + 1] = n
      /\ \A i \in 1 .. Len(s) : a[i] = s[i]
  BY AppendProperties
<1> HIDE DEF a
<1>2. ASSUME Log!Holds(a, x) PROVE Log!Holds(s, x) \/ x = n
  BY <1>1, <1>2 DEF Log!Holds
<1>3. ASSUME Log!Holds(s, x) PROVE Log!Holds(a, x)
  <2>1. PICK i \in 1 .. Len(s) : s[i] = x
    BY <1>3 DEF Log!Holds
  <2>2. i \in 1 .. Len(a) /\ a[i] = x
    BY <1>1, <2>1
  <2>3. QED
    BY <2>2 DEF Log!Holds
<1>4. x = n => Log!Holds(a, x)
  <2>1. Len(a) \in 1 .. Len(a) /\ a[Len(a)] = n
    BY <1>1
  <2>2. QED
    BY <2>1 DEF Log!Holds
<1>5. QED
  BY <1>2, <1>3, <1>4 DEF a

LEMMA LogTypes ==
    ASSUME Inv
    PROVE  /\ RecoverableIds \in Seq(Nat) /\ ReadIds \in Seq(Nat)
           /\ Intact => RecoverableIds = ReadIds
           /\ \A x : Recoverable(x) <=> Log!Holds(RecoverableIds, x)
<1>1. Recovered.records \in Seq(Record) /\ records \in Seq(Record)
  BY RecoveredOK
<1>2. IdsOf(Recovered.records) \in Seq(Nat) /\ IdsOf(records) \in Seq(Nat)
  BY <1>1, IdsOfSeq
<1>3. RecoverableIds \in Seq(Nat) /\ ReadIds \in Seq(Nat)
  BY <1>2, LogView
<1>4. Intact => RecoverableIds = ReadIds
  BY DEF Intact, ReadIds
<1>5. DOMAIN RecoverableIds = 1 .. Len(RecoverableIds)
  BY <1>3
<1>6. QED
  BY <1>3, <1>4, <1>5 DEF Recoverable, Log!Holds

LEMMA NextRecoverable ==
    ASSUME Inv' PROVE \A x : Recoverable(x)' <=> Log!Holds(RecoverableIds', x)
<1>1. (Inv => \A x : Recoverable(x) <=> Log!Holds(RecoverableIds, x))'
  BY LogTypes, PTL
<1>2. QED
  BY <1>1

\* An acknowledged record that a restart would recover is one callers read.
AckedKnown ==
    \A x \in acked : /\ x \in Nat /\ x < next_id
                     /\ Log!Holds(RecoverableIds, x) => Log!Holds(ReadIds, x)

LEMMA NextIds == ASSUME [Next]_vars PROVE next_id' \in {next_id, next_id + 1}
<1>1. QED
  BY DEF Next, vars, Open, Crash, Gone, AppendFails, AppendCrashes, AppendRecord, Compact,
         ReplaceSnapshot, ResetJournal, Reopen, GiveUp

\* One step of the log, seen from the acknowledged records.
LEMMA AckedStep ==
    ASSUME Inv, Inv', FenceRoom, AckedKnown, [Next]_vars
    PROVE  /\ AckedKnown'
           /\ \A x \in acked' :
                (IF x \in acked THEN Recoverable(x) ELSE Intact) => Recoverable(x)'
<1> DEFINE D == RecoverableIds
           L == ReadIds
           Holds(s, x) == Log!Holds(s, x)
           Stays(x) == (IF x \in acked THEN Holds(D, x) ELSE Intact) => Holds(D', x)
           Known(x) == x \in Nat /\ x < next_id' /\ (Holds(D', x) => Holds(L', x))
<1>1. LogStep
  BY NextLog
<1>2. next_id' \in {next_id, next_id + 1} /\ next_id \in Nat
  BY NextIds, RepositoryAssumption DEF Inv, TypeOK
<1>3. D \in Seq(Nat) /\ L \in Seq(Nat) /\ (Intact => D = L)
  BY LogTypes
<1>4. \A n \in Nat : \A x :
                        /\ Holds(Append(D, n), x) <=> Holds(D, x) \/ x = n
                        /\ Holds(Append(L, n), x) <=> Holds(L, x) \/ x = n
  BY <1>3, HoldsAppend
<1>5. \A x \in acked : x \in Nat /\ x < next_id /\ x < next_id' /\ (Holds(D, x) => Holds(L, x))
  BY <1>2 DEF AckedKnown
<1> HIDE DEF D, L, Holds
<1>6. \A x \in acked' : Stays(x) /\ Known(x)
  <2>1. CASE UNCHANGED <<L, D, Intact, faults, acked>>
    BY <1>5, <2>1
  <2>2. CASE Log!Rewrite
    <3>1. D' = L /\ L' = L /\ acked' = acked
      BY <2>2 DEF Log!Rewrite, D, L
    <3>2. QED
      BY <1>5, <3>1
  <2>3. CASE appending # ZeroDigest /\ Log!Ack(appending)
    <3>1. Holds(L, appending) /\ acked' = acked \cup {appending} /\ D' = D /\ L' = L
      BY <2>3 DEF Log!Ack, D, L, Holds
    <3>2. appending \in Nat /\ appending < next_id'
      <4>1. PICK i \in 1 .. Len(records) : records[i].id = appending
        BY <2>3 DEF Inv, PcsOK
      <4>2. records[i] \in Record
        BY DEF Inv, TypeOK
      <4>3. records[i] \in Written
        BY <4>2 DEF Written, RecordsOf
      <4>4. appending < next_id /\ appending \in Nat
        BY <4>1, <4>2, <4>3 DEF Inv, WrittenOK, Record
      <4>5. QED
        BY <1>2, <4>4
    <3>3. QED
      BY <1>3, <1>5, <3>1, <3>2
  <2>4. CASE (Log!Fail(1) \/ Log!Crash(1)) /\ UNCHANGED <<D, acked>>
    <3>1. D' = D /\ acked' = acked /\ (L' = L \/ L' = D')
      BY <2>4 DEF Log!Fail, Log!Crash, D, L
    <3>2. QED
      BY <1>5, <3>1
  <2>5. CASE Appendable /\ next_id' = next_id + 1 /\ Log!Write(next_id)
    <3>1. /\ L' = Append(L, next_id) /\ D' = (IF Intact THEN L' ELSE D)
          /\ acked' \in {acked, acked \cup {next_id}}
      BY <2>5 DEF Log!Write, D, L
    <3>2. next_id < next_id'
      BY <1>2, <2>5
    <3>3. QED
      BY <1>2, <1>3, <1>4, <1>5, <3>1, <3>2
  <2>6. CASE Appendable /\ next_id' = next_id + 1 /\ Log!Fail(next_id)
    <3>1. D' \in {D, Append(D, next_id)} /\ L' = L /\ acked' = acked
      BY <2>6 DEF Log!Fail, Log!With, D, L
    <3>2. ASSUME NEW x \in acked PROVE Holds(D', x) <=> Holds(D, x)
      <4>1. x # next_id
        BY <1>2, <1>5
      <4>2. Holds(Append(D, next_id), x) <=> Holds(D, x)
        BY <1>2, <1>4, <4>1
      <4>3. CASE D' = D
        BY <4>3
      <4>4. CASE D' = Append(D, next_id)
        BY <4>2, <4>4
      <4>5. QED
        BY <3>1, <4>3, <4>4
    <3>3. QED
      BY <1>5, <3>1, <3>2
  <2>7. CASE Appendable /\ next_id' = next_id + 1 /\ Log!Crash(next_id)
    <3>1. D' \in {D, Append(D, next_id)} /\ L' = D' /\ acked' = acked
      BY <2>7 DEF Log!Crash, Log!With, D, L
    <3>2. ASSUME NEW x \in acked PROVE Holds(D', x) <=> Holds(D, x)
      <4>1. x # next_id
        BY <1>2, <1>5
      <4>2. Holds(Append(D, next_id), x) <=> Holds(D, x)
        BY <1>2, <1>4, <4>1
      <4>3. CASE D' = D
        BY <4>3
      <4>4. CASE D' = Append(D, next_id)
        BY <4>2, <4>4
      <4>5. QED
        BY <3>1, <4>3, <4>4
    <3>3. QED
      BY <1>5, <3>1, <3>2
  <2>8. QED
    BY <1>1, <2>1, <2>2, <2>3, <2>4, <2>5, <2>6, <2>7 DEF LogStep, D, L
<1>7. \A x : (Recoverable(x) <=> Holds(D, x)) /\ (Recoverable(x)' <=> Holds(D', x))
  BY LogTypes, NextRecoverable DEF D, Holds
<1>8. AckedKnown'
  BY <1>6 DEF AckedKnown, D, L, Holds
<1>9. QED
  BY <1>6, <1>7, <1>8

\* append and open: an acknowledged record that a restart would bring back is
\* brought back by every later one, through failed writes, compactions cut
\* short and repeated crashes, and one acknowledged while no left-over bytes
\* are in the way is one of those.
THEOREM AckedStaysRecoverableHolds == Spec /\ []FenceRoom => AckedStaysRecoverable
<1>1. Inv /\ FenceRoom /\ [Next]_vars => Inv'
  BY NextInv
<1>2. Init => AckedKnown
  BY DEF Init, AckedKnown
<1>3. Inv /\ Inv' /\ FenceRoom /\ AckedKnown /\ [Next]_vars => AckedKnown'
  BY AckedStep
<1>4. Inv /\ Inv' /\ FenceRoom /\ AckedKnown /\ [Next]_vars =>
        [\A x \in acked' :
           (IF x \in acked THEN Recoverable(x) ELSE Intact) => Recoverable(x)']_vars
  BY AckedStep
<1>5. QED
  BY <1>1, <1>2, <1>3, <1>4, InitInv, PTL DEF Spec, AckedStaysRecoverable
===============================================================================
