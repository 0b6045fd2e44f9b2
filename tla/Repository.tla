------------------------------ MODULE Repository ------------------------------
(***************************************************************************)
(* PlanRepository (persist.cpp): a snapshot file, an append-only journal,  *)
(* the records in memory, compaction, and recovery.                        *)
(*                                                                         *)
(* One mutex covers every method, so between two methods of a live process *)
(* nothing happens; within a method the process can die after any effect   *)
(* on the disk, and a write can fail.  A compaction is therefore one step  *)
(* per file operation, and a write has the outcomes it can have: nothing,  *)
(* a torn piece of a record, or all of it.                                 *)
(*                                                                         *)
(* Abstractions.  A payload is a number, fresh for every append, and is    *)
(* also the digest of its record: two records have one digest only if they *)
(* are the same record.  A torn record fails its checksums, whatever is    *)
(* left of it.  Temporary files are never read, so a replacement has       *)
(* happened or has not.  fsync is on (the default): what append wrote      *)
(* before it returned is on disk.  A crash loses no completed rename.      *)
(***************************************************************************)
EXTENDS Naturals, Sequences, FiniteSets

CONSTANTS
    Kinds,          \* record types appended, a subset of {"plan", "fence"}
    CompactAfter,   \* Options::compact_after_records
    MaxRecords,     \* Options::max_records
    MaxFences,      \* Limits::max_fences
    MaxAppends,     \* bound on the appends of a behaviour
    MaxFaults,      \* bound on the file operations that fail
    NoFile,         \* the snapshot file before the first compaction
    Torn            \* bytes in the journal that are not a record

ASSUME RepositoryAssumption ==
    /\ Kinds \subseteq {"plan", "fence"}
    /\ CompactAfter \in Nat \ {0} /\ MaxRecords \in Nat /\ MaxFences \in Nat
    /\ MaxAppends \in Nat \ {0} /\ MaxFaults \in Nat

ZeroDigest == 0
Ids == 1 .. MaxAppends

\* A record on disk; prev is the digest of the one before it, or ZeroDigest.
Record == [kind : Kinds, sequence : Nat \ {0}, prev : Nat, id : Nat \ {0}]
SnapshotFile == [sequence : Nat, records : Seq(Record)]

\* Left-over bytes fail their checksums, and a missing file is not a snapshot.
ASSUME BytesAssumption == Torn \notin Record /\ NoFile \notin SnapshotFile

VARIABLES
    snapshot, journal,                  \* the two files
    pc,                                 \* where the process is, see Pcs
    records, last_sequence, last_record_digest, records_since_compaction,
    handle,                             \* whether the journal is open for appending
    appending,                          \* the record whose append is compacting, or ZeroDigest
    next_id, faults,                    \* counters of the bounds
    acked                               \* history: records whose append returned success

memory == <<records, last_sequence, last_record_digest, records_since_compaction>>
vars == <<snapshot, journal, pc, memory, handle, appending, next_id, faults, acked>>

\* No process, one that found a snapshot it refuses, one between two calls, or
\* one inside compact_locked about to replace a file or to reopen the journal.
Pcs == {"down", "refused", "idle", "snapshot", "journal", "reopen"}

Fences(recs) == Cardinality({i \in DOMAIN recs : recs[i].kind = "fence"})
LastDigest(recs) == IF recs = << >> THEN ZeroDigest ELSE recs[Len(recs)].id

(***************************************************************************)
(* Recovery                                                                *)
(***************************************************************************)
SnapshotRecords == IF snapshot = NoFile THEN << >> ELSE snapshot.records
SnapshotSequence == IF snapshot = NoFile THEN 0 ELSE snapshot.sequence

\* The hash chain of the snapshot, checked from the zero digest.
SnapshotChained ==
    \A i \in DOMAIN SnapshotRecords :
        SnapshotRecords[i].prev = LastDigest(SubSeq(SnapshotRecords, 1, i - 1))

\* The journal replay: stops for good at a record that is torn, breaks the
\* chain or is out of sequence, and skips one the snapshot covers.
\* Mutant: every record with good checksums is taken.
ReplayEverything ==
    LET whole == SelectSeq(journal, LAMBDA r : r # Torn)
        all == SnapshotRecords \o whole
    IN  [records |-> all, last |-> SnapshotSequence + Len(whole),
         prev |-> LastDigest(all), kept |-> Len(journal), stopped |-> FALSE]

\* The n-th record r of the journal, after a replay that has come to s.
ReplayOne(s, r, n, covered) ==
    IF s.stopped \/ r = Torn \/ (r # Torn /\ r.prev # s.prev)
    THEN [s EXCEPT !.stopped = TRUE]
    ELSE IF r.sequence <= covered
    THEN [s EXCEPT !.prev = r.id, !.kept = n]
    ELSE IF r.sequence # s.last + 1
    THEN [s EXCEPT !.stopped = TRUE]
    ELSE [records |-> Append(s.records, r), last |-> r.sequence,
          prev |-> r.id, kept |-> n, stopped |-> FALSE]

NothingReplayed(recs, covered) ==
    [records |-> recs, last |-> covered, prev |-> LastDigest(recs), kept |-> 0, stopped |-> FALSE]

ReplaySteps(recs, covered, entries) ==
    LET after[n \in 0 .. Len(entries)] ==
          IF n = 0 THEN NothingReplayed(recs, covered)
          ELSE ReplayOne(after[n - 1], entries[n], n, covered)
    IN  after

Replay == ReplaySteps(SnapshotRecords, SnapshotSequence, journal)[Len(journal)]

\* open: a snapshot that fails a check is refused; otherwise the journal is cut
\* after its last good record and opened for appending.
\* Mutant: the journal is not cut after its last good record.
OpenUncut ==
    /\ pc = "down"
    /\ pc' = "idle"
    /\ records' = Replay.records
    /\ last_sequence' = Replay.last
    /\ last_record_digest' = LastDigest(Replay.records)
    /\ records_since_compaction' = Len(Replay.records)
    /\ handle' = TRUE
    /\ UNCHANGED <<snapshot, journal, appending, next_id, faults, acked>>

Open ==
    /\ pc = "down"
    /\ pc' = IF SnapshotChained THEN "idle" ELSE "refused"
    /\ IF SnapshotChained
       THEN /\ journal' = SubSeq(journal, 1, Replay.kept)
            /\ records' = Replay.records
            /\ last_sequence' = Replay.last
            /\ last_record_digest' = LastDigest(Replay.records)
            /\ records_since_compaction' = Len(Replay.records)
            /\ handle' = TRUE
       ELSE UNCHANGED <<journal, memory, handle>>
    /\ UNCHANGED <<snapshot, appending, next_id, faults, acked>>

(***************************************************************************)
(* The end of the process, in a crash or through close.                    *)
(***************************************************************************)
Gone ==
    /\ pc' = "down"
    /\ records' = << >> /\ last_sequence' = 0 /\ last_record_digest' = ZeroDigest
    /\ records_since_compaction' = 0
    /\ handle' = FALSE
    /\ appending' = ZeroDigest

Crash ==
    /\ pc \notin {"down", "refused"}
    /\ Gone
    /\ UNCHANGED <<snapshot, journal, next_id, faults, acked>>

(***************************************************************************)
(* append                                                                  *)
(***************************************************************************)
NewRecord(kind) ==
    [kind |-> kind, sequence |-> last_sequence + 1, prev |-> last_record_digest, id |-> next_id]

\* The guards of append; a call they refuse changes nothing.
Appendable == pc = "idle" /\ handle /\ Len(records) < MaxRecords /\ next_id <= MaxAppends

Fault == faults < MaxFaults /\ faults' = faults + 1

\* The write or the flush fails.  Nothing is undone: bytes that reached the
\* file stay, and the next append writes behind them.
AppendFails(kind) ==
    /\ Appendable /\ Fault
    /\ journal' \in {journal, Append(journal, Torn), Append(journal, NewRecord(kind))}
    /\ next_id' = next_id + 1
    /\ UNCHANGED <<snapshot, pc, memory, handle, appending, acked>>

\* The process dies within the write, or before the call returns.
AppendCrashes(kind) ==
    /\ Appendable
    /\ journal' \in {Append(journal, Torn), Append(journal, NewRecord(kind))}
    /\ next_id' = next_id + 1
    /\ Gone
    /\ UNCHANGED <<snapshot, faults, acked>>

\* The record is written.  A fence beyond the bound is an error from here on,
\* with the chain already advanced past it.  When a compaction is due the call
\* goes on with it.
AppendRecord(kind) ==
    LET overFences == kind = "fence" /\ Fences(records) >= MaxFences
        due == records_since_compaction + 1 >= CompactAfter
    IN  /\ Appendable
        /\ journal' = Append(journal, NewRecord(kind))
        /\ last_sequence' = last_sequence + 1
        /\ last_record_digest' = next_id
        /\ records_since_compaction' = records_since_compaction + 1
        /\ next_id' = next_id + 1
        /\ records' = IF overFences THEN records ELSE Append(records, NewRecord(kind))
        /\ pc' = IF due /\ ~overFences THEN "snapshot" ELSE "idle"
        /\ appending' = IF due /\ ~overFences THEN next_id ELSE ZeroDigest
        /\ acked' = IF due \/ overFences THEN acked ELSE acked \cup {next_id}
        /\ UNCHANGED <<snapshot, handle, faults>>

(***************************************************************************)
(* compact and compact_locked                                              *)
(***************************************************************************)
Compact ==
    /\ pc = "idle"
    /\ pc' = "snapshot"
    /\ UNCHANGED <<snapshot, journal, memory, handle, appending, next_id, faults, acked>>

\* A step of compact_locked fails and so does the call it is part of.
GiveUp ==
    /\ Fault
    /\ pc' = "idle"
    /\ appending' = ZeroDigest
    /\ UNCHANGED <<snapshot, memory, next_id, acked>>

\* Mutant: the snapshot is one sequence number behind.
ReplaceSnapshotBehind ==
    /\ pc = "snapshot"
    /\ snapshot' = [sequence |-> IF last_sequence = 0 THEN 0 ELSE last_sequence - 1,
                    records |-> records]
    /\ pc' = "journal"
    /\ UNCHANGED <<journal, memory, handle, appending, next_id, faults, acked>>

ReplaceSnapshot ==
    /\ pc = "snapshot"
    /\ \/ GiveUp /\ UNCHANGED <<journal, handle>>
       \/ /\ snapshot' = [sequence |-> last_sequence, records |-> records]
          /\ pc' = "journal"
          /\ UNCHANGED <<journal, memory, handle, appending, next_id, faults, acked>>

\* The journal is closed first, and stays closed if its replacement fails.
ResetJournal ==
    /\ pc = "journal"
    /\ handle' = FALSE
    /\ \/ GiveUp /\ UNCHANGED journal
       \/ /\ journal' = << >>
          /\ pc' = "reopen"
          /\ UNCHANGED <<snapshot, memory, appending, next_id, faults, acked>>

Reopen ==
    /\ pc = "reopen"
    /\ \/ GiveUp /\ UNCHANGED <<journal, handle>>
       \/ /\ handle' = TRUE
          /\ records_since_compaction' = 0
          /\ pc' = "idle"
          /\ acked' = IF appending = ZeroDigest THEN acked ELSE acked \cup {appending}
          /\ appending' = ZeroDigest
          /\ UNCHANGED <<snapshot, journal, records, last_sequence, last_record_digest,
                         next_id, faults>>

(***************************************************************************)
(* Specification                                                           *)
(***************************************************************************)
Init ==
    /\ snapshot = NoFile /\ journal = << >>
    /\ pc = "down"
    /\ records = << >> /\ last_sequence = 0 /\ last_record_digest = ZeroDigest
    /\ records_since_compaction = 0
    /\ handle = FALSE
    /\ appending = ZeroDigest
    /\ next_id = 1 /\ faults = 0
    /\ acked = {}

Next ==
    \/ Open
    \/ Crash
    \/ \E kind \in Kinds : AppendFails(kind) \/ AppendCrashes(kind) \/ AppendRecord(kind)
    \/ Compact
    \/ ReplaceSnapshot
    \/ ResetJournal
    \/ Reopen

Spec == Init /\ [][Next]_vars

(***************************************************************************)
(* Properties                                                              *)
(***************************************************************************)
RecoverableIds == [i \in DOMAIN Replay.records |-> Replay.records[i].id]
Recoverable(x) == \E i \in DOMAIN RecoverableIds : RecoverableIds[i] = x

\* append: "a caller must never observe a successful return for a record that
\* would not survive the failure boundary".  With no failed write this holds
\* through torn writes, compactions cut short and repeated crashes; a failed
\* write breaks it.
AckedRecoverable ==
    /\ SnapshotChained
    /\ \A x \in acked : Recoverable(x)

\* What a restart recovers is a chain in the order of the appends, whatever
\* file operations failed before: sequence numbers run from 1 without a gap
\* and every record names its predecessor, so bytes left behind are never
\* taken for state.
RecoveredChained ==
    /\ SnapshotChained
    /\ \A i \in DOMAIN Replay.records :
          /\ Replay.records[i].sequence = i
          /\ Replay.records[i].prev = LastDigest(SubSeq(Replay.records, 1, i - 1))

\* The records callers read, and whether the next append would be recovered
\* with them.  After the snapshot is replaced the journal does not matter until
\* it is open again.
ReadIds == IF pc = "down" THEN RecoverableIds ELSE [i \in DOMAIN records |-> records[i].id]
Intact ==
    \/ pc = "down"
    \/ /\ RecoverableIds = ReadIds
       /\ handle /\ pc # "journal" => ~Replay.stopped

\* An acknowledged record that a restart would bring back is brought back by
\* every later restart, through failed writes, compactions cut short at any
\* file operation and repeated crashes; and a record acknowledged while no
\* left-over bytes are in the way is one of those.
AckedStaysRecoverable ==
    [][\A x \in acked' :
         (IF x \in acked THEN Recoverable(x) ELSE Intact) => Recoverable(x)']_vars

\* The repository can always be opened again ("Every crash window is
\* recoverable").
NeverRefused == pc # "refused"

\* The repository implements the abstract log: what callers read and what a
\* restart would recover part only in a file operation that fails, and meet
\* again in a compaction or a restart; nothing else loses, adds or reorders a
\* record.
Log == INSTANCE DurableLog WITH log <- ReadIds, durable <- RecoverableIds, intact <- Intact
ImplementsLog == Log!LogSpec
===============================================================================
