------------------------------ MODULE DurableLog ------------------------------
(***************************************************************************)
(* What PlanRepository gives its callers (persist.hpp), failed writes      *)
(* included: the records callers read, the records a restart would         *)
(* recover, and whether the two can part.  They do after a write that      *)
(* failed and left bytes behind: from then on appends are acknowledged     *)
(* that a restart would not recover, until a compaction.  Crashes,         *)
(* restarts and the steps of a compaction are otherwise invisible.  This   *)
(* is the disk of PlanEngine, with all records and not the latest of each  *)
(* plan.                                                                   *)
(***************************************************************************)
EXTENDS Naturals, Sequences

CONSTANT Ids        \* the records that may be written

VARIABLES
    log,            \* the records callers read, in order
    durable,        \* what a restart at this moment would recover, in order
    intact,         \* FALSE: a failed write has left bytes in the journal
    faults,         \* the number of file operations that have failed
    acked           \* the records whose append has returned success

logVars == <<log, durable, intact, faults, acked>>

Holds(records, x) == \E i \in 1 .. Len(records) : records[i] = x
With(x) == IF intact THEN {durable, Append(durable, x)} ELSE {durable}

\* An append that succeeds, at once or with the compaction it sets off.
Write(x) ==
    /\ ~Holds(log, x)
    /\ log' = Append(log, x)
    /\ durable' = IF intact THEN log' ELSE durable
    /\ acked' \in {acked, acked \cup {x}}
    /\ UNCHANGED <<intact, faults>>
Ack(x) == Holds(log, x) /\ acked' = acked \cup {x} /\ UNCHANGED <<log, durable, intact, faults>>

\* A file operation fails.  Nothing was written, or a piece or all of x was.
Fail(x) ==
    /\ faults' = faults + 1
    /\ intact' \in {intact, FALSE}
    /\ durable' \in IF intact' THEN {durable} ELSE With(x)
    /\ UNCHANGED <<log, acked>>

\* The snapshot file is replaced: everything callers read is recoverable.
Rewrite == durable' = log /\ intact' = TRUE /\ UNCHANGED <<log, faults, acked>>

\* The process is gone; x was being written.
Crash(x) ==
    /\ durable' \in With(x)
    /\ log' = durable' /\ intact' = TRUE
    /\ UNCHANGED <<faults, acked>>

LogInit == log = << >> /\ durable = << >> /\ intact = TRUE /\ faults = 0 /\ acked = {}
LogNext == Rewrite \/ \E x \in Ids : Write(x) \/ Ack(x) \/ Fail(x) \/ Crash(x)
LogSpec == LogInit /\ [][LogNext]_logVars
===============================================================================
