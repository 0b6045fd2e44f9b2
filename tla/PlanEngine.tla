------------------------------ MODULE PlanEngine ------------------------------
(***************************************************************************)
(* The planning engine (engine.cpp) with the plan lifecycle (plan.cpp) and *)
(* the durable log as the engine uses it.                                  *)
(*                                                                         *)
(* Every public method holds the one engine mutex for its whole body, so a *)
(* method is one action, whichever thread calls it.  What is NOT atomic is *)
(* a method against the disk: it may append several records, any append    *)
(* may fail, and the process may die between two of them.  Each mutating   *)
(* action therefore has three outcomes: every append is done and the call  *)
(* returns; an append reports a failure and the call returns an error with *)
(* what the method had already changed in memory; the process dies and a   *)
(* new engine recovers from what had reached the disk.                     *)
(*                                                                         *)
(* Abstractions.  A log is its latest record per plan identity, the only   *)
(* part recovery reads.  An allocation is the set of evaluation            *)
(* ticks at which verify_allocation accepts it: the tick is the one part   *)
(* of a snapshot that its authority vector does not bind.  A commit        *)
(* identity with its generation is one value.  The plan generation is      *)
(* always first(), so a reference with another one is only ever refused.   *)
(* Calls that are refused without a change of state are stuttering steps.  *)
(***************************************************************************)
EXTENDS Authority, FiniteSets

CONSTANTS
    PlanIds,        \* plan identities, in std::map order
    Snapshots,      \* the fabric snapshots that can be submitted
    Requests,       \* declare requests: [allow_degraded, has_incumbent]
    CommitIds,      \* commit identities clients may present
    MaxPlans,       \* EngineConfig::max_records
    MaxLineageDepth,\* Limits::max_lineage_depth
    MaxFaults,      \* bound on the appends that report a failure
    NoSnapshot, NoCommit, NoPlan

ASSUME PlanIdsAssumption == PlanIds \subseteq Nat /\ NoPlan \notin PlanIds
\* validate_structure refuses a snapshot with an absent generation or
\* reference, and the policy is part of the bound content.
ASSUME SnapshotsAssumption ==
    /\ NoSnapshot \notin Snapshots
    /\ \A s \in Snapshots : IsVector(s.authority) /\ valid(s.authority)
    /\ \A s, t \in Snapshots : s.authority = t.authority =>
            s.allow_degraded_commit = t.allow_degraded_commit
ASSUME RequestsAssumption ==
    Requests \subseteq [allow_degraded : BOOLEAN, has_incumbent : BOOLEAN]
ASSUME FaultsAssumption == MaxFaults \in Nat /\ NoCommit \notin CommitIds
ASSUME DepthAssumption == MaxLineageDepth \in Nat \ {0}

VARIABLES
    plans,      \* Impl::plans; a plan that is not in the map has state "absent"
    pending,    \* Impl::pending, the declare request of each plan
    live,       \* Impl::snapshot with Impl::live; NoSnapshot is live_valid = false
    incumbent,  \* Impl::incumbent
    log,        \* PlanRepository's records in memory, the latest of each plan
    durable,    \* the records a restart would recover, the latest of each plan
    intact,     \* FALSE: a failed append left bytes in the journal, which end
                \* what recovery reads of it
    faults,     \* the number of appends that have reported a failure
    acked       \* history: <<plan, commit>> pairs a commit call answered with success

disk == <<log, durable, intact>>
vars == <<plans, pending, live, incumbent, disk, faults, acked>>

(***************************************************************************)
(* Plan lifecycle (plan.cpp)                                               *)
(***************************************************************************)
LiveStates == {"declared", "validated", "solving", "proposed", "degraded", "authorized"}
TerminalStates == {"rejected", "retired"}
States == LiveStates \cup TerminalStates \cup {"committed", "superseded", "stale"}
Applicabilities ==
    {"not_evaluated", "current", "revalidation_required", "stale", "superseded", "retired"}
ChurnDecisions == {"no_incumbent", "accept", "hold_incumbent", "reject_regression"}

can_transition(from, to) ==
    \/ from = "declared" /\ to \in {"validated", "rejected", "stale"}
    \/ from = "validated" /\ to \in {"solving", "rejected", "stale"}
    \/ from = "solving" /\ to \in {"proposed", "degraded", "rejected", "stale"}
    \/ from \in {"proposed", "degraded"} /\ to \in {"authorized", "rejected", "stale"}
    \/ from = "authorized" /\ to \in {"committed", "rejected", "stale"}
    \/ from = "committed" /\ to \in {"superseded", "stale", "retired"}
    \/ from = "superseded" /\ to \in {"retired", "stale"}
    \/ from = "stale" /\ to = "retired"

Ticks == {s.tick : s \in Snapshots}
Authorities == {s.authority : s \in Snapshots}

Plans ==
    [state : States, applicability : Applicabilities, authority : Authorities,
     fits : SUBSET Ticks, churn : ChurnDecisions, commit : CommitIds \cup {NoCommit},
     supersedes : PlanIds \cup {NoPlan}, superseded_by : PlanIds \cup {NoPlan}]

Absent == [state |-> "absent"]
Known(p) == plans[p] # Absent

(***************************************************************************)
(* Recovery: recover_from_repository on a new engine.                      *)
(***************************************************************************)
\* Mutant: recovery restores the records as they are.
RecoveredAsStored(record) == record

Recovered(record) ==
    IF record = Absent THEN Absent
    ELSE IF record.state \in LiveStates
         THEN [record EXCEPT !.state = "stale", !.applicability = "stale"]
         ELSE [record EXCEPT !.applicability = "revalidation_required"]

\* The last committed plan in identity order becomes the incumbent.
LastCommitted(records) ==
    LET last == {p \in PlanIds :
                   /\ records[p].state = "committed"
                   /\ \A q \in PlanIds : records[q].state = "committed" => q <= p}
    IN  IF last = {} THEN NoPlan ELSE CHOOSE p \in last : TRUE

NoRequest == [allow_degraded |-> FALSE, has_incumbent |-> FALSE]

\* The process is gone; its successor opened the repository, which cuts the
\* journal after its last good record, and recovered.  No snapshot is live.
Restarted ==
    /\ plans' = [p \in PlanIds |-> Recovered(durable'[p])]
    /\ incumbent' = LastCommitted(durable')
    /\ live' = NoSnapshot
    /\ pending' = [p \in PlanIds |-> NoRequest]
    /\ log' = durable' /\ intact' = TRUE
    /\ UNCHANGED <<faults, acked>>

Restart == UNCHANGED durable /\ Restarted

(***************************************************************************)
(* The durable log as its caller sees it.  w is the set of plans whose     *)
(* records, taken from `next`, a method has appended so far.  An append    *)
(* behind left-over bytes succeeds but cannot be recovered, until an       *)
(* append compacts the journal (compact_locked writes out every record in  *)
(* memory).                                                                *)
(***************************************************************************)
Logged(next, w) == [p \in PlanIds |-> IF p \in w THEN next[p] ELSE log[p]]

Recoverable(next, w) ==
    (IF intact \/ w # {} THEN {Logged(next, w)} ELSE {}) \cup (IF intact THEN {} ELSE {durable})

Appended(next, w) ==
    /\ log' = Logged(next, w)
    /\ \/ intact' = intact /\ durable' = IF intact THEN log' ELSE durable
       \/ intact' = TRUE /\ durable' = log' /\ w # {}

\* The appends of w succeeded and the next one, which makes w into v, reports
\* a failure: nothing reached the file; or the record did and the compaction
\* it set off failed; or bytes are left behind, some or all of the record.
AppendFailed(next, w, v) ==
    /\ faults < MaxFaults /\ faults' = faults + 1
    /\ \/ Appended(next, w)
       \/ Appended(next, v)
       \/ /\ log' = Logged(next, w) /\ intact' = FALSE
          /\ \/ durable' \in Recoverable(next, w)
             \/ (intact \/ w # {}) /\ durable' = Logged(next, v)

Crashed(next, w) == durable' \in Recoverable(next, w) /\ Restarted

(***************************************************************************)
(* The three outcomes of a method that changed its plans to `next` and the *)
(* incumbent to `inc`, then appends the plans of `first` (none or one) and *)
(* of `second`, and acknowledges `ack` when it succeeds.                   *)
(***************************************************************************)
\* Mutant: the plan itself is appended before the one it displaces.
MutateReversed(next, inc, first, second, ack) ==
    \/ /\ Appended(next, first \cup second)
       /\ plans' = next /\ incumbent' = inc
       /\ acked' = acked \cup ack
       /\ UNCHANGED <<pending, live, faults>>
    \/ \E w \in {{}, second} : Crashed(next, w)
\* Mutant: when a plan is displaced, only its record is appended.
MutateFirstOnly(next, inc, first, second, ack) ==
    /\ Appended(next, IF first = {} THEN second ELSE first)
    /\ plans' = next /\ incumbent' = inc
    /\ acked' = acked \cup ack
    /\ UNCHANGED <<pending, live, faults>>

Mutate(next, inc, first, second, ack) ==
    \/ /\ Appended(next, first \cup second)
       /\ plans' = next /\ incumbent' = inc
       /\ acked' = acked \cup ack
       /\ UNCHANGED <<pending, live, faults>>
    \/ /\ AppendFailed(next, {}, first) \/ AppendFailed(next, first, first \cup second)
       /\ plans' = next /\ incumbent' = inc
       /\ UNCHANGED <<pending, live, acked>>
    \/ \E w \in {{}, first} : Crashed(next, w)

MutateOne(p, plan) ==
    Mutate([plans EXCEPT ![p] = plan], incumbent, {}, {p}, {})

MakeStale(plan) == [plan EXCEPT !.state = "stale", !.applicability = "stale"]
\* Mutant: the reference to the successor is not recorded.
MakeSupersededUnlinked(plan, by) ==
    [plan EXCEPT !.state = "superseded", !.applicability = "superseded"]
MakeSuperseded(plan, by) ==
    [plan EXCEPT !.state = "superseded", !.applicability = "superseded", !.superseded_by = by]
Solved(plan, state, fits, churn) ==
    [plan EXCEPT !.state = state, !.fits = fits, !.churn = churn]
Delta(p) == compare_authority(plans[p].authority, live.authority)

(***************************************************************************)
(* Operations                                                              *)
(***************************************************************************)
\* submit_snapshot: the snapshot is live before any plan is looked at, then
\* plans are demoted and appended one by one; a failing append ends the loop.
\* Mutant: committed plans are left alone.
MovedLive(s) ==
    {p \in PlanIds : /\ plans[p].state \in LiveStates
                     /\ ~identical(compare_authority(plans[p].authority, s.authority))}
Moved(s) ==
    {p \in PlanIds : /\ plans[p].state \in LiveStates \cup {"committed"}
                     /\ ~identical(compare_authority(plans[p].authority, s.authority))}
Demoted(ps) == [p \in PlanIds |-> IF p \in ps THEN MakeStale(plans[p]) ELSE plans[p]]

SubmitSnapshot(s) ==
    LET moved == Moved(s)
        UpTo(last) == {p \in moved : p <= last}
        Before(last) == {p \in moved : p < last}
    IN  \/ /\ live' = s
           /\ plans' = Demoted(moved)
           /\ Appended(Demoted(moved), moved)
           /\ UNCHANGED <<pending, incumbent, faults, acked>>
        \/ \E last \in moved :
             \/ /\ live' = s
                /\ plans' = Demoted(UpTo(last))
                /\ AppendFailed(Demoted(moved), Before(last), UpTo(last))
                /\ UNCHANGED <<pending, incumbent, acked>>
             \/ Crashed(Demoted(moved), Before(last))

\* declare: the only method that appends before it touches memory.
Declare(p, request) ==
    LET plan == [state |-> "declared", applicability |-> "not_evaluated",
                 authority |-> live.authority, fits |-> {}, churn |-> "no_incumbent",
                 commit |-> NoCommit, supersedes |-> NoPlan, superseded_by |-> NoPlan]
        next == [plans EXCEPT ![p] = plan]
    IN  /\ live # NoSnapshot
        /\ Cardinality({q \in PlanIds : Known(q)}) < MaxPlans
        /\ ~Known(p)
        /\ \/ /\ Appended(next, {p})
              /\ plans' = next
              /\ pending' = [pending EXCEPT ![p] = request]
              /\ UNCHANGED <<live, incumbent, faults, acked>>
           \/ /\ AppendFailed(next, {}, {p})
              /\ UNCHANGED <<plans, pending, live, incumbent, acked>>
           \/ Crashed(next, {p})

\* validate.  The branch for a missing snapshot cannot be reached: see
\* HistoryIsNotAuthority below.
Validate(p) ==
    /\ Known(p) /\ can_transition(plans[p].state, "validated")
    /\ live # NoSnapshot
    /\ MutateOne(p, IF identical(Delta(p))
                    THEN [plans[p] EXCEPT !.state = "validated", !.applicability = "current"]
                    ELSE MakeStale(plans[p]))

\* solve: VALIDATED to SOLVING and out of it in one call.  The outcome is
\* the solver's: an error, a verified allocation, or a rejection.
Solve(p) ==
    LET request == pending[p]
        churns == IF request.has_incumbent THEN ChurnDecisions ELSE {plans[p].churn}
        held == IF request.has_incumbent THEN "hold_incumbent" ELSE plans[p].churn
    IN  /\ Known(p) /\ can_transition(plans[p].state, "solving")
        /\ live # NoSnapshot
        /\ \/ ~identical(Delta(p)) /\ MutateOne(p, MakeStale(plans[p]))
           \/ /\ identical(Delta(p))
              /\ \/ MutateOne(p, [plans[p] EXCEPT !.state = "rejected",
                                                  !.applicability = "not_evaluated"])
                 \/ MutateOne(p, Solved(plans[p], "rejected", {}, held))
                 \/ \E state \in {"proposed"} \cup (IF request.allow_degraded THEN {"degraded"} ELSE {}),
                       fits \in {f \in SUBSET Ticks : live.tick \in f}, churn \in churns :
                         MutateOne(p, Solved(plans[p], state, fits, churn))

\* authorize
Authorize(p) ==
    /\ Known(p) /\ can_transition(plans[p].state, "authorized")
    /\ live # NoSnapshot
    /\ \/ stale(Delta(p)) /\ MutateOne(p, MakeStale(plans[p]))
       \/ /\ ~stale(Delta(p)) /\ contradictory(Delta(p))
          /\ MutateOne(p, [plans[p] EXCEPT !.state = "rejected"])
       \/ /\ identical(Delta(p))
          /\ plans[p].state = "degraded" /\ ~live.allow_degraded_commit
          /\ MutateOne(p, [plans[p] EXCEPT !.state = "rejected"])
       \/ /\ identical(Delta(p))
          /\ plans[p].state = "degraded" => live.allow_degraded_commit
          /\ plans[p].churn \notin {"hold_incumbent", "reject_regression"}
          /\ MutateOne(p, [plans[p] EXCEPT !.state = "authorized", !.applicability = "current"])

\* commit, the exact replay of a commit already applied in memory.
\* Mutant: any commit of a committed plan counts as its replay.
CommitReplayAny(p, c) ==
    /\ plans[p].state = "committed"
    /\ acked' = acked \cup {<<p, c>>}
    /\ UNCHANGED <<plans, pending, live, incumbent, disk, faults>>

CommitReplay(p, c) ==
    /\ plans[p].state = "committed"
    /\ plans[p].commit = c
    /\ acked' = acked \cup {<<p, c>>}
    /\ UNCHANGED <<plans, pending, live, incumbent, disk, faults>>

\* The committed plan a commit of p displaces: the incumbent, if it still is.
Previous(p) ==
    {q \in PlanIds : q = incumbent /\ q # p /\ plans[q].state = "committed"}

\* Mutant: the lifecycle is trusted; neither the authority the plan is bound to
\* nor the allocation is looked at again.
CommitUngated(p, c) ==
    LET previous == Previous(p)
        next == [q \in PlanIds |->
                   IF q = p THEN [plans[p] EXCEPT !.state = "committed", !.commit = c]
                   ELSE IF q \in previous THEN MakeSuperseded(plans[q], p) ELSE plans[q]]
    IN  /\ Known(p) /\ can_transition(plans[p].state, "committed") /\ live # NoSnapshot
        /\ Mutate(next, p, previous, {p}, {<<p, c>>})

Commit(p, c) ==
    LET previous == Previous(p)
        next == [q \in PlanIds |->
                   IF q = p
                   THEN [plans[p] EXCEPT !.state = "committed", !.applicability = "current",
                                         !.commit = c,
                                         !.supersedes = IF previous = {} THEN @ ELSE incumbent]
                   ELSE IF q \in previous
                   THEN MakeSuperseded(plans[q], p)
                   ELSE plans[q]]
    IN  /\ Known(p) /\ can_transition(plans[p].state, "committed")
        /\ live # NoSnapshot
        /\ \/ stale(Delta(p)) /\ MutateOne(p, MakeStale(plans[p]))
           \/ /\ ~stale(Delta(p)) /\ contradictory(Delta(p))
              /\ MutateOne(p, [plans[p] EXCEPT !.state = "rejected"])
           \/ /\ identical(Delta(p)) /\ live.tick \notin plans[p].fits
              /\ MutateOne(p, [plans[p] EXCEPT !.state = "rejected"])
           \/ /\ identical(Delta(p)) /\ live.tick \in plans[p].fits
              /\ Mutate(next, p, previous, {p}, {<<p, c>>})

\* supersede: the walk over the supersedes references of the replacement,
\* cut at MaxLineageDepth.
Lineage(p) ==
    LET walk[n \in 0 .. MaxLineageDepth - 1] ==
          IF n = 0 THEN plans[p].supersedes
          ELSE IF walk[n - 1] = NoPlan \/ ~Known(walk[n - 1]) THEN NoPlan
               ELSE plans[walk[n - 1]].supersedes
    IN  walk

\* Mutant: neither the two plans nor the lineage are compared.
SupersedeUnchecked(old, by) ==
    /\ plans[old].state = "committed" /\ plans[by].state = "committed"
    /\ Mutate([plans EXCEPT ![old] = MakeSuperseded(@, by), ![by].supersedes = old],
              incumbent, {old}, {by}, {})

Supersede(old, by) ==
    LET next == [plans EXCEPT ![old] = MakeSuperseded(plans[old], by),
                              ![by] = [plans[by] EXCEPT !.supersedes = old]]
    IN  /\ plans[old].state = "committed" /\ plans[by].state = "committed"
        /\ old # by
        /\ \A n \in 0 .. MaxLineageDepth - 1 : Lineage(by)[n] # old
        /\ Lineage(by)[MaxLineageDepth - 1] \notin {q \in PlanIds : Known(q)}
        /\ Mutate(next, incumbent, {old}, {by}, {})

\* mark_stale
\* Mutants: the lifecycle is not consulted; the demotion is not appended.
MarkStaleAny(p) == Known(p) /\ MutateOne(p, MakeStale(plans[p]))
MarkStaleUnlogged(p) ==
    /\ Known(p) /\ can_transition(plans[p].state, "stale")
    /\ plans' = [plans EXCEPT ![p] = MakeStale(plans[p])]
    /\ UNCHANGED <<pending, live, incumbent, disk, faults, acked>>

MarkStale(p) ==
    /\ Known(p) /\ can_transition(plans[p].state, "stale")
    /\ MutateOne(p, MakeStale(plans[p]))

\* retire
\* Mutant: neither the plan nor its state is looked at.
RetireAny(p) ==
    Mutate([plans EXCEPT ![p] = [plans[p] EXCEPT !.state = "retired", !.applicability = "retired"]],
           IF incumbent = p THEN NoPlan ELSE incumbent, {}, {p}, {})

Retire(p) ==
    /\ Known(p) /\ can_transition(plans[p].state, "retired")
    /\ Mutate([plans EXCEPT ![p] = [plans[p] EXCEPT !.state = "retired",
                                                     !.applicability = "retired"]],
              IF incumbent = p THEN NoPlan ELSE incumbent, {}, {p}, {})

\* revalidate: only the demotion of a committed plan is appended.
Revalidate(p) ==
    /\ Known(p)
    /\ live # NoSnapshot
    /\ \/ /\ identical(Delta(p))
          /\ plans' = [plans EXCEPT ![p].applicability = "current"]
          /\ UNCHANGED <<pending, live, incumbent, disk, faults, acked>>
       \/ /\ ~identical(Delta(p)) /\ plans[p].state # "committed"
          /\ plans' = [plans EXCEPT ![p].applicability = "stale"]
          /\ UNCHANGED <<pending, live, incumbent, disk, faults, acked>>
       \/ /\ ~identical(Delta(p)) /\ plans[p].state = "committed"
          /\ MutateOne(p, MakeStale(plans[p]))

(***************************************************************************)
(* Specification                                                           *)
(***************************************************************************)
Init ==
    /\ plans = [p \in PlanIds |-> Absent]
    /\ pending = [p \in PlanIds |-> NoRequest]
    /\ live = NoSnapshot
    /\ incumbent = NoPlan
    /\ log = [p \in PlanIds |-> Absent]
    /\ durable = log /\ intact = TRUE
    /\ faults = 0
    /\ acked = {}

Next ==
    \/ \E s \in Snapshots : SubmitSnapshot(s)
    \/ \E p \in PlanIds : \/ \E r \in Requests : Declare(p, r)
                          \/ Validate(p)
                          \/ Solve(p)
                          \/ Authorize(p)
                          \/ \E c \in CommitIds : Commit(p, c) \/ CommitReplay(p, c)
                          \/ \E q \in PlanIds : Supersede(p, q)
                          \/ MarkStale(p)
                          \/ Retire(p)
                          \/ Revalidate(p)
    \/ Restart

Spec == Init /\ [][Next]_vars

(***************************************************************************)
(* Properties                                                              *)
(***************************************************************************)
\* Every variable has its type.
TypeOK ==
    /\ plans \in [PlanIds -> Plans \cup {Absent}]
    /\ pending \in [PlanIds -> [allow_degraded : BOOLEAN, has_incumbent : BOOLEAN]]
    /\ live \in Snapshots \cup {NoSnapshot}
    /\ incumbent \in PlanIds \cup {NoPlan}
    /\ log \in [PlanIds -> Plans \cup {Absent}]
    /\ durable \in [PlanIds -> Plans \cup {Absent}]
    /\ intact \in BOOLEAN
    /\ faults \in 0 .. MaxFaults
    /\ acked \subseteq PlanIds \X CommitIds

\* Recovery restores history, never authority (recover_from_repository): while
\* no snapshot is live no plan is advancing towards commit and none is CURRENT.
\* This is also why the branches of validate, solve, authorize and commit for
\* a missing snapshot are never taken.
HistoryIsNotAuthority ==
    live = NoSnapshot =>
        \A p \in PlanIds : Known(p) => /\ plans[p].state \notin LiveStates
                                      /\ plans[p].applicability # "current"

\* The gate in commit: whatever snapshots, failed demotions and restarts came
\* before, a plan enters COMMITTED only while the exact authority it was bound
\* to is live and its allocation verifies against the live snapshot.
CommitUnderLiveAuthority ==
    [][\A p \in PlanIds :
         (plans[p].state # "committed" /\ plans'[p].state = "committed" /\ live' # NoSnapshot)
           => /\ live # NoSnapshot
              /\ plans[p].authority = live.authority
              /\ live.tick \in plans[p].fits]_vars

\* Duplicate commit frames (commit): clients are never told of two different
\* commits of one plan, through replays, lost records and restarts alike.
OneCommitPerPlan ==
    \A a, b \in acked : a[1] = b[1] => a[2] = b[2]

\* The supersession lineage (commit, supersede) never closes on itself: no
\* set of plans is superseded only from within.
LineageAcyclic ==
    \A S \in (SUBSET PlanIds) \ {{}} :
        \E p \in S : Known(p) => plans[p].superseded_by \notin S

\* submit_snapshot demotes every plan the new inputs leave behind: a plan that
\* is advancing or committed is bound to exactly what is live.
BoundToLive ==
    live # NoSnapshot =>
        \A p \in PlanIds :
            plans[p].state \in LiveStates \cup {"committed"} => plans[p].authority = live.authority

\* There is one plan of record: a committed plan is the incumbent, in memory
\* and in what a restart at this moment would recover, even between the two
\* appends of a commit that displaces another plan.
OneCommitted ==
    /\ \A p \in PlanIds : plans[p].state = "committed" => incumbent = p
    /\ \A p, q \in PlanIds :
          durable[p].state = "committed" /\ durable[q].state = "committed" => p = q

\* What a restart makes of a plan or of its record, applicability aside.
Fact(r) ==
    IF r = Absent THEN r
    ELSE [Recovered(r) EXCEPT !.applicability = "revalidation_required"]

\* No mutation skips the log: a restart between two calls forgets no plan, no
\* transition, no commit and no lineage a reader could have seen.
RestartForgetsNothing ==
    \A p \in PlanIds : Fact(plans[p]) = Fact(durable[p])

\* A commit that was acknowledged stays on disk as a historical fact ("no
\* commit is acknowledged before its durable record is written").
AckedCommitsDurable ==
    \A a \in acked :
        /\ durable[a[1]] # Absent
        /\ durable[a[1]].commit = a[2]
        /\ durable[a[1]].state \in {"committed", "superseded", "stale", "retired"}

\* Every change of a plan's state, restarts included, is a step of the
\* lifecycle of plan.cpp (SOLVING being entered and left within solve).
LifecycleOnly ==
    [][\A p \in PlanIds :
         LET from == plans[p].state
             to == plans'[p].state
         IN  \/ from = to
             \/ from = "absent" /\ to \in {"declared", "stale"}
             \/ can_transition(from, to)
             \/ from = "validated" /\ can_transition("solving", to)]_vars

\* A superseded plan names its successor, and the successor names it back -
\* unless the process died between the two appends of the commit, which
\* leaves a successor that never committed.
SupersededHasSuccessor ==
    \A p \in PlanIds : plans[p].state = "superseded" =>
        LET q == plans[p].superseded_by
        IN  /\ q \in PlanIds /\ Known(q)
            /\ \/ plans[q].supersedes = p /\ plans[q].commit # NoCommit
               \/ plans[q].state \in {"stale", "retired"} /\ plans[q].commit = NoCommit

\* "a reader must never be told that a plan which no longer fits the live
\* fabric is current": a CURRENT plan is bound to the live authority and, once
\* committed, its allocation verifies against the live snapshot.
CurrentFitsLive ==
    \A p \in PlanIds : Known(p) /\ plans[p].applicability = "current" =>
        /\ live # NoSnapshot
        /\ plans[p].authority = live.authority
        /\ plans[p].state = "committed" => live.tick \in plans[p].fits
==============================================================================
