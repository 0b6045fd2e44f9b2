---------------------------- MODULE ServiceProofs ----------------------------
(***************************************************************************)
(* Proofs about PlanEngine and Service, for any plans, snapshots, requests *)
(* and commit identities, any number of connections and any workloads.     *)
(*                                                                         *)
(* The first part is about the engine alone.  The engine calls of the      *)
(* handlers are steps of PlanEngine, so everything that is proved of the   *)
(* engine holds under the handlers too: that is what the second part       *)
(* starts with (ServiceRunsEngine), and gives the facts about plans and    *)
(* records on which the facts about requests rest.                         *)
(***************************************************************************)
EXTENDS Service, SequenceTheorems, TLAPS

Records == Plans \cup {Absent}

(***************************************************************************)
(* Authority vectors                                                       *)
(***************************************************************************)

\* compare_authority skips absent generations and references, so it tells two
\* vectors apart only when both are valid; then `identical` is equality.
LEMMA IdenticalIsEqual ==
    ASSUME NEW x, NEW y, IsVector(x), IsVector(y), valid(x), valid(y),
           identical(compare_authority(x, y))
    PROVE  x = y
<1>1. /\ FieldsAdvanced(x, y) = {} /\ FieldsRegressed(x, y) = {}
      /\ FieldsConflicting(x, y) = {}
  BY DEF identical, compare_authority
<1>2. x.generation = y.generation
  <2>1. ASSUME NEW f \in GenerationFields PROVE x.generation[f] = y.generation[f]
    <3>1. x.generation[f] \in Nat /\ y.generation[f] \in Nat
      BY DEF IsVector
    <3>2. x.generation[f] > 0 /\ y.generation[f] > 0
      BY DEF valid
    <3>3. ~advanced(y.generation[f], x.generation[f]) /\ ~regressed(y.generation[f], x.generation[f])
      BY <1>1 DEF FieldsAdvanced, FieldsRegressed
    <3>4. QED
      BY <3>1, <3>2, <3>3 DEF advanced, regressed
  <2>2. QED
    BY <2>1 DEF IsVector
<1>3. x.ref = y.ref
  <2>1. ASSUME NEW r \in RefFields
        PROVE  x.ref[r].id = y.ref[r].id /\ x.ref[r].generation = y.ref[r].generation
    <3>1. x.ref[r].generation \in Nat /\ y.ref[r].generation \in Nat
      BY DEF IsVector
    <3>2. x.ref[r].generation > 0 /\ y.ref[r].generation > 0
          /\ RefPresent(x.ref[r]) /\ RefPresent(y.ref[r])
      BY DEF valid, RefPresent
    <3>3. ~advanced(y.ref[r].generation, x.ref[r].generation)
          /\ ~regressed(y.ref[r].generation, x.ref[r].generation)
      BY <1>1, <3>2 DEF FieldsAdvanced, FieldsRegressed
    <3>4. x.ref[r].id = y.ref[r].id
      BY <1>1, <3>2 DEF FieldsConflicting
    <3>5. QED
      BY <3>1, <3>2, <3>3, <3>4 DEF advanced, regressed
  <2>2. QED
    BY <2>1 DEF IsVector
<1>4. x.digest = y.digest
  <2>1. ASSUME NEW c \in ContentFields PROVE x.digest[c] = y.digest[c]
    BY <1>1 DEF FieldsConflicting
  <2>2. QED
    BY <2>1 DEF IsVector
<1>5. QED
  BY <1>2, <1>3, <1>4 DEF IsVector

\* The converse: a vector is identical to itself.
LEMMA EqualIsIdentical ==
    ASSUME NEW x, IsVector(x), valid(x)
    PROVE  identical(compare_authority(x, x))
BY DEF identical, compare_authority, FieldsAdvanced, FieldsRegressed, FieldsConflicting,
       advanced, regressed, RefPresent, IsVector, valid

\* What submit_snapshot accepts is valid, and so is every bound authority.
LEMMA AuthoritiesAreVectors ==
    ASSUME NEW x \in Authorities
    PROVE  IsVector(x) /\ valid(x)
BY SnapshotsAssumption DEF Authorities

(***************************************************************************)
(* Type correctness                                                        *)
(***************************************************************************)
LEMMA RecoveredType ==
    ASSUME NEW r \in Records
    PROVE  Recovered(r) \in Records
<1>1. CASE r = Absent
  BY <1>1 DEF Recovered, Records
<1>2. CASE r \in Plans
  BY <1>2 DEF Recovered, Records, Plans, Absent, States, Applicabilities
<1>3. QED
  BY <1>1, <1>2 DEF Records

\* The incumbent found by recovery is a plan identity or none.
LEMMA LastCommittedType ==
    ASSUME NEW records
    PROVE  LastCommitted(records) \in PlanIds \cup {NoPlan}
BY DEF LastCommitted

\* A restart from well-typed records leaves a well-typed state.
LEMMA RestartedType ==
    ASSUME TypeOK, durable' \in [PlanIds -> Records], Restarted
    PROVE  TypeOK'
<1>1. plans' \in [PlanIds -> Records]
  BY RecoveredType DEF Restarted
<1>2. incumbent' \in PlanIds \cup {NoPlan}
  BY LastCommittedType DEF Restarted
<1>3. QED
  BY <1>1, <1>2 DEF Restarted, TypeOK, Records, NoRequest

\* Adding the records of w to the log keeps its type.
LEMMA LoggedType ==
    ASSUME TypeOK, NEW next \in [PlanIds -> Records], NEW w
    PROVE  /\ Logged(next, w) \in [PlanIds -> Records]
           /\ Recoverable(next, w) \subseteq [PlanIds -> Records]
BY DEF Logged, Recoverable, TypeOK, Records

\* The log's own variables, and the count of failures, keep their types.
DiskOK ==
    /\ log \in [PlanIds -> Records]
    /\ durable \in [PlanIds -> Records]
    /\ intact \in BOOLEAN

\* Successful appends keep the type of the disk.
LEMMA AppendedType ==
    ASSUME TypeOK, NEW next \in [PlanIds -> Records], NEW w, Appended(next, w)
    PROVE  DiskOK'
<1>1. Logged(next, w) \in [PlanIds -> Records]
  BY LoggedType
<1>2. QED
  BY <1>1 DEF Appended, DiskOK, TypeOK, Records

\* A failed append keeps the type of the disk and the fault counter.
LEMMA AppendFailedType ==
    ASSUME TypeOK, NEW next \in [PlanIds -> Records], NEW w, NEW v, AppendFailed(next, w, v)
    PROVE  DiskOK' /\ faults' \in 0 .. MaxFaults
<1>1. faults' \in 0 .. MaxFaults
  BY FaultsAssumption DEF AppendFailed, TypeOK
<1>2. Logged(next, w) \in [PlanIds -> Records] /\ Logged(next, v) \in [PlanIds -> Records]
      /\ Recoverable(next, w) \subseteq [PlanIds -> Records]
  BY LoggedType
<1>3. DiskOK'
  <2>1. CASE Appended(next, w) \/ Appended(next, v)
    BY <2>1, AppendedType
  <2>2. CASE /\ log' = Logged(next, w) /\ intact' = FALSE
             /\ durable' \in Recoverable(next, w) \/ durable' = Logged(next, v)
    BY <2>2, <1>2 DEF DiskOK
  <2>3. QED
    BY <2>1, <2>2 DEF AppendFailed
<1>4. QED
  BY <1>1, <1>3

\* A crash in the middle of a method leaves a well-typed state.
LEMMA CrashedType ==
    ASSUME TypeOK, NEW next \in [PlanIds -> Records], NEW w, Crashed(next, w)
    PROVE  TypeOK'
BY LoggedType, RestartedType DEF Crashed

\* Every outcome of a mutating method keeps the types.
LEMMA MutateType ==
    ASSUME TypeOK, NEW next \in [PlanIds -> Records], NEW inc \in PlanIds \cup {NoPlan},
           NEW first, NEW second, NEW ack \in SUBSET (PlanIds \X CommitIds),
           Mutate(next, inc, first, second, ack)
    PROVE  TypeOK'
<1>1. CASE /\ Appended(next, first \cup second)
           /\ plans' = next /\ incumbent' = inc
           /\ acked' = acked \cup ack
           /\ UNCHANGED <<pending, live, faults>>
  BY <1>1, AppendedType DEF TypeOK, DiskOK, Records
<1>2. CASE /\ AppendFailed(next, {}, first) \/ AppendFailed(next, first, first \cup second)
           /\ plans' = next /\ incumbent' = inc
           /\ UNCHANGED <<pending, live, acked>>
  <2>1. DiskOK' /\ faults' \in 0 .. MaxFaults
    BY <1>2, AppendFailedType
  <2>2. QED
    BY <1>2, <2>1 DEF TypeOK, DiskOK, Records
<1>3. CASE \E w \in {{}, first} : Crashed(next, w)
  BY <1>3, CrashedType
<1>4. QED
  BY <1>1, <1>2, <1>3 DEF Mutate

\* Every outcome of a method that changes one plan keeps the types.
LEMMA MutateOneType ==
    ASSUME TypeOK, NEW p \in PlanIds, NEW plan \in Plans, MutateOne(p, plan)
    PROVE  TypeOK'
<1>1. [plans EXCEPT ![p] = plan] \in [PlanIds -> Records]
  BY DEF TypeOK, Records
<1>2. incumbent \in PlanIds \cup {NoPlan}
  BY DEF TypeOK
<1>3. {} \in SUBSET (PlanIds \X CommitIds)
  OBVIOUS
<1>4. Mutate([plans EXCEPT ![p] = plan], incumbent, {}, {p}, {})
  BY DEF MutateOne
<1>5. QED
  BY ONLY TypeOK, <1>1, <1>2, <1>3, <1>4, MutateType

\* A plan that is not absent is a full record, and stays one when its state,
\* applicability, allocation or churn decision changes.
LEMMA KnownType ==
    ASSUME TypeOK, NEW p \in PlanIds, plans[p] # Absent
    PROVE  plans[p] \in Plans
BY DEF TypeOK

\* A plan whose state is not "absent" is a full record.
LEMMA StateIsKnown ==
    ASSUME TypeOK, NEW p \in PlanIds, plans[p].state # "absent"
    PROVE  plans[p] \in Plans
BY DEF TypeOK, Absent

\* Changing the state and applicability of a plan keeps its type.
LEMMA SetStateType ==
    ASSUME NEW plan \in Plans, NEW s \in States, NEW a \in Applicabilities
    PROVE  /\ [plan EXCEPT !.state = s] \in Plans
           /\ [plan EXCEPT !.state = s, !.applicability = a] \in Plans
           /\ [plan EXCEPT !.applicability = a] \in Plans
           /\ MakeStale(plan) \in Plans
<1>1. "stale" \in States /\ "stale" \in Applicabilities
  BY DEF States, Applicabilities
<1>2. QED
  BY <1>1 DEF Plans, MakeStale

\* Marking a plan superseded keeps its type.
LEMMA SetSupersededType ==
    ASSUME NEW plan \in Plans, NEW by \in PlanIds
    PROVE  MakeSuperseded(plan, by) \in Plans
<1>1. "superseded" \in States /\ "superseded" \in Applicabilities
  BY DEF States, Applicabilities
<1>2. QED
  BY <1>1 DEF Plans, MakeSuperseded

\* The commit and the lineage of two records are the same.
SameHistory(r, s) ==
    s.commit = r.commit /\ s.supersedes = r.supersedes /\ s.superseded_by = r.superseded_by

\* Storing the outcome of solve keeps the type of a plan.
LEMMA SetOutcomeType ==
    ASSUME NEW plan \in Plans, NEW s \in States, NEW f \in SUBSET Ticks, NEW c \in ChurnDecisions
    PROVE  /\ Solved(plan, s, f, c) \in Plans
           /\ Solved(plan, s, f, c).authority = plan.authority
           /\ Solved(plan, s, f, c).state = s
           /\ SameHistory(plan, Solved(plan, s, f, c))
BY DEF Plans, Solved, SameHistory

\* The state and applicability names the methods assign.
LEMMA StateNames ==
    /\ {"rejected", "validated", "proposed", "degraded", "authorized", "committed",
        "superseded", "retired", "declared", "stale"} \subseteq States
    /\ {"current", "not_evaluated", "superseded", "retired", "stale"} \subseteq Applicabilities
    /\ {"no_incumbent", "hold_incumbent"} \subseteq ChurnDecisions
BY DEF States, LiveStates, TerminalStates, Applicabilities, ChurnDecisions

\* Demoting plans in submit_snapshot keeps the type of the map.
LEMMA DemotedType ==
    ASSUME TypeOK, NEW s \in Snapshots, NEW ps \in SUBSET Moved(s)
    PROVE  Demoted(ps) \in [PlanIds -> Records]
<1>1. ASSUME NEW p \in Moved(s) PROVE MakeStale(plans[p]) \in Plans
  <2>1. p \in PlanIds /\ plans[p].state # "absent"
    BY DEF LiveStates, Moved
  <2>2. QED
    BY <2>1, StateIsKnown, SetStateType, StateNames
<1>2. QED
  BY <1>1 DEF TypeOK, Records, Demoted

\* The outcomes of submit_snapshot, with the demoted sets named.
LEMMA SubmitSnapshotCases ==
    ASSUME NEW s \in Snapshots, SubmitSnapshot(s)
    PROVE  \/ /\ live' = s
              /\ plans' = Demoted(Moved(s))
              /\ Appended(Demoted(Moved(s)), Moved(s))
              /\ UNCHANGED <<pending, incumbent, faults, acked>>
           \/ \E some, more \in SUBSET Moved(s) :
                 /\ live' = s
                 /\ plans' = Demoted(more)
                 /\ AppendFailed(Demoted(Moved(s)), some, more)
                 /\ UNCHANGED <<pending, incumbent, acked>>
           \/ \E some \in SUBSET Moved(s) : Crashed(Demoted(Moved(s)), some)
BY DEF SubmitSnapshot, Moved, Demoted

\* submit_snapshot keeps the types.
LEMMA SubmitSnapshotType ==
    ASSUME TypeOK, NEW s \in Snapshots, SubmitSnapshot(s)
    PROVE  TypeOK'
<1>1. Demoted(Moved(s)) \in [PlanIds -> Records]
  BY DemotedType
<1>2. CASE /\ live' = s
           /\ plans' = Demoted(Moved(s))
           /\ Appended(Demoted(Moved(s)), Moved(s))
           /\ UNCHANGED <<pending, incumbent, faults, acked>>
  <2>1. DiskOK'
    BY <1>1, <1>2, AppendedType
  <2>2. QED
    BY <2>1, <1>1, <1>2 DEF TypeOK, DiskOK, Records
<1>3. ASSUME NEW some \in SUBSET Moved(s), NEW more \in SUBSET Moved(s),
             /\ live' = s
             /\ plans' = Demoted(more)
             /\ AppendFailed(Demoted(Moved(s)), some, more)
             /\ UNCHANGED <<pending, incumbent, acked>>
      PROVE  TypeOK'
  <2>1. DiskOK' /\ faults' \in 0 .. MaxFaults
    BY <1>1, <1>3, AppendFailedType
  <2>2. plans' \in [PlanIds -> Records]
    BY <1>3, DemotedType
  <2>3. QED
    BY <2>1, <2>2, <1>3 DEF TypeOK, DiskOK, Records
<1>4. ASSUME NEW some \in SUBSET Moved(s), Crashed(Demoted(Moved(s)), some)
      PROVE  TypeOK'
  BY <1>1, <1>4, CrashedType
<1>5. QED
  BY <1>2, <1>3, <1>4, SubmitSnapshotCases

DeclaredPlan ==
    [state |-> "declared", applicability |-> "not_evaluated",
     authority |-> live.authority, fits |-> {}, churn |-> "no_incumbent",
     commit |-> NoCommit, supersedes |-> NoPlan, superseded_by |-> NoPlan]

\* The plan that declare builds is well typed.
LEMMA DeclaredPlanType ==
    ASSUME TypeOK, NEW p \in PlanIds, live # NoSnapshot
    PROVE  DeclaredPlan \in Plans /\ [plans EXCEPT ![p] = DeclaredPlan] \in [PlanIds -> Records]
<1>1. live.authority \in Authorities
  BY DEF TypeOK, Authorities
<1>2. DeclaredPlan \in Plans
  BY <1>1, StateNames DEF Plans, DeclaredPlan
<1>3. QED
  BY <1>2 DEF TypeOK, Records

\* The outcomes of declare.
LEMMA DeclareCases ==
    ASSUME NEW p, NEW request, Declare(p, request)
    PROVE  /\ live # NoSnapshot /\ plans[p] = Absent
           /\ \/ /\ Appended([plans EXCEPT ![p] = DeclaredPlan], {p})
                 /\ plans' = [plans EXCEPT ![p] = DeclaredPlan]
                 /\ pending' = [pending EXCEPT ![p] = request]
                 /\ UNCHANGED <<live, incumbent, faults, acked>>
              \/ /\ AppendFailed([plans EXCEPT ![p] = DeclaredPlan], {}, {p})
                 /\ UNCHANGED <<plans, pending, live, incumbent, acked>>
              \/ Crashed([plans EXCEPT ![p] = DeclaredPlan], {p})
BY DEF Declare, DeclaredPlan, Known

\* declare keeps the types.
LEMMA DeclareType ==
    ASSUME TypeOK, NEW p \in PlanIds, NEW request \in Requests, Declare(p, request)
    PROVE  TypeOK'
<1> DEFINE next == [plans EXCEPT ![p] = DeclaredPlan]
<1>1. next \in [PlanIds -> Records]
  BY DeclareCases, DeclaredPlanType
<1>2. CASE /\ Appended(next, {p})
           /\ plans' = next
           /\ pending' = [pending EXCEPT ![p] = request]
           /\ UNCHANGED <<live, incumbent, faults, acked>>
  <2>1. DiskOK'
    BY <1>1, <1>2, AppendedType
  <2>2. QED
    BY <2>1, <1>1, <1>2, RequestsAssumption DEF TypeOK, DiskOK, Records
<1>3. CASE /\ AppendFailed(next, {}, {p})
           /\ UNCHANGED <<plans, pending, live, incumbent, acked>>
  <2>1. DiskOK' /\ faults' \in 0 .. MaxFaults
    BY <1>1, <1>3, AppendFailedType
  <2>2. QED
    BY <2>1, <1>3 DEF TypeOK, DiskOK, Records
<1>4. CASE Crashed(next, {p})
  BY <1>1, <1>4, CrashedType
<1>5. QED
  BY <1>2, <1>3, <1>4, DeclareCases

\* validate keeps the types.
LEMMA ValidateType ==
    ASSUME TypeOK, NEW p \in PlanIds, Validate(p)
    PROVE  TypeOK'
<1>1. plans[p] \in Plans
  BY KnownType DEF Validate, Known
<1>2. /\ [plans[p] EXCEPT !.state = "validated", !.applicability = "current"] \in Plans
      /\ MakeStale(plans[p]) \in Plans
  BY <1>1, SetStateType, StateNames
<1>3. QED
  BY <1>2, MutateOneType DEF Validate

\* Every plan an action hands to MutateOne is a full record.
LEMMA ActionPlansType ==
    ASSUME NEW plan \in Plans
    PROVE  /\ MakeStale(plan) \in Plans
           /\ [plan EXCEPT !.state = "rejected"] \in Plans
           /\ [plan EXCEPT !.state = "rejected", !.applicability = "not_evaluated"] \in Plans
           /\ [plan EXCEPT !.state = "validated", !.applicability = "current"] \in Plans
           /\ [plan EXCEPT !.state = "authorized", !.applicability = "current"] \in Plans
BY SetStateType, StateNames

\* What solve hands over: everything but the state, the allocation and the
\* churn decision is left alone, and the state is one solve may produce.
SolveResult(p, plan) ==
    /\ plan \in Plans
    /\ plan.authority = plans[p].authority
    /\ plan.state \in {"stale", "rejected", "proposed", "degraded"}
    /\ SameHistory(plans[p], plan)
    /\ MutateOne(p, plan)

\* Whatever solve does, it changes one plan to a well-typed one.
LEMMA SolveCases ==
    ASSUME TypeOK, NEW p \in PlanIds, Solve(p)
    PROVE  /\ plans[p] \in Plans /\ plans[p].state = "validated" /\ live # NoSnapshot
           /\ \E plan \in Plans : SolveResult(p, plan)
<1> DEFINE churns == IF pending[p].has_incumbent THEN ChurnDecisions ELSE {plans[p].churn}
           held == IF pending[p].has_incumbent THEN "hold_incumbent" ELSE plans[p].churn
<1>1. plans[p] \in Plans
  BY KnownType DEF Solve, Known
<1>2. plans[p].state = "validated" /\ live # NoSnapshot
  BY DEF Solve, can_transition
<1>3. churns \subseteq ChurnDecisions /\ held \in ChurnDecisions
  BY <1>1, StateNames DEF Plans
<1>5. CASE MutateOne(p, MakeStale(plans[p]))
  <2>1. SolveResult(p, MakeStale(plans[p]))
    BY <1>1, <1>5, ActionPlansType DEF SolveResult, SameHistory, MakeStale, Plans
  <2>2. QED
    BY <1>1, <1>2, <2>1, ActionPlansType
<1>6. CASE MutateOne(p, [plans[p] EXCEPT !.state = "rejected", !.applicability = "not_evaluated"])
  <2>1. SolveResult(p, [plans[p] EXCEPT !.state = "rejected", !.applicability = "not_evaluated"])
    BY <1>1, <1>6, ActionPlansType DEF SolveResult, SameHistory, Plans
  <2>2. QED
    BY <1>1, <1>2, <2>1, ActionPlansType
<1>7. CASE MutateOne(p, Solved(plans[p], "rejected", {}, held))
  <2> DEFINE plan == Solved(plans[p], "rejected", {}, held)
  <2>1. plan \in Plans /\ plan.authority = plans[p].authority /\ plan.state = "rejected"
        /\ SameHistory(plans[p], plan)
    BY <1>1, <1>3, SetOutcomeType, StateNames
  <2>2. MutateOne(p, plan)
    BY <1>7
  <2> HIDE DEF plan
  <2>3. QED
    BY <1>1, <1>2, <2>1, <2>2 DEF SolveResult
<1>8. ASSUME NEW state \in {"proposed", "degraded"}, NEW fits \in SUBSET Ticks,
             NEW churn \in churns, MutateOne(p, Solved(plans[p], state, fits, churn))
      PROVE  \E plan \in Plans : SolveResult(p, plan)
  <2> DEFINE plan == Solved(plans[p], state, fits, churn)
  <2>1. plan \in Plans /\ plan.authority = plans[p].authority /\ plan.state = state
        /\ SameHistory(plans[p], plan)
    BY <1>1, <1>3, SetOutcomeType, StateNames
  <2>2. MutateOne(p, plan)
    BY <1>8
  <2> HIDE DEF plan
  <2>3. QED
    BY <2>1, <2>2 DEF SolveResult
<1>9. QED
  BY <1>1, <1>2, <1>5, <1>6, <1>7, <1>8 DEF Solve

\* solve keeps the types.
LEMMA SolveType ==
    ASSUME TypeOK, NEW p \in PlanIds, Solve(p)
    PROVE  TypeOK'
BY SolveCases, MutateOneType DEF SolveResult

\* authorize keeps the types.
LEMMA AuthorizeType ==
    ASSUME TypeOK, NEW p \in PlanIds, Authorize(p)
    PROVE  TypeOK'
<1>1. plans[p] \in Plans
  BY KnownType DEF Authorize, Known
<1>2. /\ MakeStale(plans[p]) \in Plans
      /\ [plans[p] EXCEPT !.state = "rejected"] \in Plans
      /\ [plans[p] EXCEPT !.state = "authorized", !.applicability = "current"] \in Plans
  BY <1>1, SetStateType, StateNames
<1>3. QED
  BY <1>2, MutateOneType DEF Authorize

\* The two plans a commit changes.
CommittedPlan(p, c) ==
    [plans[p] EXCEPT !.state = "committed", !.applicability = "current", !.commit = c,
                     !.supersedes = IF Previous(p) = {} THEN @ ELSE incumbent]
AfterCommit(p, c) ==
    [q \in PlanIds |-> IF q = p THEN CommittedPlan(p, c)
                       ELSE IF q \in Previous(p) THEN MakeSuperseded(plans[q], p) ELSE plans[q]]

\* Commit by cases: refused as stale, refused as rejected, or done.
LEMMA CommitCases ==
    ASSUME NEW p, NEW c, Commit(p, c)
    PROVE  /\ Known(p) /\ can_transition(plans[p].state, "committed") /\ live # NoSnapshot
           /\ \/ MutateOne(p, MakeStale(plans[p]))
              \/ MutateOne(p, [plans[p] EXCEPT !.state = "rejected"])
              \/ /\ identical(Delta(p)) /\ live.tick \in plans[p].fits
                 /\ Mutate(AfterCommit(p, c), p, Previous(p), {p}, {<<p, c>>})
BY DEF Commit, AfterCommit, CommittedPlan

\* The plans after a commit are well typed.
LEMMA AfterCommitType ==
    ASSUME TypeOK, NEW p \in PlanIds, NEW c \in CommitIds, plans[p] \in Plans
    PROVE  AfterCommit(p, c) \in [PlanIds -> Records]
<1>1. CommittedPlan(p, c) \in Plans
  BY StateNames DEF TypeOK, Plans, CommittedPlan
<1>2. ASSUME NEW q \in Previous(p) PROVE MakeSuperseded(plans[q], p) \in Plans
  <2>1. q \in PlanIds /\ plans[q].state # "absent"
    BY DEF Previous
  <2>2. plans[q] \in Plans
    BY <2>1, StateIsKnown
  <2>3. QED
    BY <2>2, SetSupersededType
<1>3. QED
  BY <1>1, <1>2 DEF AfterCommit, TypeOK, Records

\* commit keeps the types.
LEMMA CommitType ==
    ASSUME TypeOK, NEW p \in PlanIds, NEW c \in CommitIds, Commit(p, c)
    PROVE  TypeOK'
<1>1. plans[p] \in Plans
  BY KnownType, CommitCases DEF Known
<1>2. MakeStale(plans[p]) \in Plans /\ [plans[p] EXCEPT !.state = "rejected"] \in Plans
  BY <1>1, SetStateType, StateNames
<1>3. CASE MutateOne(p, MakeStale(plans[p])) \/ MutateOne(p, [plans[p] EXCEPT !.state = "rejected"])
  BY <1>2, <1>3, MutateOneType
<1>4. CASE Mutate(AfterCommit(p, c), p, Previous(p), {p}, {<<p, c>>})
  <2>1. AfterCommit(p, c) \in [PlanIds -> Records] /\ {<<p, c>>} \in SUBSET (PlanIds \X CommitIds)
    BY <1>1, AfterCommitType
  <2>2. p \in PlanIds \cup {NoPlan}
    OBVIOUS
  <2>3. QED
    BY ONLY TypeOK, <2>1, <2>2, <1>4, MutateType
<1>5. QED
  BY <1>3, <1>4, CommitCases

AfterSupersede(old, by) ==
    [plans EXCEPT ![old] = MakeSuperseded(plans[old], by),
                  ![by] = [plans[by] EXCEPT !.supersedes = old]]

\* The plans after supersede are well typed.
LEMMA AfterSupersedeType ==
    ASSUME TypeOK, NEW old \in PlanIds, NEW by \in PlanIds, old # by,
           plans[old] \in Plans, plans[by] \in Plans
    PROVE  AfterSupersede(old, by) \in [PlanIds -> Records]
<1>1. MakeSuperseded(plans[old], by) \in Plans
  BY SetSupersededType
<1>2. [plans[by] EXCEPT !.supersedes = old] \in Plans
  BY DEF Plans
<1>3. QED
  BY <1>1, <1>2 DEF AfterSupersede, TypeOK, Records

\* What supersede does, with the plans after it named.
LEMMA SupersedeCases ==
    ASSUME TypeOK, NEW old \in PlanIds, NEW by \in PlanIds, Supersede(old, by)
    PROVE  /\ plans[old] \in Plans /\ plans[by] \in Plans /\ old # by
           /\ plans[old].state = "committed" /\ plans[by].state = "committed"
           /\ AfterSupersede(old, by) \in [PlanIds -> Records]
           /\ Mutate(AfterSupersede(old, by), incumbent, {old}, {by}, {})
<1>1. plans[old] \in Plans /\ plans[by] \in Plans /\ old # by
      /\ plans[old].state = "committed" /\ plans[by].state = "committed"
  BY StateIsKnown DEF Supersede
<1>2. Mutate(AfterSupersede(old, by), incumbent, {old}, {by}, {})
  BY DEF Supersede, AfterSupersede
<1>3. QED
  BY <1>1, <1>2, AfterSupersedeType

\* supersede keeps the types.
LEMMA SupersedeType ==
    ASSUME TypeOK, NEW old \in PlanIds, NEW by \in PlanIds, Supersede(old, by)
    PROVE  TypeOK'
<1>1. /\ AfterSupersede(old, by) \in [PlanIds -> Records]
      /\ Mutate(AfterSupersede(old, by), incumbent, {old}, {by}, {})
  BY SupersedeCases
<1>2. incumbent \in PlanIds \cup {NoPlan} /\ {} \in SUBSET (PlanIds \X CommitIds)
  BY DEF TypeOK
<1>3. QED
  BY ONLY TypeOK, <1>1, <1>2, MutateType

RetiredPlan(p) == [plans[p] EXCEPT !.state = "retired", !.applicability = "retired"]

\* What retire does, with the plans after it named.
LEMMA RetireCases ==
    ASSUME TypeOK, NEW p \in PlanIds, Retire(p)
    PROVE  /\ plans[p] \in Plans /\ can_transition(plans[p].state, "retired")
           /\ Mutate([plans EXCEPT ![p] = RetiredPlan(p)],
                     IF incumbent = p THEN NoPlan ELSE incumbent, {}, {p}, {})
BY KnownType DEF Retire, Known, RetiredPlan

\* retire keeps the types.
LEMMA RetireType ==
    ASSUME TypeOK, NEW p \in PlanIds, Retire(p)
    PROVE  TypeOK'
<1> DEFINE inc == IF incumbent = p THEN NoPlan ELSE incumbent
<1>1. [plans EXCEPT ![p] = RetiredPlan(p)] \in [PlanIds -> Records]
  BY RetireCases, SetStateType, StateNames DEF RetiredPlan, TypeOK, Records
<1>2. inc \in PlanIds \cup {NoPlan} /\ {} \in SUBSET (PlanIds \X CommitIds)
  BY DEF TypeOK
<1>3. Mutate([plans EXCEPT ![p] = RetiredPlan(p)], inc, {}, {p}, {})
  BY RetireCases
<1>4. QED
  BY ONLY TypeOK, <1>1, <1>2, <1>3, MutateType

\* revalidate keeps the types.
LEMMA RevalidateType ==
    ASSUME TypeOK, NEW p \in PlanIds, Revalidate(p)
    PROVE  TypeOK'
<1>1. plans[p] \in Plans
  BY KnownType DEF Revalidate, Known
<1>2. ASSUME NEW a \in Applicabilities,
             plans' = [plans EXCEPT ![p].applicability = a],
             UNCHANGED <<pending, live, incumbent, disk, faults, acked>>
      PROVE  TypeOK'
  <2>1. [plans[p] EXCEPT !.applicability = a] \in Plans
    BY <1>1, SetStateType, StateNames
  <2>2. plans' \in [PlanIds -> Plans \cup {Absent}]
    BY <2>1, <1>2 DEF TypeOK
  <2>3. QED
    BY <2>2, <1>2 DEF TypeOK, disk
<1>3. CASE MutateOne(p, MakeStale(plans[p]))
  BY <1>1, <1>3, SetStateType, StateNames, MutateOneType
<1>4. QED
  BY <1>2, <1>3, StateNames DEF Revalidate

\* Every variable of the engine keeps its type, for any bounds.
THEOREM TypeCorrect == Spec => []TypeOK
<1>1. Init => TypeOK
  BY FaultsAssumption DEF Init, TypeOK, NoRequest
<1>2. TypeOK /\ [Next]_vars => TypeOK'
  <2> SUFFICES ASSUME TypeOK, [Next]_vars PROVE TypeOK'
    OBVIOUS
  <2>1. ASSUME NEW s \in Snapshots, SubmitSnapshot(s) PROVE TypeOK'
    BY <2>1, SubmitSnapshotType
  <2>2. ASSUME NEW p \in PlanIds, NEW r \in Requests, Declare(p, r) PROVE TypeOK'
    BY <2>2, DeclareType
  <2>3. ASSUME NEW p \in PlanIds, Validate(p) PROVE TypeOK'
    BY <2>3, ValidateType
  <2>4. ASSUME NEW p \in PlanIds, Solve(p) PROVE TypeOK'
    BY <2>4, SolveType
  <2>5. ASSUME NEW p \in PlanIds, Authorize(p) PROVE TypeOK'
    BY <2>5, AuthorizeType
  <2>6. ASSUME NEW p \in PlanIds, NEW c \in CommitIds, Commit(p, c) PROVE TypeOK'
    BY <2>6, CommitType
  <2>7. ASSUME NEW p \in PlanIds, NEW c \in CommitIds, CommitReplay(p, c) PROVE TypeOK'
    BY <2>7 DEF CommitReplay, TypeOK, disk
  <2>8. ASSUME NEW p \in PlanIds, NEW q \in PlanIds, Supersede(p, q) PROVE TypeOK'
    BY <2>8, SupersedeType
  <2>9. ASSUME NEW p \in PlanIds, MarkStale(p) PROVE TypeOK'
    BY <2>9, KnownType, SetStateType, StateNames, MutateOneType DEF MarkStale, Known
  <2>10. ASSUME NEW p \in PlanIds, Retire(p) PROVE TypeOK'
    BY <2>10, RetireType
  <2>11. ASSUME NEW p \in PlanIds, Revalidate(p) PROVE TypeOK'
    BY <2>11, RevalidateType
  <2>12. CASE Restart
    BY <2>12, RestartedType DEF Restart, TypeOK, Records
  <2>13. CASE UNCHANGED vars
    BY <2>13 DEF TypeOK, vars, disk
  <2>14. QED
    BY <2>1, <2>2, <2>3, <2>4, <2>5, <2>6, <2>7, <2>8, <2>9, <2>10, <2>11, <2>12, <2>13 DEF Next
<1>3. QED
  BY <1>1, <1>2, PTL DEF Spec

(***************************************************************************)
(* Recovery restores history, never authority                              *)
(***************************************************************************)
Dormant(r) == r # Absent => r.state \notin LiveStates /\ r.applicability # "current"

\* A recovered record is not in a live state and not CURRENT.
LEMMA RecoveredDormant ==
    ASSUME NEW r \in Records
    PROVE  Dormant(Recovered(r))
<1>1. CASE r = Absent
  BY <1>1 DEF Recovered, Dormant
<1>2. CASE r \in Plans
  <2>1. CASE r.state \in LiveStates
    BY <1>2, <2>1 DEF Recovered, Dormant, Plans, LiveStates, Absent
  <2>2. CASE r.state \notin LiveStates
    BY <1>2, <2>2 DEF Recovered, Dormant, Plans, Absent
  <2>3. QED
    BY <2>1, <2>2
<1>3. QED
  BY <1>1, <1>2 DEF Records

\* After a restart no plan is live or CURRENT.
LEMMA RestartedHistory ==
    ASSUME durable' \in [PlanIds -> Records], Restarted
    PROVE  HistoryIsNotAuthority'
<1>1. \A p \in PlanIds : Dormant(plans'[p])
  BY RecoveredDormant DEF Restarted
<1>2. QED
  BY <1>1 DEF HistoryIsNotAuthority, Known, Dormant

\* The same after a crash in the middle of a method.
LEMMA CrashedHistory ==
    ASSUME TypeOK, NEW next \in [PlanIds -> Records], NEW w, Crashed(next, w)
    PROVE  HistoryIsNotAuthority'
BY LoggedType, RestartedHistory DEF Crashed

\* A mutating method keeps history apart from authority if its plans do.
LEMMA MutateHistory ==
    ASSUME TypeOK, NEW next \in [PlanIds -> Records], NEW inc, NEW first, NEW second, NEW ack,
           live = NoSnapshot => \A p \in PlanIds : Dormant(next[p]),
           Mutate(next, inc, first, second, ack)
    PROVE  HistoryIsNotAuthority'
<1>1. CASE plans' = next /\ live' = live
  BY <1>1 DEF HistoryIsNotAuthority, Known, Dormant
<1>2. CASE \E w \in {{}, first} : Crashed(next, w)
  BY <1>2, CrashedHistory
<1>3. QED
  BY <1>1, <1>2 DEF Mutate

\* The same for a method that changes one plan.
LEMMA MutateOneHistory ==
    ASSUME TypeOK, HistoryIsNotAuthority, NEW p \in PlanIds, NEW plan \in Plans,
           live = NoSnapshot => Dormant(plan), MutateOne(p, plan)
    PROVE  HistoryIsNotAuthority'
<1> DEFINE next == [plans EXCEPT ![p] = plan]
<1>1. next \in [PlanIds -> Records]
  BY DEF TypeOK, Records
<1>2. live = NoSnapshot => \A q \in PlanIds : Dormant(next[q])
  BY DEF HistoryIsNotAuthority, Known, Dormant, TypeOK
<1>3. Mutate(next, incumbent, {}, {p}, {})
  BY DEF MutateOne
<1> HIDE DEF next
<1>4. QED
  BY ONLY TypeOK, <1>1, <1>2, <1>3, MutateHistory

\* A plan made stale is not in a live state and not CURRENT.
LEMMA StaleDormant ==
    ASSUME NEW plan \in Plans
    PROVE  Dormant(MakeStale(plan)) /\ MakeStale(plan) \in Plans
BY SetStateType, StateNames DEF Dormant, MakeStale, LiveStates, Plans

\* submit_snapshot keeps history apart from authority.
LEMMA SubmitSnapshotHistory ==
    ASSUME TypeOK, NEW s \in Snapshots, SubmitSnapshot(s)
    PROVE  HistoryIsNotAuthority'
<1>1. CASE live' = s
  BY <1>1, SnapshotsAssumption DEF HistoryIsNotAuthority
<1>2. ASSUME NEW some, Crashed(Demoted(Moved(s)), some) PROVE HistoryIsNotAuthority'
  <2>1. Demoted(Moved(s)) \in [PlanIds -> Records]
    BY DemotedType
  <2>2. QED
    BY <1>2, <2>1, CrashedHistory
<1>3. QED
  BY <1>1, <1>2, SubmitSnapshotCases

\* declare keeps history apart from authority.
LEMMA DeclareHistory ==
    ASSUME TypeOK, NEW p \in PlanIds, NEW request \in Requests, Declare(p, request)
    PROVE  HistoryIsNotAuthority'
<1>1. CASE live' = live
  BY <1>1 DEF Declare, HistoryIsNotAuthority
<1>2. CASE Crashed([plans EXCEPT ![p] = DeclaredPlan], {p})
  BY <1>2, DeclaredPlanType, CrashedHistory DEF Declare
<1>3. QED
  BY <1>1, <1>2, DeclareCases

\* supersede keeps history apart from authority.
LEMMA SupersedeHistory ==
    ASSUME TypeOK, HistoryIsNotAuthority, NEW old \in PlanIds, NEW by \in PlanIds,
           Supersede(old, by)
    PROVE  HistoryIsNotAuthority'
<1>1. /\ plans[old] \in Plans /\ plans[by] \in Plans /\ old # by
      /\ AfterSupersede(old, by) \in [PlanIds -> Records]
      /\ Mutate(AfterSupersede(old, by), incumbent, {old}, {by}, {})
  BY SupersedeCases
<1>2. live = NoSnapshot => \A p \in PlanIds : Dormant(AfterSupersede(old, by)[p])
  <2> SUFFICES ASSUME live = NoSnapshot, NEW p \in PlanIds
               PROVE  Dormant(AfterSupersede(old, by)[p])
    OBVIOUS
  <2>1. Dormant(plans[p])
    BY DEF HistoryIsNotAuthority, Known, Dormant
  <2>2. CASE p = old
    BY <1>1, <2>2 DEF AfterSupersede, TypeOK, MakeSuperseded, Dormant, Plans, LiveStates
  <2>3. CASE p = by
    <3>1. AfterSupersede(old, by)[p] = [plans[p] EXCEPT !.supersedes = old]
      BY <1>1, <2>3 DEF AfterSupersede, TypeOK
    <3>2. plans[p] # Absent /\ plans[p] \in Plans
      BY <1>1, <2>3 DEF Plans, Absent
    <3>3. QED
      BY <2>1, <3>1, <3>2 DEF Dormant, Plans
  <2>4. CASE p # old /\ p # by
    BY <2>1, <2>4 DEF AfterSupersede, TypeOK
  <2>5. QED
    BY <2>2, <2>3, <2>4
<1>3. QED
  BY ONLY TypeOK, <1>1, <1>2, MutateHistory

\* retire keeps history apart from authority.
LEMMA RetireHistory ==
    ASSUME TypeOK, HistoryIsNotAuthority, NEW p \in PlanIds, Retire(p)
    PROVE  HistoryIsNotAuthority'
<1> DEFINE next == [plans EXCEPT ![p] = RetiredPlan(p)]
           inc == IF incumbent = p THEN NoPlan ELSE incumbent
<1>1. plans[p] \in Plans /\ Mutate(next, inc, {}, {p}, {})
  BY RetireCases
<1>2. RetiredPlan(p) \in Plans /\ Dormant(RetiredPlan(p))
  BY <1>1, SetStateType, StateNames DEF RetiredPlan, Dormant, Plans, LiveStates
<1>3. next \in [PlanIds -> Records] /\ (live = NoSnapshot => \A q \in PlanIds : Dormant(next[q]))
  BY <1>2 DEF HistoryIsNotAuthority, Known, Dormant, TypeOK, Records
<1> HIDE DEF next, inc
<1>4. QED
  BY ONLY TypeOK, <1>1, <1>3, MutateHistory

\* Whatever was on disk, and whatever the methods did before a snapshot is
\* submitted, no plan advances towards commit and none is CURRENT.
THEOREM HistoryIsNotAuthorityHolds == Spec => []HistoryIsNotAuthority
<1>1. Init => HistoryIsNotAuthority
  BY DEF Init, HistoryIsNotAuthority, Known
<1>2. TypeOK /\ HistoryIsNotAuthority /\ [Next]_vars => HistoryIsNotAuthority'
  <2> SUFFICES ASSUME TypeOK, HistoryIsNotAuthority, [Next]_vars PROVE HistoryIsNotAuthority'
    OBVIOUS
  <2>1. ASSUME NEW s \in Snapshots, SubmitSnapshot(s) PROVE HistoryIsNotAuthority'
    BY <2>1, SubmitSnapshotHistory
  <2>2. ASSUME NEW p \in PlanIds, NEW r \in Requests, Declare(p, r) PROVE HistoryIsNotAuthority'
    BY <2>2, DeclareHistory
  <2>3. ASSUME NEW p \in PlanIds, Validate(p) PROVE HistoryIsNotAuthority'
    BY <2>3, KnownType, ActionPlansType, MutateOneHistory DEF Validate, Known
  <2>4. ASSUME NEW p \in PlanIds, Solve(p) PROVE HistoryIsNotAuthority'
    BY <2>4, SolveCases, MutateOneHistory DEF SolveResult
  <2>5. ASSUME NEW p \in PlanIds, Authorize(p) PROVE HistoryIsNotAuthority'
    BY <2>5, KnownType, ActionPlansType, MutateOneHistory DEF Authorize, Known
  <2>6. ASSUME NEW p \in PlanIds, NEW c \in CommitIds, Commit(p, c) PROVE HistoryIsNotAuthority'
    <3>1. plans[p] \in Plans /\ live # NoSnapshot
      BY <2>6, CommitCases, KnownType DEF Known
    <3>2. CASE MutateOne(p, MakeStale(plans[p])) \/ MutateOne(p, [plans[p] EXCEPT !.state = "rejected"])
      BY <3>1, <3>2, ActionPlansType, MutateOneHistory
    <3>3. CASE Mutate(AfterCommit(p, c), p, Previous(p), {p}, {<<p, c>>})
      BY <3>1, <3>3, AfterCommitType, MutateHistory
    <3>4. QED
      BY <2>6, <3>2, <3>3, CommitCases
  <2>7. ASSUME NEW p \in PlanIds, NEW c \in CommitIds, CommitReplay(p, c) PROVE HistoryIsNotAuthority'
    BY <2>7 DEF CommitReplay, HistoryIsNotAuthority, Known
  <2>8. ASSUME NEW p \in PlanIds, NEW q \in PlanIds, Supersede(p, q) PROVE HistoryIsNotAuthority'
    BY <2>8, SupersedeHistory
  <2>9. ASSUME NEW p \in PlanIds, MarkStale(p) PROVE HistoryIsNotAuthority'
    BY <2>9, KnownType, StaleDormant, MutateOneHistory DEF MarkStale, Known
  <2>10. ASSUME NEW p \in PlanIds, Retire(p) PROVE HistoryIsNotAuthority'
    BY <2>10, RetireHistory
  <2>11. ASSUME NEW p \in PlanIds, Revalidate(p) PROVE HistoryIsNotAuthority'
    <3>1. plans[p] \in Plans /\ live # NoSnapshot
      BY <2>11, KnownType DEF Revalidate, Known
    <3>2. CASE MutateOne(p, MakeStale(plans[p]))
      BY <3>1, <3>2, ActionPlansType, MutateOneHistory
    <3>3. CASE live' = live
      BY <3>1, <3>3 DEF HistoryIsNotAuthority
    <3>4. QED
      BY <2>11, <3>2, <3>3 DEF Revalidate
  <2>12. CASE Restart
    BY <2>12, RestartedHistory DEF Restart, TypeOK, Records
  <2>13. CASE UNCHANGED vars
    BY <2>13 DEF HistoryIsNotAuthority, Known, vars
  <2>14. QED
    BY <2>1, <2>2, <2>3, <2>4, <2>5, <2>6, <2>7, <2>8, <2>9, <2>10, <2>11, <2>12, <2>13 DEF Next
<1>3. QED
  BY <1>1, <1>2, TypeCorrect, PTL DEF Spec

(***************************************************************************)
(* The commit gate                                                         *)
(***************************************************************************)
Enters(p) == plans[p].state # "committed" /\ plans'[p].state = "committed" /\ live' # NoSnapshot
Gate(p) == live # NoSnapshot /\ plans[p].authority = live.authority /\ live.tick \in plans[p].fits

\* If a plan becomes committed in a live process, the method put it there.
LEMMA MutateEnters ==
    ASSUME NEW next, NEW inc, NEW first, NEW second, NEW ack,
           Mutate(next, inc, first, second, ack), NEW p, Enters(p)
    PROVE  next[p].state = "committed"
BY DEF Mutate, Crashed, Restarted, Enters

\* A method that changes one plan commits no other plan.
LEMMA MutateOneEnters ==
    ASSUME TypeOK, NEW p \in PlanIds, NEW plan, plan.state # "committed", MutateOne(p, plan),
           NEW q \in PlanIds, Enters(q)
    PROVE  FALSE
<1>1. Mutate([plans EXCEPT ![p] = plan], incumbent, {}, {p}, {})
  BY DEF MutateOne
<1>2. [plans EXCEPT ![p] = plan][q].state = "committed"
  BY <1>1, MutateEnters
<1>3. QED
  BY <1>2 DEF TypeOK, Enters

\* None of the plans the other actions hand to MutateOne is committed.
LEMMA ActionPlansState ==
    ASSUME NEW plan \in Plans
    PROVE  /\ MakeStale(plan).state = "stale"
           /\ [plan EXCEPT !.state = "rejected"].state = "rejected"
           /\ [plan EXCEPT !.state = "validated", !.applicability = "current"].state = "validated"
           /\ [plan EXCEPT !.state = "authorized", !.applicability = "current"].state = "authorized"
BY DEF Plans, MakeStale

\* An identical comparison with the live snapshot is equality of vectors.
LEMMA SameAuthority ==
    ASSUME TypeOK, NEW p \in PlanIds, plans[p] \in Plans, live # NoSnapshot, identical(Delta(p))
    PROVE  plans[p].authority = live.authority
<1>1. plans[p].authority \in Authorities /\ live.authority \in Authorities
  BY DEF TypeOK, Plans, Authorities
<1>2. QED
  BY <1>1, AuthoritiesAreVectors, IdenticalIsEqual DEF Delta

\* A plan enters COMMITTED only through the gate of commit: its authority is
\* exactly the live one and its allocation verifies against the live snapshot.
THEOREM CommitUnderLiveAuthorityHolds == Spec => CommitUnderLiveAuthority
<1>1. TypeOK /\ [Next]_vars =>
        [\A p \in PlanIds :
           (plans[p].state # "committed" /\ plans'[p].state = "committed" /\ live' # NoSnapshot)
             => /\ live # NoSnapshot
                /\ plans[p].authority = live.authority
                /\ live.tick \in plans[p].fits]_vars
  <2> SUFFICES ASSUME TypeOK, Next, NEW q \in PlanIds, Enters(q) PROVE Gate(q)
    BY DEF Enters, Gate
  <2>1. ASSUME NEW s \in Snapshots, SubmitSnapshot(s) PROVE FALSE
    <3>1. ASSUME NEW ps \in SUBSET Moved(s), plans' = Demoted(ps) PROVE FALSE
      <4>1. CASE q \in ps
        <5>1. plans[q].state # "absent"
          BY <4>1 DEF Moved, LiveStates
        <5>2. QED
          BY <3>1, <4>1, <5>1, StateIsKnown, ActionPlansState DEF Demoted, Enters
      <4>2. QED
        BY <3>1, <4>1 DEF Demoted, Enters
    <3>2. ASSUME NEW some, Crashed(Demoted(Moved(s)), some) PROVE FALSE
      BY <3>2 DEF Crashed, Restarted, Enters
    <3>3. QED
      BY <2>1, <3>1, <3>2, SubmitSnapshotCases
  <2>2. ASSUME NEW p \in PlanIds, NEW r \in Requests, Declare(p, r) PROVE FALSE
    <3>1. CASE plans' = [plans EXCEPT ![p] = DeclaredPlan]
      BY <3>1 DEF DeclaredPlan, TypeOK, Enters
    <3>2. QED
      BY <2>2, <3>1, DeclareCases DEF Crashed, Restarted, Enters
  <2>3. ASSUME NEW p \in PlanIds, Validate(p) PROVE FALSE
    BY <2>3, KnownType, ActionPlansState, MutateOneEnters DEF Validate, Known
  <2>4. ASSUME NEW p \in PlanIds, Solve(p) PROVE FALSE
    BY <2>4, SolveCases, MutateOneEnters DEF SolveResult
  <2>5. ASSUME NEW p \in PlanIds, Authorize(p) PROVE FALSE
    BY <2>5, KnownType, ActionPlansState, MutateOneEnters DEF Authorize, Known
  <2>6. ASSUME NEW p \in PlanIds, NEW c \in CommitIds, Commit(p, c) PROVE Gate(q)
    <3>1. plans[p] \in Plans /\ live # NoSnapshot
      BY <2>6, CommitCases, KnownType DEF Known
    <3>2. CASE MutateOne(p, MakeStale(plans[p])) \/ MutateOne(p, [plans[p] EXCEPT !.state = "rejected"])
      BY <3>1, <3>2, ActionPlansState, MutateOneEnters
    <3>3. CASE /\ identical(Delta(p)) /\ live.tick \in plans[p].fits
               /\ Mutate(AfterCommit(p, c), p, Previous(p), {p}, {<<p, c>>})
      <4>1. AfterCommit(p, c)[q].state = "committed"
        BY <3>3, MutateEnters
      <4>2. ASSUME q # p PROVE FALSE
        <5>1. CASE q \in Previous(p)
          BY <5>1 DEF Previous, Enters
        <5>2. QED
          BY <4>1, <4>2, <5>1 DEF AfterCommit, Enters
      <4>3. QED
        BY <3>1, <3>3, <4>2, SameAuthority DEF Gate
    <3>4. QED
      BY <2>6, <3>2, <3>3, CommitCases
  <2>7. ASSUME NEW p \in PlanIds, NEW c \in CommitIds, CommitReplay(p, c) PROVE FALSE
    BY <2>7 DEF CommitReplay, Enters
  <2>8. ASSUME NEW old \in PlanIds, NEW by \in PlanIds, Supersede(old, by) PROVE FALSE
    <3>1. AfterSupersede(old, by)[q].state = "committed"
      BY <2>8, SupersedeCases, MutateEnters
    <3>2. q # old /\ q # by
      BY <2>8, SupersedeCases DEF Enters
    <3>3. QED
      BY <3>1, <3>2 DEF AfterSupersede, TypeOK, Enters
  <2>9. ASSUME NEW p \in PlanIds, MarkStale(p) PROVE FALSE
    BY <2>9, KnownType, ActionPlansState, MutateOneEnters DEF MarkStale, Known
  <2>10. ASSUME NEW p \in PlanIds, Retire(p) PROVE FALSE
    <3> DEFINE inc == IF incumbent = p THEN NoPlan ELSE incumbent
    <3>1. plans[p] \in Plans /\ Mutate([plans EXCEPT ![p] = RetiredPlan(p)], inc, {}, {p}, {})
      BY <2>10, RetireCases
    <3> HIDE DEF inc
    <3>2. [plans EXCEPT ![p] = RetiredPlan(p)][q].state = "committed"
      BY <3>1, MutateEnters
    <3>3. RetiredPlan(p).state = "retired"
      BY <3>1 DEF RetiredPlan, Plans
    <3>4. QED
      BY <3>2, <3>3 DEF TypeOK, Enters
  <2>11. ASSUME NEW p \in PlanIds, Revalidate(p) PROVE FALSE
    <3>1. plans[p] \in Plans
      BY <2>11, KnownType DEF Revalidate, Known
    <3>2. CASE MutateOne(p, MakeStale(plans[p]))
      BY <3>1, <3>2, ActionPlansState, MutateOneEnters
    <3>3. ASSUME NEW x, plans' = [plans EXCEPT ![p].applicability = x] PROVE FALSE
      BY <3>1, <3>3 DEF TypeOK, Enters, Plans
    <3>4. QED
      BY <2>11, <3>2, <3>3 DEF Revalidate
  <2>12. CASE Restart
    BY <2>12 DEF Restart, Restarted, Enters
  <2>13. QED
    BY <2>1, <2>2, <2>3, <2>4, <2>5, <2>6, <2>7, <2>8, <2>9, <2>10, <2>11, <2>12 DEF Next
<1>2. QED
  BY <1>1, TypeCorrect, PTL DEF Spec, CommitUnderLiveAuthority

(***************************************************************************)
(* A log that does not fail.  The three invariants need one another: the   *)
(* incumbent of a restart is found among the records, so there is one only *)
(* if the records say of every plan what memory says.                      *)
(***************************************************************************)
CleanLog == faults = 0 /\ intact = TRUE /\ log = durable
Inv == CleanLog /\ RestartForgetsNothing /\ OneCommitted /\ BoundToLive

\* Without faults no append fails.
LEMMA NoFailure ==
    ASSUME MaxFaults = 0, Inv, NEW next, NEW w, NEW v
    PROVE  ~AppendFailed(next, w, v)
BY DEF AppendFailed, Inv, CleanLog

\* Recovery does not change what is durable about a record.
LEMMA FactOfRecovered ==
    ASSUME NEW r \in Records
    PROVE  Fact(Recovered(r)) = Fact(r)
<1>1. CASE r = Absent
  BY <1>1 DEF Fact, Recovered
<1>2. CASE r \in Plans
  <2>1. CASE r.state \in LiveStates
    BY <1>2, <2>1 DEF Fact, Recovered, Plans, Absent, LiveStates
  <2>2. CASE r.state \notin LiveStates
    BY <1>2, <2>2 DEF Fact, Recovered, Plans, Absent
  <2>3. QED
    BY <2>1, <2>2
<1>3. QED
  BY <1>1, <1>2 DEF Records

\* A record's fact says whether it is committed.
LEMMA FactCommitted ==
    ASSUME NEW r \in Records
    PROVE  r.state = "committed" <=> Fact(r).state = "committed"
<1>1. CASE r = Absent
  BY <1>1 DEF Fact, Recovered
<1>2. CASE r \in Plans
  BY <1>2 DEF Fact, Recovered, Plans, Absent, LiveStates
<1>3. QED
  BY <1>1, <1>2 DEF Records

\* Recovery leaves exactly the committed records committed.
LEMMA RecoveredCommitted ==
    ASSUME NEW r \in Records
    PROVE  Recovered(r).state = "committed" <=> r.state = "committed"
BY FactOfRecovered, FactCommitted, RecoveredType

\* Restarting from records of which at most one is committed.
LEMMA RestartedInv ==
    ASSUME durable' \in [PlanIds -> Records], Restarted, faults = 0,
           \A p, q \in PlanIds :
             durable'[p].state = "committed" /\ durable'[q].state = "committed" => p = q
    PROVE  Inv'
<1>1. CleanLog' /\ live' = NoSnapshot
  BY DEF Restarted, CleanLog
<1>2. RestartForgetsNothing'
  BY FactOfRecovered DEF Restarted, RestartForgetsNothing
<1>3. OneCommitted'
  <2>1. ASSUME NEW p \in PlanIds, plans'[p].state = "committed" PROVE incumbent' = p
    <3>1. durable'[p].state = "committed"
      BY <2>1, RecoveredCommitted DEF Restarted
    <3>2. {q \in PlanIds : /\ durable'[q].state = "committed"
                           /\ \A x \in PlanIds : durable'[x].state = "committed" => x <= q} = {p}
      <4>1. p <= p
        BY PlanIdsAssumption
      <4>2. \A x \in PlanIds : durable'[x].state = "committed" => x = p
        BY <3>1
      <4>3. QED
        BY <3>1, <4>1, <4>2
    <3>3. QED
      BY <3>2 DEF Restarted, LastCommitted
  <2>2. QED
    BY <2>1 DEF OneCommitted
<1>4. BoundToLive'
  BY <1>1 DEF BoundToLive
<1>5. QED
  BY <1>1, <1>2, <1>3, <1>4 DEF Inv

\* A method that appends, first, plans that are not committed.
LEMMA CrashedInv ==
    ASSUME TypeOK, Inv, NEW next \in [PlanIds -> Records], NEW w,
           \A p \in w : next[p].state # "committed", Crashed(next, w)
    PROVE  Inv'
<1>1. durable' \in [PlanIds -> Records] /\ Restarted
  BY LoggedType DEF Crashed
<1>2. durable' = Logged(next, w)
  BY DEF Crashed, Recoverable, Inv, CleanLog
<1>3. ASSUME NEW p \in PlanIds, NEW q \in PlanIds,
             durable'[p].state = "committed", durable'[q].state = "committed"
      PROVE  p = q
  <2>1. durable[p].state = "committed" /\ durable[q].state = "committed"
    BY <1>2, <1>3 DEF Logged, Inv, CleanLog
  <2>2. QED
    BY <2>1 DEF Inv, OneCommitted
<1>4. QED
  BY <1>1, <1>3, RestartedInv DEF Inv, CleanLog

\* A method that runs to its end.
LEMMA AppendedInv ==
    ASSUME TypeOK, Inv, NEW next \in [PlanIds -> Records], NEW w,
           \A p \in PlanIds : p \notin w => next[p] = plans[p],
           Appended(next, w), plans' = next, faults' = faults,
           \A p \in PlanIds : next[p].state = "committed" => incumbent' = p,
           BoundToLive'
    PROVE  Inv'
<1>1. CleanLog' /\ durable' = Logged(next, w)
  BY DEF Appended, Inv, CleanLog
<1>2. RestartForgetsNothing'
  BY <1>1 DEF RestartForgetsNothing, Logged, Inv, CleanLog
<1>3. durable' \in [PlanIds -> Records]
  BY <1>1, LoggedType
<1>4. ASSUME NEW p \in PlanIds, durable'[p].state = "committed" PROVE incumbent' = p
  <2>1. plans'[p].state = "committed"
    BY <1>2, <1>3, <1>4, FactCommitted DEF RestartForgetsNothing
  <2>2. QED
    BY <2>1
<1>5. OneCommitted'
  BY <1>4 DEF OneCommitted
<1>6. QED
  BY <1>1, <1>2, <1>5 DEF Inv

\* A mutating method keeps the inductive invariant if its plans satisfy it.
LEMMA MutateInv ==
    ASSUME MaxFaults = 0, TypeOK, Inv, NEW next \in [PlanIds -> Records], NEW inc,
           NEW first, NEW second, NEW ack,
           \A p \in PlanIds : p \notin first \cup second => next[p] = plans[p],
           \A p \in first : next[p].state # "committed",
           \A p \in PlanIds : next[p].state = "committed" => inc = p,
           live # NoSnapshot => \A p \in PlanIds :
             next[p].state \in LiveStates \cup {"committed"} => next[p].authority = live.authority,
           Mutate(next, inc, first, second, ack)
    PROVE  Inv'
<1>1. CASE /\ Appended(next, first \cup second)
           /\ plans' = next /\ incumbent' = inc
           /\ UNCHANGED <<pending, live, faults>>
  <2>1. BoundToLive'
    BY <1>1 DEF BoundToLive
  <2>2. QED
    BY <1>1, <2>1, AppendedInv
<1>2. CASE AppendFailed(next, {}, first) \/ AppendFailed(next, first, first \cup second)
  BY <1>2, NoFailure
<1>3. CASE \E w \in {{}, first} : Crashed(next, w)
  BY <1>3, CrashedInv
<1>4. QED
  BY <1>1, <1>2, <1>3 DEF Mutate

\* The same for a method that changes one plan and commits none.
LEMMA MutateOneInv ==
    ASSUME MaxFaults = 0, TypeOK, Inv, NEW p \in PlanIds, NEW plan \in Plans,
           plan.state # "committed", plan.authority = plans[p].authority,
           plan.state \in LiveStates => plans[p].state \in LiveStates,
           MutateOne(p, plan)
    PROVE  Inv'
<1> DEFINE next == [plans EXCEPT ![p] = plan]
<1>1. next \in [PlanIds -> Records] /\ \A q \in PlanIds : q \notin {} \cup {p} => next[q] = plans[q]
  BY DEF TypeOK, Records
<1>2. \A q \in PlanIds : next[q].state = "committed" => incumbent = q
  BY DEF TypeOK, Inv, OneCommitted
<1>3. live # NoSnapshot => \A q \in PlanIds :
        next[q].state \in LiveStates \cup {"committed"} => next[q].authority = live.authority
  BY DEF TypeOK, Inv, BoundToLive
<1>4. Mutate(next, incumbent, {}, {p}, {})
  BY DEF MutateOne
<1> HIDE DEF next
<1>5. QED
  BY ONLY MaxFaults = 0, TypeOK, Inv, <1>1, <1>2, <1>3, <1>4, MutateInv

\* The plans the actions hand to MutateOne, and what MutateOneInv asks of them.
LEMMA ActionPlansInv ==
    ASSUME MaxFaults = 0, TypeOK, Inv, NEW p \in PlanIds, plans[p] \in Plans
    PROVE  /\ MutateOne(p, MakeStale(plans[p])) => Inv'
           /\ MutateOne(p, [plans[p] EXCEPT !.state = "rejected"]) => Inv'
           /\ plans[p].state \in LiveStates =>
                /\ MutateOne(p, [plans[p] EXCEPT !.state = "validated",
                                                 !.applicability = "current"]) => Inv'
                /\ MutateOne(p, [plans[p] EXCEPT !.state = "authorized",
                                                 !.applicability = "current"]) => Inv'
<1> DEFINE stale_plan == MakeStale(plans[p])
           rejected_plan == [plans[p] EXCEPT !.state = "rejected"]
           validated_plan == [plans[p] EXCEPT !.state = "validated", !.applicability = "current"]
           authorized_plan == [plans[p] EXCEPT !.state = "authorized", !.applicability = "current"]
<1>1. /\ stale_plan \in Plans /\ rejected_plan \in Plans
      /\ validated_plan \in Plans /\ authorized_plan \in Plans
  BY ActionPlansType
<1>2. /\ stale_plan.state = "stale" /\ stale_plan.authority = plans[p].authority
      /\ rejected_plan.state = "rejected" /\ rejected_plan.authority = plans[p].authority
      /\ validated_plan.state = "validated" /\ validated_plan.authority = plans[p].authority
      /\ authorized_plan.state = "authorized" /\ authorized_plan.authority = plans[p].authority
  BY DEF Plans, MakeStale
<1> HIDE DEF stale_plan, rejected_plan, validated_plan, authorized_plan
<1>3. "stale" \notin LiveStates /\ "rejected" \notin LiveStates
  BY DEF LiveStates
<1>4. MutateOne(p, stale_plan) => Inv'
  BY <1>1, <1>2, <1>3, MutateOneInv
<1>5. MutateOne(p, rejected_plan) => Inv'
  BY <1>1, <1>2, <1>3, MutateOneInv
<1>6. plans[p].state \in LiveStates /\ MutateOne(p, validated_plan) => Inv'
  BY <1>1, <1>2, MutateOneInv
<1>7. plans[p].state \in LiveStates /\ MutateOne(p, authorized_plan) => Inv'
  BY <1>1, <1>2, MutateOneInv
<1>8. QED
  BY <1>4, <1>5, <1>6, <1>7 DEF stale_plan, rejected_plan, validated_plan, authorized_plan

\* submit_snapshot keeps the inductive invariant.
LEMMA SubmitSnapshotInv ==
    ASSUME MaxFaults = 0, TypeOK, Inv, NEW s \in Snapshots, SubmitSnapshot(s)
    PROVE  Inv'
<1>1. Demoted(Moved(s)) \in [PlanIds -> Records]
  BY DemotedType
<1>2. ASSUME NEW p \in Moved(s)
      PROVE  p \in PlanIds /\ plans[p] \in Plans /\ Demoted(Moved(s))[p].state = "stale"
  <2>1. p \in PlanIds /\ plans[p].state # "absent"
    BY DEF LiveStates, Moved
  <2>2. plans[p] \in Plans
    BY <2>1, StateIsKnown
  <2>3. QED
    BY <2>1, <2>2, ActionPlansState DEF Demoted
<1>3. ASSUME NEW p \in PlanIds, p \notin Moved(s) PROVE Demoted(Moved(s))[p] = plans[p]
  BY <1>3 DEF Demoted
<1>4. CASE /\ live' = s
           /\ plans' = Demoted(Moved(s))
           /\ Appended(Demoted(Moved(s)), Moved(s))
           /\ UNCHANGED <<pending, incumbent, faults, acked>>
  <2>1. \A p \in PlanIds : Demoted(Moved(s))[p].state = "committed" => incumbent' = p
    BY <1>2, <1>3, <1>4 DEF Inv, OneCommitted
  <2>2. ASSUME NEW p \in PlanIds, plans'[p].state \in LiveStates \cup {"committed"}
        PROVE  plans'[p].authority = s.authority
    <3>1. p \notin Moved(s)
      BY <1>2, <1>4, <2>2 DEF LiveStates
    <3>2. plans'[p] = plans[p] /\ plans[p].state # "absent"
      BY <1>3, <1>4, <2>2, <3>1 DEF LiveStates
    <3>3. plans[p] \in Plans
      BY <3>2, StateIsKnown
    <3>4. identical(compare_authority(plans[p].authority, s.authority))
      BY <2>2, <3>1, <3>2 DEF Moved
    <3>5. plans[p].authority \in Authorities /\ s.authority \in Authorities
      BY <3>3 DEF Plans, Authorities
    <3>6. QED
      BY <3>2, <3>4, <3>5, AuthoritiesAreVectors, IdenticalIsEqual
  <2>3. BoundToLive'
    BY <1>4, <2>2 DEF BoundToLive
  <2>4. QED
    BY <1>1, <1>3, <1>4, <2>1, <2>3, AppendedInv
<1>5. ASSUME NEW some \in SUBSET Moved(s), Crashed(Demoted(Moved(s)), some) PROVE Inv'
  BY <1>1, <1>2, <1>5, CrashedInv
<1>6. QED
  BY <1>4, <1>5, NoFailure, SubmitSnapshotCases

\* declare keeps the inductive invariant.
LEMMA DeclareInv ==
    ASSUME MaxFaults = 0, TypeOK, Inv, NEW p \in PlanIds, NEW request \in Requests,
           Declare(p, request)
    PROVE  Inv'
<1> DEFINE next == [plans EXCEPT ![p] = DeclaredPlan]
<1>1. next \in [PlanIds -> Records] /\ live # NoSnapshot
  BY DeclareCases, DeclaredPlanType
<1>2. next[p].state = "declared" /\ next[p].authority = live.authority
      /\ \A q \in PlanIds : q \notin {p} => next[q] = plans[q]
  BY DEF DeclaredPlan, TypeOK
<1>3. \A q \in PlanIds : next[q].state = "committed" => incumbent = q
  BY <1>2 DEF Inv, OneCommitted
<1>4. \A q \in PlanIds : next[q].state \in LiveStates \cup {"committed"} => next[q].authority = live.authority
  BY <1>1, <1>2 DEF Inv, BoundToLive
<1>5. \/ Appended(next, {p}) /\ plans' = next /\ UNCHANGED <<live, incumbent, faults>>
      \/ Crashed(next, {p})
  BY DeclareCases, NoFailure
<1> HIDE DEF next
<1>6. CASE Appended(next, {p}) /\ plans' = next /\ UNCHANGED <<live, incumbent, faults>>
  <2>1. BoundToLive'
    BY <1>4, <1>6 DEF BoundToLive
  <2>2. QED
    BY <1>1, <1>2, <1>3, <1>6, <2>1, AppendedInv
<1>7. CASE Crashed(next, {p})
  BY <1>1, <1>2, <1>7, CrashedInv
<1>8. QED
  BY <1>5, <1>6, <1>7

\* commit keeps the inductive invariant, crash between its appends included.
LEMMA CommitInv ==
    ASSUME MaxFaults = 0, TypeOK, Inv, NEW p \in PlanIds, NEW c \in CommitIds, Commit(p, c)
    PROVE  Inv'
<1>1. plans[p] \in Plans /\ live # NoSnapshot
  BY CommitCases, KnownType DEF Known
<1>2. CASE MutateOne(p, MakeStale(plans[p])) \/ MutateOne(p, [plans[p] EXCEPT !.state = "rejected"])
  BY <1>1, <1>2, ActionPlansInv
<1>3. CASE /\ identical(Delta(p))
           /\ Mutate(AfterCommit(p, c), p, Previous(p), {p}, {<<p, c>>})
  <2> DEFINE next == AfterCommit(p, c)
  <2>1. next \in [PlanIds -> Records]
    BY <1>1, AfterCommitType
  <2>2. ASSUME NEW q \in Previous(p)
        PROVE  q \in PlanIds /\ next[q].state = "superseded"
    <3>1. q \in PlanIds /\ q # p /\ plans[q].state = "committed"
      BY DEF Previous
    <3>2. plans[q] \in Plans
      BY <3>1, StateIsKnown
    <3>3. QED
      BY <3>1, <3>2 DEF AfterCommit, MakeSuperseded, Plans
  <2>3. ASSUME NEW q \in PlanIds, q \notin Previous(p), q # p
        PROVE  next[q] = plans[q] /\ plans[q].state # "committed"
    BY <2>3 DEF AfterCommit, Previous, Inv, OneCommitted
  <2>4. next[p].authority = live.authority
    <3>1. next[p].authority = plans[p].authority
      BY <1>1 DEF AfterCommit, CommittedPlan, Plans
    <3>2. QED
      BY <1>1, <1>3, <3>1, SameAuthority
  <2> HIDE DEF next
  <2>5. \A q \in PlanIds : q \notin Previous(p) \cup {p} => next[q] = plans[q]
    BY <2>3
  <2>6. \A q \in PlanIds : next[q].state = "committed" => p = q
    BY <2>2, <2>3
  <2>7. \A q \in PlanIds :
          next[q].state \in LiveStates \cup {"committed"} => next[q].authority = live.authority
    BY <1>1, <2>2, <2>3, <2>4 DEF Inv, BoundToLive, LiveStates
  <2>8. Mutate(next, p, Previous(p), {p}, {<<p, c>>})
    BY <1>3 DEF next
  <2>9. QED
    BY <2>1, <2>2, <2>5, <2>6, <2>7, <2>8, MutateInv
<1>4. QED
  BY <1>2, <1>3, CommitCases

\* With one plan of record there is nothing for supersede to do.
LEMMA SupersedeInv ==
    ASSUME TypeOK, Inv, NEW old \in PlanIds, NEW by \in PlanIds
    PROVE  ~Supersede(old, by)
BY DEF Supersede, Inv, OneCommitted

\* retire keeps the inductive invariant.
LEMMA RetireInv ==
    ASSUME MaxFaults = 0, TypeOK, Inv, NEW p \in PlanIds, Retire(p)
    PROVE  Inv'
<1> DEFINE next == [plans EXCEPT ![p] = RetiredPlan(p)]
           inc == IF incumbent = p THEN NoPlan ELSE incumbent
<1>1. plans[p] \in Plans /\ Mutate(next, inc, {}, {p}, {})
  BY RetireCases
<1>2. RetiredPlan(p) \in Plans /\ RetiredPlan(p).state = "retired"
  BY <1>1, SetStateType, StateNames DEF RetiredPlan, Plans
<1>3. next \in [PlanIds -> Records] /\ \A q \in PlanIds : q \notin {} \cup {p} => next[q] = plans[q]
  BY <1>2 DEF TypeOK, Records
<1>4. next[p].state = "retired"
  BY <1>2 DEF TypeOK
<1>5. \A q \in PlanIds : next[q].state = "committed" => inc = q
  BY <1>3, <1>4 DEF Inv, OneCommitted
<1> HIDE DEF next
<1>6. live # NoSnapshot => \A q \in PlanIds :
        next[q].state \in LiveStates \cup {"committed"} => next[q].authority = live.authority
  BY <1>3, <1>4 DEF Inv, BoundToLive, LiveStates
<1> HIDE DEF inc
<1>7. QED
  BY ONLY MaxFaults = 0, TypeOK, Inv, <1>1, <1>3, <1>5, <1>6, MutateInv

\* revalidate keeps the inductive invariant.
LEMMA RevalidateInv ==
    ASSUME MaxFaults = 0, TypeOK, Inv, NEW p \in PlanIds, Revalidate(p)
    PROVE  Inv'
<1>1. plans[p] \in Plans
  BY KnownType DEF Revalidate, Known
<1>2. CASE MutateOne(p, MakeStale(plans[p]))
  BY <1>1, <1>2, ActionPlansInv
<1>3. ASSUME NEW a \in Applicabilities, plans' = [plans EXCEPT ![p].applicability = a],
             UNCHANGED <<pending, live, incumbent, disk, faults, acked>>
      PROVE  Inv'
  <2> DEFINE plan == [plans[p] EXCEPT !.applicability = a]
  <2>1. plan.state = plans[p].state /\ plan.authority = plans[p].authority
    BY <1>1 DEF Plans
  <2>2. Fact(plan) = Fact(plans[p])
    <3>1. CASE plans[p].state \in LiveStates
      BY <1>1, <3>1 DEF Fact, Recovered, Plans, Absent, LiveStates
    <3>2. CASE plans[p].state \notin LiveStates
      BY <1>1, <3>2 DEF Fact, Recovered, Plans, Absent, LiveStates
    <3>3. QED
      BY <3>1, <3>2
  <2>3. plans' = [plans EXCEPT ![p] = plan]
    BY <1>3
  <2> HIDE DEF plan
  <2>4. \A q \in PlanIds : /\ plans'[q].state = plans[q].state
                           /\ Fact(plans'[q]) = Fact(plans[q])
                           /\ plans'[q].authority = plans[q].authority
    BY <2>1, <2>2, <2>3 DEF TypeOK
  <2>5. QED
    BY <1>3, <2>4 DEF Inv, CleanLog, RestartForgetsNothing, OneCommitted, BoundToLive, disk
<1>4. QED
  BY <1>2, <1>3, StateNames DEF Revalidate

\* With a log that does not fail every reachable state has the inductive
\* invariant.
LEMMA CleanLogInv ==
    ASSUME MaxFaults = 0
    PROVE  Spec => []Inv
<1>1. Init => Inv
  <2>1. ASSUME Init PROVE RestartForgetsNothing
    BY <2>1 DEF Init, RestartForgetsNothing
  <2>2. ASSUME Init PROVE CleanLog /\ OneCommitted /\ BoundToLive
    BY <2>2 DEF Init, CleanLog, OneCommitted, BoundToLive, Absent, LiveStates
  <2>3. QED
    BY <2>1, <2>2 DEF Inv
<1>2. TypeOK /\ Inv /\ [Next]_vars => Inv'
  <2> SUFFICES ASSUME TypeOK, Inv, [Next]_vars PROVE Inv'
    OBVIOUS
  <2>1. ASSUME NEW s \in Snapshots, SubmitSnapshot(s) PROVE Inv'
    BY <2>1, SubmitSnapshotInv
  <2>2. ASSUME NEW p \in PlanIds, NEW r \in Requests, Declare(p, r) PROVE Inv'
    BY <2>2, DeclareInv
  <2>3. ASSUME NEW p \in PlanIds, Validate(p) PROVE Inv'
    <3>1. plans[p] \in Plans /\ plans[p].state \in LiveStates
      BY <2>3, KnownType DEF Validate, Known, can_transition, LiveStates
    <3>2. QED
      BY <2>3, <3>1, ActionPlansInv DEF Validate
  <2>4. ASSUME NEW p \in PlanIds, Solve(p) PROVE Inv'
    <3>1. plans[p].state \in LiveStates
      BY <2>4, SolveCases DEF LiveStates
    <3>2. PICK plan \in Plans : SolveResult(p, plan)
      BY <2>4, SolveCases
    <3>3. QED
      BY <3>1, <3>2, MutateOneInv DEF SolveResult
  <2>5. ASSUME NEW p \in PlanIds, Authorize(p) PROVE Inv'
    <3>1. plans[p] \in Plans /\ plans[p].state \in LiveStates
      BY <2>5, KnownType DEF Authorize, Known, can_transition, LiveStates
    <3>2. QED
      BY <2>5, <3>1, ActionPlansInv DEF Authorize
  <2>6. ASSUME NEW p \in PlanIds, NEW c \in CommitIds, Commit(p, c) PROVE Inv'
    BY <2>6, CommitInv
  <2>7. ASSUME NEW p \in PlanIds, NEW c \in CommitIds, CommitReplay(p, c) PROVE Inv'
    BY <2>7 DEF CommitReplay, Inv, CleanLog, RestartForgetsNothing, OneCommitted, BoundToLive, disk
  <2>8. ASSUME NEW p \in PlanIds, NEW q \in PlanIds, Supersede(p, q) PROVE Inv'
    BY <2>8, SupersedeInv
  <2>9. ASSUME NEW p \in PlanIds, MarkStale(p) PROVE Inv'
    BY <2>9, KnownType, ActionPlansInv DEF MarkStale, Known
  <2>10. ASSUME NEW p \in PlanIds, Retire(p) PROVE Inv'
    BY <2>10, RetireInv
  <2>11. ASSUME NEW p \in PlanIds, Revalidate(p) PROVE Inv'
    BY <2>11, RevalidateInv
  <2>12. CASE Restart
    BY <2>12, RestartedInv DEF Restart, TypeOK, Records, Inv, CleanLog, OneCommitted
  <2>13. CASE UNCHANGED vars
    BY <2>13 DEF Inv, CleanLog, RestartForgetsNothing, OneCommitted, BoundToLive, vars, disk
  <2>14. QED
    BY <2>1, <2>2, <2>3, <2>4, <2>5, <2>6, <2>7, <2>8, <2>9, <2>10, <2>11, <2>12, <2>13 DEF Next
<1>3. QED
  BY <1>1, <1>2, TypeCorrect, PTL DEF Spec

\* With a log that does not fail, and crashes at any point: no mutation skips
\* the log, there is one plan of record in memory and on disk, and no
\* advancing or committed plan is left bound to inputs that have moved on.
THEOREM CleanLogInvariants ==
    ASSUME MaxFaults = 0
    PROVE  Spec => [](RestartForgetsNothing /\ OneCommitted /\ BoundToLive)
<1>1. Inv => RestartForgetsNothing /\ OneCommitted /\ BoundToLive
  BY DEF Inv
<1>2. QED
  BY <1>1, CleanLogInv, PTL

(***************************************************************************)
(* What the engine remembers: the lineage, the acknowledged commits and    *)
(* the lifecycle.                                                          *)
(*                                                                         *)
(* The properties here all follow from how one step may change the record  *)
(* of one plan, so the steps of the engine are first brought into one form *)
(* (StepShape): the records a method builds, and what became of them in    *)
(* memory and on disk.                                                     *)
(***************************************************************************)
(***************************************************************************)
(* One step, plan by plan                                                  *)
(***************************************************************************)
\* A step of the lifecycle, or none.
LifecycleStep(from, to) ==
    \/ from = to
    \/ can_transition(from, to)
    \/ from = "validated" /\ can_transition("solving", to)

\* The record moves on, and is neither committed nor displaced by it: the
\* commit and both lineage references stay.
Advances(r, s) ==
    /\ r \in Plans /\ s \in Plans
    /\ SameHistory(r, s)
    /\ LifecycleStep(r.state, s.state)
    /\ s.state \in {"committed", "superseded"} => s.state = r.state

\* The record is a new one.
Appears(r, s) ==
    /\ r = Absent /\ s \in Plans
    /\ s.state = "declared" /\ s.commit = NoCommit
    /\ s.supersedes = NoPlan /\ s.superseded_by = NoPlan

\* A method that commits nothing and displaces nothing.
Quiet(next) ==
    \A p \in PlanIds : \/ next[p] = plans[p]
                       \/ Advances(plans[p], next[p])
                       \/ Appears(plans[p], next[p])

\* The disk holds, of each plan, what it held or what the method built.
DiskFrom(next) ==
    \A p \in PlanIds : /\ log'[p] \in {log[p], next[p]}
                       /\ durable'[p] \in {log[p], durable[p], next[p]}

\* The three outcomes of a method: it returned; an append of it failed; the
\* process died and its successor recovered.
Done(next, ack) == plans' = next /\ acked' = acked \cup ack /\ DiskFrom(next)
Failed(next) ==
    /\ faults < MaxFaults /\ acked' = acked /\ DiskFrom(next)
    /\ \/ plans' = next
       \/ Quiet(next) /\ \A p \in PlanIds : plans'[p] \in {plans[p], next[p]}
Died(next, w) ==
    /\ acked' = acked
    /\ durable' \in Recoverable(next, w) \cup {durable}
    /\ log' = durable' /\ plans' = [p \in PlanIds |-> Recovered(durable'[p])]

Outcome(next, ack, ws) ==
    Done(next, ack) \/ Failed(next) \/ \E w \in ws : Died(next, w)

\* The four kinds of step.
QuietStep(next) == Quiet(next) /\ Outcome(next, {}, SUBSET PlanIds)
CommitStep(next, p, c) ==
    /\ plans[p] \in Plans /\ plans[p].state = "authorized"
    /\ next = AfterCommit(p, c)
    /\ Outcome(next, {<<p, c>>}, {{}, Previous(p)})
SupersedeStep(next, old, by) ==
    /\ plans[old] \in Plans /\ plans[by] \in Plans /\ old # by
    /\ plans[old].state = "committed" /\ plans[by].state = "committed"
    /\ next = AfterSupersede(old, by)
    /\ Outcome(next, {}, {{}, {old}})
ReplayStep(p, c) ==
    /\ plans[p].state = "committed" /\ plans[p].commit = c
    /\ acked' = acked \cup {<<p, c>>}
    /\ UNCHANGED <<plans, log, durable>>

StepShape ==
    \/ \E next \in [PlanIds -> Records] :
          \/ QuietStep(next)
          \/ \E p \in PlanIds, c \in CommitIds : CommitStep(next, p, c)
          \/ \E old, by \in PlanIds : SupersedeStep(next, old, by)
    \/ \E p \in PlanIds, c \in CommitIds : ReplayStep(p, c)

\* What the log and the disk can hold after some appends of w.
LEMMA LoggedFrom ==
    ASSUME TypeOK, NEW next, NEW w, NEW p \in PlanIds
    PROVE  /\ Logged(next, w)[p] \in {log[p], next[p]}
           /\ \A d \in Recoverable(next, w) : d[p] \in {log[p], durable[p], next[p]}
BY DEF Logged, Recoverable

\* Appends that succeed leave on disk what was there or what was built.
LEMMA AppendedFrom ==
    ASSUME TypeOK, NEW next, NEW w, Appended(next, w)
    PROVE  DiskFrom(next)
BY LoggedFrom DEF Appended, DiskFrom

\* So does an append that fails.
LEMMA AppendFailedFrom ==
    ASSUME TypeOK, NEW next, NEW w, NEW v, AppendFailed(next, w, v)
    PROVE  DiskFrom(next) /\ faults < MaxFaults
<1>1. CASE Appended(next, w) \/ Appended(next, v)
  BY <1>1, AppendedFrom DEF AppendFailed
<1>2. CASE /\ log' = Logged(next, w)
           /\ durable' \in Recoverable(next, w) \/ durable' = Logged(next, v)
  BY <1>2, LoggedFrom DEF AppendFailed, DiskFrom
<1>3. QED
  BY <1>1, <1>2 DEF AppendFailed

\* A crash in the middle of a method.
LEMMA CrashedDied ==
    ASSUME NEW next, NEW w, Crashed(next, w)
    PROVE  Died(next, w)
BY DEF Crashed, Restarted, Died

\* The outcomes of a mutating method.
LEMMA MutateOutcome ==
    ASSUME TypeOK, NEW next, NEW inc, NEW first, NEW second, NEW ack,
           Mutate(next, inc, first, second, ack)
    PROVE  Outcome(next, ack, {{}, first})
<1>1. CASE /\ Appended(next, first \cup second)
           /\ plans' = next /\ acked' = acked \cup ack
  BY <1>1, AppendedFrom DEF Outcome, Done
<1>2. CASE /\ AppendFailed(next, {}, first) \/ AppendFailed(next, first, first \cup second)
           /\ plans' = next /\ acked' = acked
  BY <1>2, AppendFailedFrom DEF Outcome, Failed
<1>3. CASE \E w \in {{}, first} : Crashed(next, w)
  BY <1>3, CrashedDied DEF Outcome
<1>4. QED
  BY <1>1, <1>2, <1>3 DEF Mutate

\* A method that moves one plan on is a quiet step.
LEMMA MutateOneShape ==
    ASSUME TypeOK, NEW p \in PlanIds, NEW plan \in Plans, Advances(plans[p], plan),
           MutateOne(p, plan)
    PROVE  StepShape
<1> DEFINE next == [plans EXCEPT ![p] = plan]
<1>1. next \in [PlanIds -> Records]
  BY DEF TypeOK, Records
<1>2. Quiet(next)
  BY DEF TypeOK, Quiet
<1>3. Mutate(next, incumbent, {}, {p}, {})
  BY DEF MutateOne
<1> HIDE DEF next
<1>4. Outcome(next, {}, {{}, {}})
  BY ONLY TypeOK, <1>3, MutateOutcome
<1>5. Outcome(next, {}, SUBSET PlanIds)
  BY <1>4 DEF Outcome
<1>6. QED
  BY <1>1, <1>2, <1>5 DEF StepShape, QuietStep

\* The plans the actions hand to MutateOne move on along the lifecycle.
LEMMA ActionPlansAdvance ==
    ASSUME NEW plan \in Plans
    PROVE  /\ can_transition(plan.state, "stale") => Advances(plan, MakeStale(plan))
           /\ can_transition(plan.state, "rejected") =>
                Advances(plan, [plan EXCEPT !.state = "rejected"])
           /\ can_transition(plan.state, "validated") =>
                Advances(plan, [plan EXCEPT !.state = "validated", !.applicability = "current"])
           /\ can_transition(plan.state, "authorized") =>
                Advances(plan, [plan EXCEPT !.state = "authorized", !.applicability = "current"])
<1>1. can_transition(plan.state, "stale") => Advances(plan, MakeStale(plan))
  BY ActionPlansType DEF Advances, SameHistory, LifecycleStep, MakeStale, Plans
<1>2. can_transition(plan.state, "rejected") => Advances(plan, [plan EXCEPT !.state = "rejected"])
  BY ActionPlansType DEF Advances, SameHistory, LifecycleStep, Plans
<1>3. can_transition(plan.state, "validated") =>
        Advances(plan, [plan EXCEPT !.state = "validated", !.applicability = "current"])
  BY ActionPlansType DEF Advances, SameHistory, LifecycleStep, Plans
<1>4. can_transition(plan.state, "authorized") =>
        Advances(plan, [plan EXCEPT !.state = "authorized", !.applicability = "current"])
  BY ActionPlansType DEF Advances, SameHistory, LifecycleStep, Plans
<1>5. QED
  BY <1>1, <1>2, <1>3, <1>4

\* submit_snapshot moves the plans it demotes on, and nothing else.
LEMMA SubmitSnapshotShape ==
    ASSUME TypeOK, NEW s \in Snapshots, SubmitSnapshot(s)
    PROVE  StepShape
<1> DEFINE next == Demoted(Moved(s))
<1>1. next \in [PlanIds -> Records] /\ Moved(s) \subseteq PlanIds
  BY DemotedType DEF Moved
<1>2. ASSUME NEW p \in Moved(s) PROVE Advances(plans[p], MakeStale(plans[p]))
  <2>1. plans[p] \in Plans
    BY StateIsKnown DEF Moved, LiveStates
  <2>2. can_transition(plans[p].state, "stale")
    BY DEF Moved, LiveStates, can_transition
  <2>3. QED
    BY <2>1, <2>2, ActionPlansAdvance
<1>3. Quiet(next)
  BY <1>2 DEF Quiet, Demoted
<1>4. CASE plans' = next /\ Appended(next, Moved(s)) /\ acked' = acked
  <2>1. Done(next, {})
    BY <1>4, AppendedFrom DEF Done
  <2>2. QED
    BY <1>1, <1>3, <2>1 DEF StepShape, QuietStep, Outcome
<1>5. ASSUME NEW some \in SUBSET Moved(s), NEW more \in SUBSET Moved(s),
             plans' = Demoted(more), AppendFailed(next, some, more), acked' = acked
      PROVE  StepShape
  <2>1. \A p \in PlanIds : plans'[p] \in {plans[p], next[p]}
    BY <1>5 DEF Demoted
  <2>2. Failed(next)
    BY <1>3, <1>5, <2>1, AppendFailedFrom DEF Failed
  <2>3. QED
    BY <1>1, <1>3, <2>2 DEF StepShape, QuietStep, Outcome
<1>6. ASSUME NEW some \in SUBSET Moved(s), Crashed(next, some) PROVE StepShape
  <2>1. Died(next, some) /\ some \in SUBSET PlanIds
    BY <1>1, <1>6, CrashedDied
  <2>2. QED
    BY <1>1, <1>3, <2>1 DEF StepShape, QuietStep, Outcome
<1>7. QED
  BY <1>4, <1>5, <1>6, SubmitSnapshotCases

\* declare adds one new plan.
LEMMA DeclareShape ==
    ASSUME TypeOK, NEW p \in PlanIds, NEW request \in Requests, Declare(p, request)
    PROVE  StepShape
<1> DEFINE next == [plans EXCEPT ![p] = DeclaredPlan]
<1>1. next \in [PlanIds -> Records] /\ DeclaredPlan \in Plans /\ plans[p] = Absent
  BY DeclareCases, DeclaredPlanType
<1>2. Appears(plans[p], DeclaredPlan)
  BY <1>1 DEF Appears, DeclaredPlan
<1>3. Quiet(next)
  BY <1>2 DEF Quiet, TypeOK
<1>4. \/ Appended(next, {p}) /\ plans' = next /\ acked' = acked
      \/ AppendFailed(next, {}, {p}) /\ plans' = plans /\ acked' = acked
      \/ Crashed(next, {p})
  BY DeclareCases
<1> HIDE DEF next
<1>5. Outcome(next, {}, SUBSET PlanIds)
  BY <1>3, <1>4, AppendedFrom, AppendFailedFrom, CrashedDied DEF Outcome, Done, Failed
<1>6. QED
  BY <1>1, <1>3, <1>5 DEF StepShape, QuietStep

\* validate, authorize, mark_stale and solve move one plan on.
LEMMA AdvancingShape ==
    ASSUME TypeOK, NEW p \in PlanIds, Validate(p) \/ Authorize(p) \/ MarkStale(p) \/ Solve(p)
    PROVE  StepShape
<1>1. plans[p] \in Plans
  BY KnownType DEF Validate, Authorize, MarkStale, Solve, Known
<1>2. CASE Validate(p)
  <2>1. can_transition(plans[p].state, "stale") /\ can_transition(plans[p].state, "validated")
    BY <1>2 DEF Validate, can_transition
  <2>2. QED
    BY <1>1, <1>2, <2>1, ActionPlansAdvance, ActionPlansType, MutateOneShape DEF Validate
<1>3. CASE Authorize(p)
  <2>1. /\ can_transition(plans[p].state, "stale") /\ can_transition(plans[p].state, "rejected")
        /\ can_transition(plans[p].state, "authorized")
    BY <1>3 DEF Authorize, can_transition
  <2>2. QED
    BY <1>1, <1>3, <2>1, ActionPlansAdvance, ActionPlansType, MutateOneShape DEF Authorize
<1>4. CASE MarkStale(p)
  BY <1>1, <1>4, ActionPlansAdvance, ActionPlansType, MutateOneShape DEF MarkStale
<1>5. CASE Solve(p)
  <2>1. PICK plan \in Plans : SolveResult(p, plan)
    BY <1>5, SolveCases
  <2>2. plans[p].state = "validated"
    BY <1>5, SolveCases
  <2>3. LifecycleStep(plans[p].state, plan.state)
    BY <2>1, <2>2 DEF SolveResult, LifecycleStep, can_transition
  <2>4. Advances(plans[p], plan) /\ MutateOne(p, plan)
    BY <1>1, <2>1, <2>3 DEF SolveResult, Advances
  <2>5. QED
    BY <2>4, MutateOneShape
<1>6. QED
  BY <1>2, <1>3, <1>4, <1>5

\* commit refuses the plan or commits it.
LEMMA CommitShape ==
    ASSUME TypeOK, NEW p \in PlanIds, NEW c \in CommitIds, Commit(p, c)
    PROVE  StepShape
<1>1. plans[p] \in Plans /\ plans[p].state = "authorized"
  BY CommitCases, KnownType DEF Known, can_transition
<1>2. can_transition(plans[p].state, "stale") /\ can_transition(plans[p].state, "rejected")
  BY <1>1 DEF can_transition
<1>3. CASE MutateOne(p, MakeStale(plans[p])) \/ MutateOne(p, [plans[p] EXCEPT !.state = "rejected"])
  BY <1>1, <1>2, <1>3, ActionPlansAdvance, ActionPlansType, MutateOneShape
<1>4. CASE Mutate(AfterCommit(p, c), p, Previous(p), {p}, {<<p, c>>})
  <2>1. AfterCommit(p, c) \in [PlanIds -> Records]
    BY <1>1, AfterCommitType
  <2>2. Outcome(AfterCommit(p, c), {<<p, c>>}, {{}, Previous(p)})
    BY <1>4, MutateOutcome
  <2>3. CommitStep(AfterCommit(p, c), p, c)
    BY <1>1, <2>2 DEF CommitStep
  <2>4. QED
    BY <2>1, <2>3 DEF StepShape
<1>5. QED
  BY <1>3, <1>4, CommitCases

\* supersede displaces one committed plan by another.
LEMMA SupersedeShape ==
    ASSUME TypeOK, NEW old \in PlanIds, NEW by \in PlanIds, Supersede(old, by)
    PROVE  StepShape
<1>1. Outcome(AfterSupersede(old, by), {}, {{}, {old}})
  BY SupersedeCases, MutateOutcome
<1>2. SupersedeStep(AfterSupersede(old, by), old, by)
  BY <1>1, SupersedeCases DEF SupersedeStep
<1>3. QED
  BY <1>2, SupersedeCases DEF StepShape

\* retire moves one plan on.
LEMMA RetireShape ==
    ASSUME TypeOK, NEW p \in PlanIds, Retire(p)
    PROVE  StepShape
<1> DEFINE next == [plans EXCEPT ![p] = RetiredPlan(p)]
           inc == IF incumbent = p THEN NoPlan ELSE incumbent
<1>1. plans[p] \in Plans /\ can_transition(plans[p].state, "retired")
      /\ Mutate(next, inc, {}, {p}, {})
  BY RetireCases
<1>2. RetiredPlan(p) \in Plans /\ Advances(plans[p], RetiredPlan(p))
  BY <1>1, SetStateType, StateNames DEF RetiredPlan, Advances, SameHistory, LifecycleStep, Plans
<1>3. next \in [PlanIds -> Records] /\ Quiet(next)
  BY <1>2 DEF TypeOK, Records, Quiet
<1> HIDE DEF next, inc
<1>4. Outcome(next, {}, {{}, {}})
  BY ONLY TypeOK, <1>1, MutateOutcome
<1>5. Outcome(next, {}, SUBSET PlanIds)
  BY <1>4 DEF Outcome
<1>6. QED
  BY <1>3, <1>5 DEF StepShape, QuietStep

\* revalidate changes an applicability or demotes one plan.
LEMMA RevalidateShape ==
    ASSUME TypeOK, NEW p \in PlanIds, Revalidate(p)
    PROVE  StepShape
<1>1. plans[p] \in Plans
  BY KnownType DEF Revalidate, Known
<1>2. CASE plans[p].state = "committed" /\ MutateOne(p, MakeStale(plans[p]))
  <2>1. can_transition(plans[p].state, "stale")
    BY <1>2 DEF can_transition
  <2>2. QED
    BY <1>1, <1>2, <2>1, ActionPlansAdvance, ActionPlansType, MutateOneShape
<1>3. ASSUME NEW a \in Applicabilities, plans' = [plans EXCEPT ![p].applicability = a],
             UNCHANGED <<disk, acked>>
      PROVE  StepShape
  <2> DEFINE plan == [plans[p] EXCEPT !.applicability = a]
             next == [plans EXCEPT ![p] = plan]
  <2>1. plan \in Plans /\ Advances(plans[p], plan)
    BY <1>1, SetStateType, StateNames DEF Advances, SameHistory, LifecycleStep, Plans
  <2>2. plans' = next
    BY <1>3
  <2> HIDE DEF plan
  <2>3. next \in [PlanIds -> Records] /\ Quiet(next)
    BY <2>1 DEF TypeOK, Records, Quiet
  <2>4. Done(next, {})
    BY <1>3, <2>2 DEF Done, DiskFrom, disk
  <2> HIDE DEF next
  <2>5. QED
    BY <2>3, <2>4 DEF StepShape, QuietStep, Outcome
<1>4. QED
  BY <1>2, <1>3, StateNames DEF Revalidate

\* Every step of the engine, restarts and steps that change nothing included,
\* has the shape.
LEMMA StepHasShape ==
    ASSUME TypeOK, [Next]_vars
    PROVE  StepShape
<1>0. plans \in [PlanIds -> Records] /\ Quiet(plans)
  BY DEF TypeOK, Records, Quiet
<1>1. CASE Restart
  <2>1. Died(plans, {})
    BY <1>1 DEF Restart, Restarted, Died
  <2>2. QED
    BY <1>0, <2>1 DEF StepShape, QuietStep, Outcome
<1>2. CASE UNCHANGED vars
  <2>1. Done(plans, {})
    BY <1>2 DEF vars, disk, Done, DiskFrom
  <2>2. QED
    BY <1>0, <2>1 DEF StepShape, QuietStep, Outcome
<1>3. ASSUME NEW p \in PlanIds, NEW c \in CommitIds, CommitReplay(p, c) PROVE StepShape
  <2>1. ReplayStep(p, c)
    BY <1>3 DEF CommitReplay, ReplayStep, disk
  <2>2. QED
    BY <2>1 DEF StepShape
<1>4. QED
  BY <1>1, <1>2, <1>3, SubmitSnapshotShape, DeclareShape, AdvancingShape, CommitShape,
     SupersedeShape, RetireShape, RevalidateShape DEF Next

(***************************************************************************)
(* The lineage, with any number of failed appends.  New references lead    *)
(* from a plan that is committed to one that is or becomes committed; the  *)
(* inductive invariant says that such plans have no successor yet, in      *)
(* memory, in the log and on disk, and that neither the log nor the disk   *)
(* knows a reference that memory does not.                                 *)
(***************************************************************************)
\* A plan that is still advancing has no commit, and neither it nor a
\* committed one has a successor.
Fresh(r) ==
    r # Absent => /\ r.state \in LiveStates => r.commit = NoCommit
                  /\ r.state \in LiveStates \cup {"committed"} => r.superseded_by = NoPlan
RecordsFresh == \A p \in PlanIds : Fresh(plans[p]) /\ Fresh(log[p]) /\ Fresh(durable[p])

\* The reference a record holds to its successor.
Successor(r) == IF r = Absent THEN NoPlan ELSE r.superseded_by
NothingNewOnDisk ==
    \A p \in PlanIds : /\ Successor(log[p]) \in {NoPlan, Successor(plans[p])}
                       /\ Successor(durable[p]) \in {NoPlan, Successor(plans[p])}
Acyclic(records) ==
    \A S \in (SUBSET PlanIds) \ {{}} : \E p \in S : Successor(records[p]) \notin S

LineageInv == RecordsFresh /\ NothingNewOnDisk /\ Acyclic(plans)

\* Recovery keeps a record fresh, and its successor.
LEMMA RecoveredFresh ==
    ASSUME NEW r \in Records, Fresh(r)
    PROVE  Fresh(Recovered(r)) /\ Successor(Recovered(r)) = Successor(r)
<1>1. CASE r = Absent
  BY <1>1 DEF Recovered, Fresh, Successor
<1>2. CASE r \in Plans
  <2>1. CASE r.state \in LiveStates
    BY <1>2, <2>1 DEF Recovered, Fresh, Successor, Plans, Absent, LiveStates
  <2>2. CASE r.state \notin LiveStates
    BY <1>2, <2>2 DEF Recovered, Fresh, Successor, Plans, Absent
  <2>3. QED
    BY <2>1, <2>2
<1>3. QED
  BY <1>1, <1>2 DEF Records

\* A quiet method keeps records fresh and every reference.
LEMMA QuietFresh ==
    ASSUME TypeOK, RecordsFresh, NEW next, Quiet(next), NEW p \in PlanIds
    PROVE  Fresh(next[p]) /\ Successor(next[p]) = Successor(plans[p])
<1>1. Fresh(plans[p])
  BY DEF RecordsFresh
<1>2. CASE next[p] = plans[p]
  BY <1>1, <1>2
<1>3. CASE Advances(plans[p], next[p])
  <2>1. plans[p] # Absent /\ next[p] # Absent
    BY <1>3 DEF Advances, Plans, Absent
  <2>2. next[p].state \in LiveStates => plans[p].state \in LiveStates
    BY <1>3 DEF Advances, LifecycleStep, can_transition, LiveStates
  <2>3. next[p].state = "committed" => plans[p].state = "committed"
    BY <1>3 DEF Advances
  <2>4. QED
    BY <1>1, <1>3, <2>1, <2>2, <2>3 DEF Advances, SameHistory, Fresh, Successor
<1>4. CASE Appears(plans[p], next[p])
  BY <1>4 DEF Appears, Fresh, Successor
<1>5. QED
  BY <1>2, <1>3, <1>4 DEF Quiet

\* A reference from a plan that has none yet to one that has none closes no
\* cycle.
LEMMA NewReferenceAcyclic ==
    ASSUME NEW records, NEW next, NEW old \in PlanIds, NEW by \in PlanIds, old # by,
           NoPlan \notin PlanIds, Acyclic(records),
           Successor(next[old]) = by, Successor(next[by]) = NoPlan,
           \A p \in PlanIds \ {old} : Successor(next[p]) = Successor(records[p])
    PROVE  Acyclic(next)
<1> SUFFICES ASSUME NEW S \in (SUBSET PlanIds) \ {{}}
             PROVE  \E p \in S : Successor(next[p]) \notin S
  BY DEF Acyclic
<1>1. CASE by \in S
  BY <1>1
<1>2. CASE by \notin S /\ old \in S
  BY <1>2
<1>3. CASE old \notin S
  BY <1>3 DEF Acyclic
<1>4. QED
  BY <1>1, <1>2, <1>3

\* Dropping references closes no cycle.
LEMMA FewerReferencesAcyclic ==
    ASSUME NEW records, NEW fewer, NoPlan \notin PlanIds, Acyclic(records),
           \A p \in PlanIds : Successor(fewer[p]) \in {NoPlan, Successor(records[p])}
    PROVE  Acyclic(fewer)
<1> SUFFICES ASSUME NEW S \in (SUBSET PlanIds) \ {{}}
             PROVE  \E p \in S : Successor(fewer[p]) \notin S
  BY DEF Acyclic
<1>1. PICK p \in S : Successor(records[p]) \notin S
  BY DEF Acyclic
<1>2. QED
  BY <1>1

\* Whatever the outcome, the disk and the log hold of each plan something
\* they held before or what the method built.
LEMMA OutcomeDisk ==
    ASSUME TypeOK, NEW next, NEW ack, NEW ws, Outcome(next, ack, ws), NEW p \in PlanIds
    PROVE  /\ log'[p] \in {log[p], durable[p], next[p]}
           /\ durable'[p] \in {log[p], durable[p], next[p]}
<1>1. CASE DiskFrom(next)
  BY <1>1 DEF DiskFrom
<1>2. ASSUME NEW w, Died(next, w)
      PROVE  log'[p] \in {log[p], durable[p], next[p]} /\ durable'[p] = log'[p]
  BY <1>2, LoggedFrom DEF Died
<1>3. QED
  BY <1>1, <1>2 DEF Outcome, Done, Failed

\* Every outcome of a method whose records are fresh, acyclic and know every
\* reference there was keeps the invariant.
LEMMA OutcomeLineage ==
    ASSUME TypeOK, LineageInv, NEW next \in [PlanIds -> Records], NEW ack, NEW ws,
           \A p \in PlanIds : /\ Fresh(next[p])
                              /\ Successor(plans[p]) \in {NoPlan, Successor(next[p])},
           Acyclic(next), Outcome(next, ack, ws)
    PROVE  LineageInv'
<1>1. \A p \in PlanIds : /\ Fresh(log'[p]) /\ Fresh(durable'[p])
                         /\ Successor(log'[p]) \in {NoPlan, Successor(next[p])}
                         /\ Successor(durable'[p]) \in {NoPlan, Successor(next[p])}
                         /\ log'[p] \in Records /\ durable'[p] \in Records
  <2>1. \A p \in PlanIds : /\ log'[p] \in {log[p], durable[p], next[p]}
                           /\ durable'[p] \in {log[p], durable[p], next[p]}
    BY OutcomeDisk
  <2>2. \A p \in PlanIds :
          /\ Fresh(log[p]) /\ Fresh(durable[p]) /\ Fresh(next[p])
          /\ Successor(log[p]) \in {NoPlan, Successor(next[p])}
          /\ Successor(durable[p]) \in {NoPlan, Successor(next[p])}
          /\ log[p] \in Records /\ durable[p] \in Records
    BY DEF LineageInv, RecordsFresh, NothingNewOnDisk, TypeOK, Records
  <2>3. QED
    BY <2>1, <2>2
<1>2. CASE plans' = next
  <2>1. RecordsFresh' /\ NothingNewOnDisk'
    BY <1>1, <1>2 DEF RecordsFresh, NothingNewOnDisk
  <2>2. QED
    BY <1>2, <2>1 DEF LineageInv, Acyclic
<1>3. CASE Quiet(next) /\ \A p \in PlanIds : plans'[p] \in {plans[p], next[p]}
  <2>1. \A p \in PlanIds : Fresh(plans'[p]) /\ Successor(plans'[p]) = Successor(plans[p])
    BY <1>3, QuietFresh DEF LineageInv, RecordsFresh
  <2>2. \A p \in PlanIds : Successor(next[p]) = Successor(plans[p])
    BY <1>3, QuietFresh DEF LineageInv
  <2>3. RecordsFresh' /\ NothingNewOnDisk'
    BY <1>1, <2>1, <2>2 DEF RecordsFresh, NothingNewOnDisk
  <2>4. QED
    BY <2>1, <2>3 DEF LineageInv, Acyclic
<1>4. ASSUME NEW w, Died(next, w) PROVE LineageInv'
  <2>1. \A p \in PlanIds : plans'[p] = Recovered(durable'[p]) /\ log'[p] = durable'[p]
    BY <1>4 DEF Died
  <2>2. \A p \in PlanIds : Fresh(plans'[p]) /\ Successor(plans'[p]) = Successor(durable'[p])
    BY <1>1, <2>1, RecoveredFresh
  <2>3. Acyclic(plans')
    BY <1>1, <2>2, PlanIdsAssumption, FewerReferencesAcyclic
  <2>4. RecordsFresh' /\ NothingNewOnDisk'
    BY <1>1, <2>1, <2>2 DEF RecordsFresh, NothingNewOnDisk
  <2>5. QED
    BY <2>3, <2>4 DEF LineageInv, Acyclic
<1>5. QED
  BY <1>2, <1>3, <1>4 DEF Outcome, Done, Failed

\* A commit that displaces a plan adds one reference, to the new one.
LEMMA CommitLineage ==
    ASSUME TypeOK, LineageInv, NEW p \in PlanIds, NEW c \in CommitIds,
           plans[p] \in Plans, plans[p].state = "authorized"
    PROVE  /\ \A q \in PlanIds : /\ Fresh(AfterCommit(p, c)[q])
                                 /\ Successor(plans[q]) \in {NoPlan, Successor(AfterCommit(p, c)[q])}
           /\ Acyclic(AfterCommit(p, c))
<1> DEFINE next == AfterCommit(p, c)
<1>1. plans[p] # Absent /\ plans[p].superseded_by = NoPlan
  BY DEF LineageInv, RecordsFresh, Fresh, Plans, Absent, LiveStates
<1>2. next[p] \in Plans /\ next[p].state = "committed" /\ next[p].superseded_by = NoPlan
  BY <1>1, StateNames DEF AfterCommit, CommittedPlan, Plans, TypeOK
<1>3. Fresh(next[p]) /\ Successor(next[p]) = NoPlan /\ Successor(plans[p]) = NoPlan
  BY <1>1, <1>2 DEF Fresh, Successor, Plans, Absent, LiveStates
<1>4. ASSUME NEW q \in Previous(p)
      PROVE  /\ q \in PlanIds /\ q # p /\ q = incumbent
             /\ Fresh(next[q]) /\ Successor(next[q]) = p /\ Successor(plans[q]) = NoPlan
  <2>1. q \in PlanIds /\ q # p /\ q = incumbent /\ plans[q].state = "committed"
    BY DEF Previous
  <2>2. plans[q] \in Plans
    BY <2>1, StateIsKnown
  <2>3. next[q] = MakeSuperseded(plans[q], p)
    BY <2>1 DEF AfterCommit
  <2>4. next[q] \in Plans /\ next[q].state = "superseded" /\ next[q].superseded_by = p
    BY <2>2, <2>3, SetSupersededType DEF MakeSuperseded, Plans
  <2>5. plans[q].superseded_by = NoPlan
    BY <2>1, <2>2 DEF LineageInv, RecordsFresh, Fresh, Plans, Absent
  <2>6. QED
    BY <2>1, <2>2, <2>4, <2>5 DEF Fresh, Successor, Plans, Absent, LiveStates
<1>5. ASSUME NEW q \in PlanIds, q # p, q \notin Previous(p)
      PROVE  next[q] = plans[q] /\ Fresh(next[q])
  BY <1>5 DEF AfterCommit, LineageInv, RecordsFresh
<1> HIDE DEF next
<1>6. \A q \in PlanIds : Fresh(next[q]) /\ Successor(plans[q]) \in {NoPlan, Successor(next[q])}
  BY <1>3, <1>4, <1>5
<1>7. Acyclic(next)
  <2>1. CASE Previous(p) = {}
    BY <1>3, <1>5, <2>1 DEF LineageInv, Acyclic
  <2>2. CASE Previous(p) # {}
    <3>1. PICK old \in Previous(p) : Previous(p) = {old}
      BY <1>4, <2>2
    <3>2. \A q \in PlanIds \ {old} : Successor(next[q]) = Successor(plans[q])
      BY <1>3, <1>5, <3>1
    <3>3. QED
      BY <1>3, <1>4, <3>1, <3>2, PlanIdsAssumption, NewReferenceAcyclic DEF LineageInv
  <2>3. QED
    BY <2>1, <2>2
<1>8. QED
  BY <1>6, <1>7 DEF next

\* supersede adds one reference too.
LEMMA SupersedeLineage ==
    ASSUME TypeOK, LineageInv, NEW old \in PlanIds, NEW by \in PlanIds, old # by,
           plans[old] \in Plans, plans[old].state = "committed",
           plans[by] \in Plans, plans[by].state = "committed"
    PROVE  /\ \A q \in PlanIds :
                 /\ Fresh(AfterSupersede(old, by)[q])
                 /\ Successor(plans[q]) \in {NoPlan, Successor(AfterSupersede(old, by)[q])}
           /\ Acyclic(AfterSupersede(old, by))
<1> DEFINE next == AfterSupersede(old, by)
<1>1. plans[old].superseded_by = NoPlan /\ plans[by].superseded_by = NoPlan
  BY DEF LineageInv, RecordsFresh, Fresh, Plans, Absent
<1>2. Successor(plans[old]) = NoPlan /\ Successor(plans[by]) = NoPlan
  BY <1>1 DEF Successor
<1>3. Fresh(next[old]) /\ Successor(next[old]) = by
  <2>1. next[old] = MakeSuperseded(plans[old], by)
    BY DEF AfterSupersede, TypeOK
  <2>2. next[old] \in Plans /\ next[old].state = "superseded" /\ next[old].superseded_by = by
    BY <2>1, SetSupersededType DEF MakeSuperseded, Plans
  <2>3. QED
    BY <2>2 DEF Fresh, Successor, Plans, Absent, LiveStates
<1>4. Fresh(next[by]) /\ Successor(next[by]) = NoPlan
  <2>1. next[by] = [plans[by] EXCEPT !.supersedes = old]
    BY DEF AfterSupersede, TypeOK
  <2>2. next[by] \in Plans /\ next[by].state = "committed" /\ next[by].superseded_by = NoPlan
    BY <1>1, <2>1 DEF Plans
  <2>3. QED
    BY <2>2 DEF Fresh, Successor, Plans, Absent, LiveStates
<1>5. ASSUME NEW q \in PlanIds, q # old, q # by
      PROVE  next[q] = plans[q] /\ Fresh(next[q])
  BY <1>5 DEF AfterSupersede, TypeOK, LineageInv, RecordsFresh
<1> HIDE DEF next
<1>6. \A q \in PlanIds : Fresh(next[q]) /\ Successor(plans[q]) \in {NoPlan, Successor(next[q])}
  BY <1>2, <1>3, <1>4, <1>5
<1>7. \A q \in PlanIds \ {old} : Successor(next[q]) = Successor(plans[q])
  BY <1>2, <1>4, <1>5
<1>8. Acyclic(next)
  BY <1>3, <1>4, <1>7, PlanIdsAssumption, NewReferenceAcyclic DEF LineageInv
<1>9. QED
  BY <1>6, <1>8 DEF next

\* Every step keeps the lineage invariant.
LEMMA LineageStep ==
    ASSUME TypeOK, LineageInv, [Next]_vars
    PROVE  LineageInv'
<1>1. ASSUME NEW next \in [PlanIds -> Records], QuietStep(next) PROVE LineageInv'
  <2>1. \A p \in PlanIds : Fresh(next[p]) /\ Successor(next[p]) = Successor(plans[p])
    BY <1>1, QuietFresh DEF QuietStep, LineageInv
  <2>2. Acyclic(next)
    BY <2>1 DEF LineageInv, Acyclic
  <2>3. QED
    BY <1>1, <2>1, <2>2, OutcomeLineage DEF QuietStep
<1>2. ASSUME NEW next \in [PlanIds -> Records], NEW p \in PlanIds, NEW c \in CommitIds,
             CommitStep(next, p, c)
      PROVE  LineageInv'
  BY <1>2, CommitLineage, OutcomeLineage DEF CommitStep
<1>3. ASSUME NEW next \in [PlanIds -> Records], NEW old \in PlanIds, NEW by \in PlanIds,
             SupersedeStep(next, old, by)
      PROVE  LineageInv'
  BY <1>3, SupersedeLineage, OutcomeLineage DEF SupersedeStep
<1>4. ASSUME NEW p, NEW c, ReplayStep(p, c) PROVE LineageInv'
  BY <1>4 DEF ReplayStep, LineageInv, RecordsFresh, NothingNewOnDisk, Acyclic
<1>5. QED
  BY <1>1, <1>2, <1>3, <1>4, StepHasShape DEF StepShape

\* Whatever fails and whenever the process dies, every reachable state has
\* the lineage invariant.
LEMMA LineageInvHolds == Spec => []LineageInv
<1>1. Init => LineageInv
  BY PlanIdsAssumption DEF Init, LineageInv, RecordsFresh, NothingNewOnDisk, Acyclic, Fresh, Successor
<1>2. TypeOK /\ LineageInv /\ [Next]_vars => LineageInv'
  BY LineageStep
<1>3. QED
  BY <1>1, <1>2, TypeCorrect, PTL DEF Spec

\* The supersession lineage that commit and supersede build never closes on
\* itself, with any number of plans, failed appends, crashes and restarts
\* from records that are older than what memory held.
THEOREM LineageAcyclicHolds == Spec => []LineageAcyclic
<1>1. LineageInv => LineageAcyclic
  BY DEF LineageInv, LineageAcyclic, Acyclic, Successor, Known
<1>2. QED
  BY <1>1, LineageInvHolds, PTL

(***************************************************************************)
(* A log that does not fail: what a restart and what a reader learn.       *)
(***************************************************************************)
\* No mutation skips the log: a restart between two calls forgets no plan, no
\* transition, no commit and no lineage that a reader could have seen.
THEOREM RestartForgetsNothingHolds ==
    ASSUME MaxFaults = 0
    PROVE  Spec => []RestartForgetsNothing
BY CleanLogInvariants, PTL

\* submit_snapshot leaves no advancing or committed plan bound to inputs that
\* have moved on, though it demotes and appends them one by one.
THEOREM BoundToLiveHolds ==
    ASSUME MaxFaults = 0
    PROVE  Spec => []BoundToLive
BY CleanLogInvariants, PTL

(***************************************************************************)
(* Acknowledged commits.  A commit stands while its plan's record carries  *)
(* it and has not left the committed part of the lifecycle.                *)
(***************************************************************************)
StandsAs(r, c) ==
    /\ r # Absent /\ r.commit = c
    /\ r.state \in {"committed", "superseded", "stale", "retired"}

\* What a record's fact keeps of it.
LEMMA FactFields ==
    ASSUME NEW r \in Records
    PROVE  /\ Fact(r) = Absent <=> r = Absent
           /\ r # Absent => /\ r \in Plans /\ Fact(r) \in Plans
                            /\ SameHistory(r, Fact(r))
                            /\ r.state \in LiveStates => Fact(r).state = "stale"
                            /\ r.state \notin LiveStates => Fact(r).state = r.state
<1>1. CASE r = Absent
  BY <1>1 DEF Fact
<1>2. CASE r \in Plans
  <2>1. r # Absent
    BY <1>2 DEF Plans, Absent
  <2>2. "stale" \in States /\ "stale" \in Applicabilities /\ "revalidation_required" \in Applicabilities
    BY DEF States, Applicabilities
  <2>3. CASE r.state \in LiveStates
    <3>1. Fact(r) \in Plans /\ SameHistory(r, Fact(r)) /\ Fact(r).state = "stale"
      BY <1>2, <2>1, <2>2, <2>3 DEF Fact, Recovered, Plans, SameHistory
    <3>2. QED
      BY <1>2, <2>1, <2>3, <3>1 DEF Plans, Absent
  <2>4. CASE r.state \notin LiveStates
    <3>1. Fact(r) \in Plans /\ SameHistory(r, Fact(r)) /\ Fact(r).state = r.state
      BY <1>2, <2>1, <2>2, <2>4 DEF Fact, Recovered, Plans, SameHistory
    <3>2. QED
      BY <1>2, <2>1, <2>4, <3>1 DEF Plans, Absent
  <2>5. QED
    BY <2>3, <2>4
<1>3. QED
  BY <1>1, <1>2 DEF Records

\* A commit stands in one record if it stands in another with the same fact.
LEMMA StandsByFact ==
    ASSUME NEW r \in Records, NEW s \in Records, Fresh(s), Fact(r) = Fact(s),
           NEW c \in CommitIds, StandsAs(r, c)
    PROVE  StandsAs(s, c)
<1>1. r # Absent /\ s # Absent /\ s.commit = c
  BY FactFields DEF StandsAs, SameHistory
<1>2. s.state \notin LiveStates
  BY <1>1, FaultsAssumption DEF Fresh
<1>3. r.state \notin LiveStates
  BY DEF StandsAs, LiveStates
<1>4. s.state = r.state
  BY <1>1, <1>2, <1>3, FactFields
<1>5. QED
  BY <1>1, <1>4 DEF StandsAs

\* No method takes a commit back.
LEMMA StandsInNext ==
    ASSUME TypeOK, NEW next \in [PlanIds -> Records], NEW p \in PlanIds, NEW c \in CommitIds,
           \/ Quiet(next)
           \/ \E q \in PlanIds, x \in CommitIds : CommitStep(next, q, x)
           \/ \E old, by \in PlanIds : SupersedeStep(next, old, by),
           StandsAs(plans[p], c)
    PROVE  StandsAs(next[p], c)
<1>1. plans[p] \in Plans /\ plans[p] # Absent
  BY KnownType DEF StandsAs
<1>2. CASE Quiet(next)
  <2>1. CASE next[p] = plans[p]
    BY <2>1
  <2>2. CASE Advances(plans[p], next[p])
    <3>1. next[p] # Absent /\ next[p].commit = c
      BY <2>2 DEF Advances, SameHistory, StandsAs, Plans, Absent
    <3>2. next[p].state \in {"committed", "superseded", "stale", "retired"}
      BY <2>2 DEF Advances, LifecycleStep, can_transition, StandsAs
    <3>3. QED
      BY <3>1, <3>2 DEF StandsAs
  <2>3. QED
    BY <1>1, <1>2, <2>1, <2>2 DEF Quiet, Appears
<1>3. ASSUME NEW q \in PlanIds, NEW x \in CommitIds, CommitStep(next, q, x)
      PROVE  StandsAs(next[p], c)
  <2>1. p # q
    BY <1>3 DEF CommitStep, StandsAs
  <2>2. CASE p \in Previous(q)
    <3>1. next[p] = MakeSuperseded(plans[p], q)
      BY <1>3, <2>1, <2>2 DEF CommitStep, AfterCommit
    <3>2. QED
      BY <1>1, <3>1, SetSupersededType DEF MakeSuperseded, StandsAs, Plans, Absent
  <2>3. CASE p \notin Previous(q)
    BY <1>3, <2>1, <2>3 DEF CommitStep, AfterCommit
  <2>4. QED
    BY <2>2, <2>3
<1>4. ASSUME NEW old \in PlanIds, NEW by \in PlanIds, SupersedeStep(next, old, by)
      PROVE  StandsAs(next[p], c)
  <2>1. next = AfterSupersede(old, by) /\ old # by
    BY <1>4 DEF SupersedeStep
  <2>2. CASE p = old
    <3>1. next[p] = MakeSuperseded(plans[p], by)
      BY <2>1, <2>2 DEF AfterSupersede, TypeOK
    <3>2. QED
      BY <1>1, <3>1, SetSupersededType DEF MakeSuperseded, StandsAs, Plans, Absent
  <2>3. CASE p = by
    <3>1. next[p] = [plans[p] EXCEPT !.supersedes = old]
      BY <2>1, <2>3 DEF AfterSupersede, TypeOK
    <3>2. QED
      BY <1>1, <3>1 DEF StandsAs, Plans, Absent
  <2>4. CASE p # old /\ p # by
    BY <2>1, <2>4 DEF AfterSupersede, TypeOK
  <2>5. QED
    BY <2>2, <2>3, <2>4
<1>5. QED
  BY <1>2, <1>3, <1>4

\* With a log that does not fail, a commit that stands on disk goes on
\* standing there, whatever the engine does and wherever it crashes.
LEMMA StandsStep ==
    ASSUME TypeOK, Inv, LineageInv, [Next]_vars,
           NEW p \in PlanIds, NEW c \in CommitIds, StandsAs(durable[p], c)
    PROVE  StandsAs(durable'[p], c)
<1>1. StandsAs(plans[p], c) /\ log[p] = durable[p]
  <2>1. plans[p] \in Records /\ durable[p] \in Records /\ Fresh(plans[p])
    BY DEF TypeOK, Records, LineageInv, RecordsFresh
  <2>2. Fact(durable[p]) = Fact(plans[p]) /\ log = durable
    BY DEF Inv, CleanLog, RestartForgetsNothing
  <2>3. QED
    BY <2>1, <2>2, StandsByFact
<1>2. ASSUME NEW next \in [PlanIds -> Records], NEW ack, NEW ws, Outcome(next, ack, ws),
             StandsAs(next[p], c)
      PROVE  StandsAs(durable'[p], c)
  BY <1>1, <1>2, OutcomeDisk
<1>3. ASSUME NEW next \in [PlanIds -> Records], QuietStep(next) PROVE StandsAs(durable'[p], c)
  BY <1>1, <1>2, <1>3, StandsInNext DEF QuietStep
<1>4. ASSUME NEW next \in [PlanIds -> Records], NEW q \in PlanIds, NEW x \in CommitIds,
             CommitStep(next, q, x)
      PROVE  StandsAs(durable'[p], c)
  <2>1. StandsAs(next[p], c)
    BY <1>1, <1>4, StandsInNext
  <2>2. QED
    BY <1>2, <1>4, <2>1 DEF CommitStep
<1>5. ASSUME NEW next \in [PlanIds -> Records], NEW old \in PlanIds, NEW by \in PlanIds,
             SupersedeStep(next, old, by)
      PROVE  StandsAs(durable'[p], c)
  <2>1. StandsAs(next[p], c)
    BY <1>1, <1>5, StandsInNext
  <2>2. QED
    BY <1>2, <1>5, <2>1 DEF SupersedeStep
<1>6. ASSUME NEW q, NEW x, ReplayStep(q, x) PROVE StandsAs(durable'[p], c)
  BY <1>6 DEF ReplayStep
<1>7. QED
  BY <1>3, <1>4, <1>5, <1>6, StepHasShape DEF StepShape

\* What stands in memory after a step stands on disk.
LEMMA StandsOnDisk ==
    ASSUME TypeOK', Inv', LineageInv', NEW p \in PlanIds, NEW c \in CommitIds,
           StandsAs(plans'[p], c)
    PROVE  StandsAs(durable'[p], c)
<1>1. plans'[p] \in Records /\ durable'[p] \in Records /\ Fresh(durable'[p])
  BY DEF TypeOK, Records, LineageInv, RecordsFresh
<1>2. Fact(plans'[p]) = Fact(durable'[p])
  BY DEF Inv, RestartForgetsNothing
<1>3. QED
  BY <1>1, <1>2, StandsByFact

\* A plan that commit has just committed carries the commit.
LEMMA CommittedStands ==
    ASSUME NEW p \in PlanIds, NEW c, plans[p] \in Plans
    PROVE  StandsAs(AfterCommit(p, c)[p], c)
<1>1. AfterCommit(p, c)[p] = CommittedPlan(p, c)
  BY DEF AfterCommit
<1>2. QED
  BY <1>1 DEF CommittedPlan, Plans, StandsAs, Absent

\* A commit that has just been acknowledged stands on disk.
LEMMA NewlyAcked ==
    ASSUME TypeOK, Inv, LineageInv, TypeOK', Inv', LineageInv', [Next]_vars,
           NEW a \in acked', a \notin acked
    PROVE  StandsAs(durable'[a[1]], a[2])
<1>1. ASSUME NEW next, NEW ws, Outcome(next, {}, ws) PROVE FALSE
  BY <1>1 DEF Outcome, Done, Failed, Died
<1>2. ASSUME NEW next \in [PlanIds -> Records], NEW p \in PlanIds, NEW c \in CommitIds,
             CommitStep(next, p, c)
      PROVE  StandsAs(durable'[a[1]], a[2])
  <2>1. a = <<p, c>> /\ plans' = next
    BY <1>2 DEF CommitStep, Outcome, Done, Failed, Died
  <2>2. StandsAs(next[p], c)
    BY <1>2, CommittedStands DEF CommitStep
  <2>3. QED
    BY <2>1, <2>2, StandsOnDisk
<1>3. ASSUME NEW p \in PlanIds, NEW c \in CommitIds, ReplayStep(p, c)
      PROVE  StandsAs(durable'[a[1]], a[2])
  <2>1. a = <<p, c>> /\ plans' = plans /\ plans[p].state = "committed" /\ plans[p].commit = c
    BY <1>3 DEF ReplayStep
  <2>2. StandsAs(plans'[p], c)
    BY <2>1 DEF StandsAs, Absent
  <2>3. QED
    BY <2>1, <2>2, StandsOnDisk
<1>4. QED
  BY <1>1, <1>2, <1>3, StepHasShape DEF StepShape, QuietStep, SupersedeStep

\* A commit that was acknowledged, first or as a replay, stays on disk as a
\* historical fact through every later call, crash and restart, as long as
\* no append reports a failure.
THEOREM AckedCommitsDurableHolds ==
    ASSUME MaxFaults = 0
    PROVE  Spec => []AckedCommitsDurable
<1>1. Init => AckedCommitsDurable
  BY DEF Init, AckedCommitsDurable
<1>2. TypeOK /\ Inv /\ LineageInv /\ TypeOK' /\ Inv' /\ LineageInv' /\ AckedCommitsDurable
      /\ [Next]_vars => AckedCommitsDurable'
  <2> SUFFICES ASSUME TypeOK, Inv, LineageInv, TypeOK', Inv', LineageInv', AckedCommitsDurable,
                      [Next]_vars, NEW a \in acked'
               PROVE  StandsAs(durable'[a[1]], a[2])
    BY DEF AckedCommitsDurable, StandsAs
  <2>1. CASE a \in acked
    <3>1. a[1] \in PlanIds /\ a[2] \in CommitIds
      BY <2>1 DEF TypeOK
    <3>2. StandsAs(durable[a[1]], a[2])
      BY <2>1 DEF AckedCommitsDurable, StandsAs
    <3>3. QED
      BY <3>1, <3>2, StandsStep
  <2>2. CASE a \notin acked
    BY <2>2, NewlyAcked
  <2>3. QED
    BY <2>1, <2>2
<1>3. QED
  BY <1>1, <1>2, TypeCorrect, CleanLogInv, LineageInvHolds, PTL DEF Spec

\* Clients are never told of two different commits of one plan: every commit
\* that was acknowledged is the one its plan's record carries.
THEOREM OneCommitPerPlanHolds ==
    ASSUME MaxFaults = 0
    PROVE  Spec => []OneCommitPerPlan
<1>1. AckedCommitsDurable => OneCommitPerPlan
  BY DEF AckedCommitsDurable, OneCommitPerPlan
<1>2. QED
  BY <1>1, AckedCommitsDurableHolds, PTL

(***************************************************************************)
(* The lifecycle                                                           *)
(***************************************************************************)
Moves(from, to) ==
    \/ from = to
    \/ from = "absent" /\ to \in {"declared", "stale"}
    \/ can_transition(from, to)
    \/ from = "validated" /\ can_transition("solving", to)

\* The state recovery gives to a record.
LEMMA RecoveredState ==
    ASSUME NEW r \in Records
    PROVE  Recovered(r).state = IF r.state \in LiveStates THEN "stale" ELSE r.state
<1>1. CASE r = Absent
  BY <1>1 DEF Recovered, Absent, LiveStates
<1>2. CASE r \in Plans
  BY <1>2 DEF Recovered, Plans, Absent
<1>3. QED
  BY <1>1, <1>2 DEF Records

\* What recovery makes of a step of the lifecycle is a step of it too.
LEMMA MovesRecovered ==
    ASSUME NEW from, NEW s \in Records, Moves(from, s.state)
    PROVE  Moves(from, Recovered(s).state)
<1>1. CASE s.state \notin LiveStates
  BY <1>1, RecoveredState
<1>2. CASE s.state \in LiveStates
  <2>1. Recovered(s).state = "stale"
    BY <1>2, RecoveredState
  <2>2. from = "absent" \/ can_transition(from, "stale")
    BY <1>2 DEF Moves, can_transition, LiveStates
  <2>3. QED
    BY <2>1, <2>2 DEF Moves
<1>3. QED
  BY <1>1, <1>2

\* Every method moves every plan along the lifecycle.
LEMMA NextMoves ==
    ASSUME TypeOK, NEW next \in [PlanIds -> Records], NEW p \in PlanIds,
           \/ Quiet(next)
           \/ \E q \in PlanIds, c \in CommitIds : CommitStep(next, q, c)
           \/ \E old, by \in PlanIds : SupersedeStep(next, old, by)
    PROVE  Moves(plans[p].state, next[p].state)
<1>1. CASE Quiet(next)
  BY <1>1 DEF Quiet, Advances, Appears, LifecycleStep, Moves, Absent
<1>2. ASSUME NEW q \in PlanIds, NEW c \in CommitIds, CommitStep(next, q, c)
      PROVE  Moves(plans[p].state, next[p].state)
  <2>1. next = AfterCommit(q, c) /\ plans[q] \in Plans /\ plans[q].state = "authorized"
    BY <1>2 DEF CommitStep
  <2>2. CASE p = q
    <3>1. next[p].state = "committed"
      BY <2>1, <2>2 DEF AfterCommit, CommittedPlan, Plans
    <3>2. QED
      BY <2>1, <2>2, <3>1 DEF Moves, can_transition
  <2>3. CASE p # q /\ p \in Previous(q)
    <3>1. plans[p].state = "committed" /\ next[p] = MakeSuperseded(plans[p], q)
      BY <2>1, <2>3 DEF AfterCommit, Previous
    <3>2. plans[p] \in Plans
      BY <3>1, StateIsKnown
    <3>3. next[p].state = "superseded"
      BY <3>1, <3>2 DEF MakeSuperseded, Plans
    <3>4. QED
      BY <3>1, <3>3 DEF Moves, can_transition
  <2>4. CASE p # q /\ p \notin Previous(q)
    BY <2>1, <2>4 DEF AfterCommit, Moves
  <2>5. QED
    BY <2>2, <2>3, <2>4
<1>3. ASSUME NEW old \in PlanIds, NEW by \in PlanIds, SupersedeStep(next, old, by)
      PROVE  Moves(plans[p].state, next[p].state)
  <2>1. /\ next = AfterSupersede(old, by) /\ old # by
        /\ plans[old] \in Plans /\ plans[old].state = "committed" /\ plans[by] \in Plans
    BY <1>3 DEF SupersedeStep
  <2>2. next[old].state = "superseded" /\ next[by].state = plans[by].state
    BY <2>1 DEF AfterSupersede, TypeOK, MakeSuperseded, Plans
  <2>3. p # old /\ p # by => next[p] = plans[p]
    BY <2>1 DEF AfterSupersede, TypeOK
  <2>4. QED
    BY <2>1, <2>2, <2>3 DEF Moves, can_transition
<1>4. QED
  BY <1>1, <1>2, <1>3

\* Every outcome of a method moves every plan along the lifecycle.
LEMMA OutcomeMoves ==
    ASSUME MaxFaults = 0, TypeOK, Inv, NEW next \in [PlanIds -> Records], NEW ack, NEW ws,
           Outcome(next, ack, ws), NEW p \in PlanIds, Moves(plans[p].state, next[p].state)
    PROVE  Moves(plans[p].state, plans'[p].state)
<1>1. CASE plans' = next
  BY <1>1
<1>2. ~Failed(next)
  BY DEF Failed, Inv, CleanLog
<1>3. ASSUME NEW w, Died(next, w) PROVE Moves(plans[p].state, plans'[p].state)
  <2>1. plans'[p] = Recovered(durable'[p]) /\ durable'[p] \in {durable[p], next[p]}
    BY <1>3, LoggedFrom DEF Died, Inv, CleanLog
  <2>2. CASE durable'[p] = next[p]
    BY <2>1, <2>2, MovesRecovered
  <2>3. CASE durable'[p] = durable[p]
    <3>1. plans[p] \in Records /\ durable[p] \in Records /\ Fact(plans[p]) = Fact(durable[p])
      BY DEF TypeOK, Records, Inv, RestartForgetsNothing
    <3>2. Recovered(durable[p]).state = Recovered(plans[p]).state
      <4>1. CASE plans[p] = Absent
        BY <3>1, <4>1, FactFields
      <4>2. CASE plans[p] # Absent
        <5>1. durable[p] # Absent
          BY <3>1, <4>2, FactFields
        <5>2. "stale" \notin LiveStates
          BY DEF LiveStates
        <5>3. QED
          BY <3>1, <4>2, <5>1, <5>2, FactFields, RecoveredState
      <4>3. QED
        BY <4>1, <4>2
    <3>3. Moves(plans[p].state, Recovered(plans[p]).state)
      BY <3>1, MovesRecovered DEF Moves
    <3>4. QED
      BY <2>1, <2>3, <3>2, <3>3
  <2>4. QED
    BY <2>1, <2>2, <2>3
<1>4. QED
  BY <1>1, <1>2, <1>3 DEF Outcome, Done

\* Every step of the engine moves every plan along the lifecycle.
LEMMA EngineMoves ==
    ASSUME MaxFaults = 0, TypeOK, Inv, [Next]_vars, NEW p \in PlanIds
    PROVE  Moves(plans[p].state, plans'[p].state)
<1>1. ASSUME NEW next \in [PlanIds -> Records], QuietStep(next)
      PROVE  Moves(plans[p].state, plans'[p].state)
  BY <1>1, NextMoves, OutcomeMoves DEF QuietStep
<1>2. ASSUME NEW next \in [PlanIds -> Records], NEW q \in PlanIds, NEW c \in CommitIds,
             CommitStep(next, q, c)
      PROVE  Moves(plans[p].state, plans'[p].state)
  <2>1. Moves(plans[p].state, next[p].state)
    BY <1>2, NextMoves
  <2>2. QED
    BY <1>2, <2>1, OutcomeMoves DEF CommitStep
<1>3. ASSUME NEW next \in [PlanIds -> Records], NEW old \in PlanIds, NEW by \in PlanIds,
             SupersedeStep(next, old, by)
      PROVE  Moves(plans[p].state, plans'[p].state)
  <2>1. Moves(plans[p].state, next[p].state)
    BY <1>3, NextMoves
  <2>2. QED
    BY <1>3, <2>1, OutcomeMoves DEF SupersedeStep
<1>4. ASSUME NEW q, NEW c, ReplayStep(q, c) PROVE Moves(plans[p].state, plans'[p].state)
  BY <1>4 DEF ReplayStep, Moves
<1>5. QED
  BY <1>1, <1>2, <1>3, <1>4, StepHasShape DEF StepShape

\* Every change of a plan's state is a step of the lifecycle of plan.cpp,
\* restarts in the middle of any method included.
THEOREM LifecycleOnlyHolds ==
    ASSUME MaxFaults = 0
    PROVE  Spec => LifecycleOnly
<1>1. TypeOK /\ Inv /\ [Next]_vars =>
        [\A p \in PlanIds :
           LET from == plans[p].state
               to == plans'[p].state
           IN  \/ from = to
               \/ from = "absent" /\ to \in {"declared", "stale"}
               \/ can_transition(from, to)
               \/ from = "validated" /\ can_transition("solving", to)]_vars
  BY EngineMoves DEF Moves
<1>2. QED
  BY <1>1, TypeCorrect, CleanLogInv, PTL DEF Spec, LifecycleOnly

\* With a log that does not fail a plan that exists goes on existing.
LEMMA KnownStep ==
    ASSUME MaxFaults = 0, TypeOK, Inv, [Next]_vars, NEW p \in PlanIds, Known(p)
    PROVE  Known(p)'
<1>1. plans[p].state # "absent"
  BY KnownType DEF Known, Plans, States, LiveStates, TerminalStates
<1>2. plans'[p].state # "absent"
  BY <1>1, EngineMoves DEF Moves, can_transition
<1>3. QED
  BY <1>2 DEF Known, Absent

(***************************************************************************)
(* Successors.  Between the two appends of a commit the displaced plan     *)
(* names a successor that is still advancing; only a restart can make that *)
(* visible, and it makes the successor stale.                              *)
(***************************************************************************)
\* The clause of SupersededHasSuccessor for one plan, with the states in which
\* a successor may be that never committed.
Answers(records, p, open) ==
    LET q == records[p].superseded_by
    IN  /\ q \in PlanIds /\ records[q] # Absent
        /\ \/ records[q].supersedes = p /\ records[q].commit # NoCommit
           \/ records[q].state \in open /\ records[q].commit = NoCommit
AllAnswered(records, open) ==
    \A p \in PlanIds : records[p].state = "superseded" => Answers(records, p, open)

Settled == {"stale", "retired"}

\* The plans of which a method has appended those of w.
Partly(next, w) == [p \in PlanIds |-> IF p \in w THEN next[p] ELSE plans[p]]

\* What a restart makes visible, from records that say the same.
LEMMA AnsweredAfterRestart ==
    ASSUME NEW records \in [PlanIds -> Records], NEW seen \in [PlanIds -> Records],
           \A p \in PlanIds : Fact(records[p]) = Fact(seen[p]) /\ Dormant(seen[p]),
           AllAnswered(records, Settled \cup LiveStates)
    PROVE  AllAnswered(seen, Settled)
<1> SUFFICES ASSUME NEW p \in PlanIds, seen[p].state = "superseded"
             PROVE  Answers(seen, p, Settled)
  BY DEF AllAnswered
<1>1. seen[p] # Absent /\ records[p] # Absent
  BY FactFields DEF Absent
<1>2. "superseded" \notin LiveStates /\ "stale" \notin LiveStates
  BY DEF LiveStates
<1>3. records[p].state = "superseded" /\ records[p].superseded_by = seen[p].superseded_by
  BY <1>1, <1>2, FactFields DEF SameHistory
<1>4. Answers(records, p, Settled \cup LiveStates)
  BY <1>3 DEF AllAnswered
<1> DEFINE q == seen[p].superseded_by
<1>5. q \in PlanIds /\ records[q] # Absent
  BY <1>3, <1>4 DEF Answers
<1>6. seen[q] # Absent /\ seen[q].state \notin LiveStates
  BY <1>5, FactFields DEF Dormant
<1>7. seen[q].supersedes = records[q].supersedes /\ seen[q].commit = records[q].commit
  BY <1>5, <1>6, FactFields DEF SameHistory
<1>8. seen[q].state = IF records[q].state \in LiveStates THEN "stale" ELSE records[q].state
  BY <1>5, <1>6, FactFields
<1>9. CASE records[q].supersedes = p /\ records[q].commit # NoCommit
  BY <1>5, <1>6, <1>7, <1>9 DEF Answers
<1>10. CASE records[q].state \in Settled \cup LiveStates /\ records[q].commit = NoCommit
  <2>1. seen[q].state \in Settled
    BY <1>8, <1>10 DEF Settled
  <2>2. QED
    BY <1>5, <1>6, <1>7, <1>10, <2>1 DEF Answers
<1>11. QED
  BY <1>3, <1>4, <1>9, <1>10 DEF Answers

\* A quiet method, whichever of its records were appended, keeps every
\* superseded plan answered.
LEMMA QuietAnswered ==
    ASSUME TypeOK, AllAnswered(plans, Settled), NEW next \in [PlanIds -> Records], Quiet(next), NEW w
    PROVE  AllAnswered(Partly(next, w), Settled)
<1> DEFINE mixed == Partly(next, w)
<1>1. \A p \in PlanIds : \/ mixed[p] = plans[p]
                         \/ Advances(plans[p], mixed[p])
                         \/ Appears(plans[p], mixed[p])
  BY DEF Partly, Quiet
<1> HIDE DEF mixed
<1> SUFFICES ASSUME NEW p \in PlanIds, mixed[p].state = "superseded"
             PROVE  Answers(mixed, p, Settled)
  BY DEF AllAnswered, mixed
<1>2. plans[p].state = "superseded" /\ mixed[p].superseded_by = plans[p].superseded_by
  BY <1>1 DEF Advances, Appears, SameHistory
<1> DEFINE q == plans[p].superseded_by
<1>3. Answers(plans, p, Settled)
  BY <1>2 DEF AllAnswered
<1>4. q \in PlanIds /\ plans[q] # Absent
  BY <1>3 DEF Answers
<1>5. CASE mixed[q] = plans[q]
  BY <1>2, <1>3, <1>5 DEF Answers
<1>6. CASE Advances(plans[q], mixed[q])
  <2>1. mixed[q] # Absent /\ mixed[q].supersedes = plans[q].supersedes
        /\ mixed[q].commit = plans[q].commit
    BY <1>6 DEF Advances, SameHistory, Plans, Absent
  <2>2. plans[q].state \in Settled => mixed[q].state \in Settled
    BY <1>6 DEF Advances, LifecycleStep, can_transition, Settled
  <2>3. QED
    BY <1>2, <1>3, <2>1, <2>2 DEF Answers
<1>7. QED
  BY <1>1, <1>4, <1>5, <1>6 DEF Appears

\* A commit answers the plan it displaces; cut between its two appends it
\* leaves a successor that is still advancing.
LEMMA CommitAnswered ==
    ASSUME TypeOK, LineageInv, AllAnswered(plans, Settled), NEW p \in PlanIds, NEW c \in CommitIds,
           plans[p] \in Plans, plans[p].state = "authorized"
    PROVE  /\ AllAnswered(AfterCommit(p, c), Settled)
           /\ AllAnswered(Partly(AfterCommit(p, c), Previous(p)), Settled \cup LiveStates)
<1> DEFINE next == AfterCommit(p, c)
           cut == Partly(next, Previous(p))
<1>1. plans[p] # Absent /\ plans[p].commit = NoCommit /\ "authorized" \in LiveStates
  BY DEF LineageInv, RecordsFresh, Fresh, Plans, Absent, LiveStates
<1>2. next[p] = CommittedPlan(p, c) /\ cut[p] = plans[p]
  BY DEF AfterCommit, Partly, Previous
<1>3. /\ next[p] # Absent /\ next[p].state = "committed" /\ next[p].commit = c /\ c # NoCommit
      /\ Previous(p) # {} => next[p].supersedes = incumbent
  BY <1>2, FaultsAssumption DEF CommittedPlan, Plans, Absent
<1>4. ASSUME NEW q \in Previous(p)
      PROVE  /\ q \in PlanIds /\ q # p /\ q = incumbent /\ plans[q].state = "committed"
             /\ cut[q] = next[q] /\ next[q] # Absent /\ next[q].superseded_by = p
             /\ next[q].supersedes = plans[q].supersedes /\ next[q].commit = plans[q].commit
  <2>1. q \in PlanIds /\ q # p /\ q = incumbent /\ plans[q].state = "committed"
    BY DEF Previous
  <2>2. plans[q] \in Plans
    BY <2>1, StateIsKnown
  <2>3. next[q] = MakeSuperseded(plans[q], p) /\ cut[q] = next[q]
    BY <2>1 DEF AfterCommit, Partly
  <2>4. QED
    BY <2>1, <2>2, <2>3, SetSupersededType DEF MakeSuperseded, Plans, Absent
<1>5. ASSUME NEW q \in PlanIds, q # p, q \notin Previous(p)
      PROVE  next[q] = plans[q] /\ cut[q] = plans[q]
  BY <1>5 DEF AfterCommit, Partly
<1> HIDE DEF next, cut
<1>6. ASSUME NEW x \in PlanIds, plans[x].state = "superseded"
      PROVE  Answers(plans, x, Settled) /\ plans[x].superseded_by # p
             /\ x # p /\ x \notin Previous(p) /\ next[x] = plans[x] /\ cut[x] = plans[x]
  <2>1. Answers(plans, x, Settled)
    BY <1>6 DEF AllAnswered
  <2>2. plans[x].superseded_by # p
    BY <2>1, <1>1 DEF Answers, Settled
  <2>3. x # p /\ x \notin Previous(p)
    BY <1>4, <1>6
  <2>4. QED
    BY <1>5, <2>1, <2>2, <2>3
<1>7. ASSUME NEW x \in PlanIds, plans[x].state = "superseded"
      PROVE  Answers(next, x, Settled) /\ Answers(cut, x, Settled \cup LiveStates)
  <2> DEFINE q == plans[x].superseded_by
  <2>1. q \in PlanIds /\ plans[q] # Absent /\ q # p /\ next[x] = plans[x] /\ cut[x] = plans[x]
        /\ \/ plans[q].supersedes = x /\ plans[q].commit # NoCommit
           \/ plans[q].state \in Settled /\ plans[q].commit = NoCommit
    BY <1>6, <1>7 DEF Answers
  <2>2. CASE q \in Previous(p)
    BY <1>4, <2>1, <2>2 DEF Answers, Settled
  <2>3. CASE q \notin Previous(p)
    BY <1>5, <2>1, <2>3 DEF Answers
  <2>4. QED
    BY <2>2, <2>3
<1>8. ASSUME NEW x \in Previous(p)
      PROVE  Answers(next, x, Settled) /\ Answers(cut, x, Settled \cup LiveStates)
  <2>1. x \in PlanIds /\ next[x].superseded_by = p /\ cut[x].superseded_by = p /\ x = incumbent
    BY <1>4
  <2>2. QED
    BY <1>1, <1>2, <1>3, <1>8, <2>1 DEF Answers
<1>9. ASSUME NEW x \in PlanIds, next[x].state = "superseded" \/ cut[x].state = "superseded"
      PROVE  x \in Previous(p) \/ plans[x].state = "superseded"
  BY <1>2, <1>3, <1>5, <1>9
<1>10. AllAnswered(next, Settled) /\ AllAnswered(cut, Settled \cup LiveStates)
  BY <1>7, <1>8, <1>9 DEF AllAnswered
<1>11. QED
  BY <1>10 DEF next, cut

\* A process that dies in a method with a clean log leaves, of each plan,
\* either the record the method built or one with the fact memory had.
LEMMA DiedSeen ==
    ASSUME TypeOK, TypeOK', Inv, NEW next \in [PlanIds -> Records], NEW w, Died(next, w)
    PROVE  \E v \in {w, {}} : \A p \in PlanIds :
             Fact(Partly(next, v)[p]) = Fact(plans'[p]) /\ Dormant(plans'[p])
<1>1. ASSUME NEW p \in PlanIds
      PROVE  Fact(plans'[p]) = Fact(durable'[p]) /\ Dormant(plans'[p])
  <2>1. plans'[p] = Recovered(durable'[p]) /\ durable'[p] \in Records
    BY DEF Died, TypeOK, Records
  <2>2. QED
    BY <2>1, FactOfRecovered, RecoveredDormant
<1>2. PICK v \in {w, {}} : \A p \in PlanIds : durable'[p] = IF p \in v THEN next[p] ELSE durable[p]
  <2>1. durable' = durable \/ durable' = Logged(next, w)
    BY DEF Died, Recoverable, Inv, CleanLog
  <2>2. QED
    BY <2>1 DEF Logged, Inv, CleanLog
<1>3. \A p \in PlanIds : Fact(durable[p]) = Fact(plans[p])
  BY DEF Inv, RestartForgetsNothing
<1>4. \A p \in PlanIds : Fact(Partly(next, v)[p]) = Fact(durable'[p])
  BY <1>2, <1>3 DEF Partly
<1>5. QED
  BY <1>1, <1>4

\* A superseded plan names its successor and the successor names it back,
\* unless the process died between the two appends of the commit, which
\* leaves a successor that never committed.
THEOREM SupersededHasSuccessorHolds ==
    ASSUME MaxFaults = 0
    PROVE  Spec => []SupersededHasSuccessor
<1>1. SupersededHasSuccessor <=> AllAnswered(plans, Settled)
  BY DEF SupersededHasSuccessor, AllAnswered, Answers, Settled, Known
<1>2. Init => AllAnswered(plans, Settled)
  BY DEF Init, AllAnswered, Absent
<1>3. TypeOK /\ Inv /\ LineageInv /\ TypeOK' /\ AllAnswered(plans, Settled) /\ [Next]_vars
      => AllAnswered(plans', Settled)
  <2> SUFFICES ASSUME TypeOK, Inv, LineageInv, TypeOK', AllAnswered(plans, Settled), [Next]_vars
               PROVE  AllAnswered(plans', Settled)
    OBVIOUS
  <2>0. plans' \in [PlanIds -> Records]
    BY DEF TypeOK, Records
  <2>1. ASSUME NEW next \in [PlanIds -> Records], NEW ack, NEW ws, Outcome(next, ack, ws),
               AllAnswered(next, Settled),
               \A w \in ws \cup {{}} : AllAnswered(Partly(next, w), Settled \cup LiveStates)
        PROVE  AllAnswered(plans', Settled)
    <3>1. ~Failed(next)
      BY DEF Failed, Inv, CleanLog
    <3>2. CASE plans' = next
      BY <2>1, <3>2
    <3>3. ASSUME NEW w \in ws, Died(next, w) PROVE AllAnswered(plans', Settled)
      <4>1. PICK v \in {w, {}} : \A p \in PlanIds :
              Fact(Partly(next, v)[p]) = Fact(plans'[p]) /\ Dormant(plans'[p])
        BY <3>3, DiedSeen
      <4>2. Partly(next, v) \in [PlanIds -> Records]
        BY DEF Partly, TypeOK, Records
      <4>3. AllAnswered(Partly(next, v), Settled \cup LiveStates)
        BY <2>1
      <4>4. QED
        BY <2>0, <4>1, <4>2, <4>3, AnsweredAfterRestart
    <3>4. QED
      BY <2>1, <3>1, <3>2, <3>3 DEF Outcome, Done
  <2>2. ASSUME NEW records, AllAnswered(records, Settled)
        PROVE  AllAnswered(records, Settled \cup LiveStates)
    BY <2>2 DEF AllAnswered, Answers
  <2>3. ASSUME NEW next \in [PlanIds -> Records] PROVE Partly(next, {}) = plans /\ Partly(next, PlanIds) = next
    BY DEF Partly, TypeOK
  <2>4. ASSUME NEW next \in [PlanIds -> Records], QuietStep(next) PROVE AllAnswered(plans', Settled)
    <3>1. \A w : AllAnswered(Partly(next, w), Settled)
      BY <2>4, QuietAnswered DEF QuietStep
    <3>2. AllAnswered(next, Settled)
      BY <2>3, <3>1
    <3>3. \A w : AllAnswered(Partly(next, w), Settled \cup LiveStates)
      BY <2>2, <3>1
    <3>4. QED
      BY <2>1, <2>4, <3>2, <3>3 DEF QuietStep
  <2>5. ASSUME NEW next \in [PlanIds -> Records], NEW p \in PlanIds, NEW c \in CommitIds,
               CommitStep(next, p, c)
        PROVE  AllAnswered(plans', Settled)
    <3>1. /\ next = AfterCommit(p, c) /\ plans[p] \in Plans /\ plans[p].state = "authorized"
          /\ Outcome(next, {<<p, c>>}, {{}, Previous(p)})
      BY <2>5 DEF CommitStep
    <3>2. /\ AllAnswered(next, Settled)
          /\ AllAnswered(Partly(next, Previous(p)), Settled \cup LiveStates)
      BY <3>1, CommitAnswered
    <3>3. AllAnswered(Partly(next, {}), Settled \cup LiveStates)
      BY <2>2, <2>3
    <3>4. \A w \in {{}, Previous(p)} \cup {{}} :
            AllAnswered(Partly(next, w), Settled \cup LiveStates)
      BY <3>2, <3>3
    <3>5. QED
      BY <2>1, <3>1, <3>2, <3>4
  <2>6. ASSUME NEW next, NEW old \in PlanIds, NEW by \in PlanIds, SupersedeStep(next, old, by)
        PROVE  FALSE
    BY <2>6 DEF SupersedeStep, Inv, OneCommitted
  <2>7. ASSUME NEW p, NEW c, ReplayStep(p, c) PROVE AllAnswered(plans', Settled)
    BY <2>7 DEF ReplayStep
  <2>8. QED
    BY <2>4, <2>5, <2>6, <2>7, StepHasShape DEF StepShape
<1>4. AllAnswered(plans', Settled) => SupersededHasSuccessor'
  BY DEF SupersededHasSuccessor, AllAnswered, Answers, Settled, Known
<1>5. QED
  BY <1>1, <1>2, <1>3, <1>4, TypeCorrect, CleanLogInv, LineageInvHolds, PTL DEF Spec

(***************************************************************************)
(* The handlers                                                            *)
(***************************************************************************)
Pcs == {"idle", "submit", "declare", "validate", "solve", "replay", "look", "authorize", "commit",
        "retire", "query", "reply"}
Codes == {"none", "ok", "limit_exceeded", "duplicate_identity", "stale_authority",
          "invalid_transition", "solver_error", "not_found", "churn_bound", "already_committed",
          "refused"}
SessionRecords == [pc : Pcs, todo : Seq(PublisherRequests), code : Codes]

\* The steps of the handler of a request, and the reply.
Serves(op, pc) ==
    \/ pc = "reply"
    \/ op = "plan" /\ pc \in {"submit", "declare", "validate", "solve"}
    \/ op = "commit" /\ pc \in {"replay", "look", "authorize", "commit"}
    \/ op \in {"retire", "query"} /\ pc = op

\* A session that is not idle serves the first of its requests.
Serving(x) == x.pc # "idle" => x.todo # << >> /\ Serves(Head(x.todo).op, x.pc)

SessionsOK ==
    /\ workload \in Workloads
    /\ session \in [Sessions -> SessionRecords]
    /\ \A s \in Sessions : Serving(session[s])

\* The requests of a sequence.
LEMMA RequestType ==
    ASSUME NEW todo \in Seq(PublisherRequests), todo # << >>
    PROVE  /\ Head(todo) \in PublisherRequests
           /\ Tail(todo) \in Seq(PublisherRequests)
BY HeadTailProperties

\* What a request is, by its operation.
LEMMA RequestFields ==
    ASSUME NEW r \in PublisherRequests
    PROVE  /\ r.plan \in PlanIds /\ r.op \in {"plan", "commit", "retire", "query"}
           /\ r.op = "plan" => r.snapshot \in Snapshots /\ r.request \in Requests
           /\ r.op = "commit" => r.commit \in CommitIds
BY DEF PublisherRequests

\* A session that is not idle has a request.
LEMMA ServedRequest ==
    ASSUME SessionsOK, NEW s \in Sessions, ~At(s, "idle")
    PROVE  /\ Request(s) \in PublisherRequests /\ session[s].todo # << >>
           /\ Serves(Request(s).op, session[s].pc)
           /\ session[s] \in SessionRecords
BY RequestType DEF SessionsOK, Serving, At, Request, SessionRecords

\* A connection that is lost.
LEMMA IdleOK == Idle \in SessionRecords /\ Serving(Idle) /\ Idle.pc = "idle"
<1>1. << >> \in Seq(PublisherRequests)
  OBVIOUS
<1>2. QED
  BY <1>1 DEF Idle, SessionRecords, Serving, Pcs, Codes

\* A publisher that calls, or exits.
LEMMA CallingOK ==
    ASSUME NEW todo \in Seq(PublisherRequests)
    PROVE  /\ Calling(todo) \in SessionRecords /\ Serving(Calling(todo))
           /\ Calling(todo).pc \notin {"validate", "solve", "reply"}
<1>1. CASE todo = << >>
  BY <1>1, IdleOK DEF Calling
<1>2. CASE todo # << >>
  <2>1. Head(todo).op \in {"plan", "commit", "retire", "query"}
    BY <1>2, RequestType, RequestFields
  <2>2. /\ FirstStep(Head(todo).op) \in Pcs /\ Serves(Head(todo).op, FirstStep(Head(todo).op))
        /\ FirstStep(Head(todo).op) \notin {"validate", "solve", "reply"}
    BY <2>1 DEF FirstStep, Serves, Pcs
  <2>3. QED
    BY <1>2, <2>2 DEF Calling, SessionRecords, Serving, Codes
<1>3. QED
  BY <1>1, <1>2

(***************************************************************************)
(* One step of a handler: what it makes of its session and what it knows.  *)
(***************************************************************************)
\* x is the session after the step.
HandlerResult(s, x) ==
    /\ x \in SessionRecords /\ x.todo = session[s].todo /\ x.pc # "idle"
    /\ Serves(Request(s).op, x.pc)
    /\ x.pc = "validate" => Declare(Request(s).plan, Request(s).request) /\ live' # NoSnapshot
    /\ x.pc = "solve" => session[s].pc = "validate"
    /\ x.pc = "reply" /\ x.code = "ok" /\ Request(s).op = "plan" => session[s].pc = "solve"
    /\ x.pc = "reply" /\ x.code = "ok" /\ Request(s).op = "commit" =>
          \/ OfRecord(Request(s).plan, Request(s).commit) /\ UNCHANGED <<plans, durable>>
          \/ /\ Commit(Request(s).plan, Request(s).commit) /\ live' # NoSnapshot
             /\ plans'[Request(s).plan].state = "committed"

HandlerStep(s) ==
    /\ [Next]_vars
    /\ UNCHANGED <<workload, planned, promised>>
    /\ \/ session' = Dropped
       \/ \E x : HandlerResult(s, x) /\ session' = [session EXCEPT ![s] = x]

\* Goto and Reply as one change of a session.
LEMMA GotoSession ==
    ASSUME SessionsOK, NEW s \in Sessions, NEW pc \in Pcs
    PROVE  \E x \in SessionRecords : /\ Goto(s, pc) = [session EXCEPT ![s] = x]
                                     /\ x.pc = pc /\ x.todo = session[s].todo
<1> DEFINE x == [session[s] EXCEPT !.pc = pc]
<1>1. session \in [Sessions -> SessionRecords] /\ session[s] \in SessionRecords
  BY DEF SessionsOK
<1>2. Goto(s, pc) = [session EXCEPT ![s] = x]
  BY <1>1 DEF Goto
<1>3. x \in SessionRecords /\ x.pc = pc /\ x.todo = session[s].todo
  BY <1>1 DEF SessionRecords
<1> HIDE DEF x
<1>4. QED
  BY <1>2, <1>3

\* The same for an answer.
LEMMA ReplySession ==
    ASSUME SessionsOK, NEW s \in Sessions, NEW code \in Codes
    PROVE  \E x \in SessionRecords : /\ Reply(s, code) = [session EXCEPT ![s] = x]
                                     /\ x.pc = "reply" /\ x.code = code
                                     /\ x.todo = session[s].todo
<1> DEFINE x == [session[s] EXCEPT !.pc = "reply", !.code = code]
<1>1. session \in [Sessions -> SessionRecords] /\ session[s] \in SessionRecords /\ "reply" \in Pcs
  BY DEF SessionsOK, Pcs
<1>2. Reply(s, code) = [session EXCEPT ![s] = x]
  BY <1>1 DEF Reply
<1>3. x \in SessionRecords /\ x.pc = "reply" /\ x.code = code /\ x.todo = session[s].todo
  BY <1>1 DEF SessionRecords
<1> HIDE DEF x
<1>4. QED
  BY <1>2, <1>3

\* A step of a handler that goes on, unless the process died in it.
LEMMA GotoStep ==
    ASSUME SessionsOK, NEW s \in Sessions, NEW pc \in Pcs \ {"idle", "reply"},
           Serves(Request(s).op, pc), [Next]_vars,
           NEW died, Unless(died, Goto(s, pc)),
           pc = "validate" =>
              died \/ (Declare(Request(s).plan, Request(s).request) /\ live' # NoSnapshot),
           pc = "solve" => session[s].pc = "validate"
    PROVE  HandlerStep(s)
<1>1. UNCHANGED <<workload, planned, promised>>
  BY DEF Unless
<1>2. CASE session' = Dropped
  BY <1>1, <1>2 DEF HandlerStep
<1>3. CASE session' = Goto(s, pc) /\ ~died
  <2>1. PICK x \in SessionRecords : /\ Goto(s, pc) = [session EXCEPT ![s] = x]
                                    /\ x.pc = pc /\ x.todo = session[s].todo
    BY GotoSession
  <2>2. HandlerResult(s, x)
    BY <1>3, <2>1 DEF HandlerResult
  <2>3. QED
    BY <1>1, <1>3, <2>1, <2>2 DEF HandlerStep
<1>4. QED
  BY <1>2, <1>3 DEF Unless

\* A step of a handler that answers, unless the process died in it.
LEMMA ReplyStep ==
    ASSUME SessionsOK, NEW s \in Sessions, NEW code \in Codes, [Next]_vars,
           NEW died, Unless(died, Reply(s, code)),
           code = "ok" /\ Request(s).op = "plan" => session[s].pc = "solve",
           code = "ok" /\ Request(s).op = "commit" =>
              \/ died
              \/ OfRecord(Request(s).plan, Request(s).commit) /\ UNCHANGED <<plans, durable>>
              \/ /\ Commit(Request(s).plan, Request(s).commit) /\ live' # NoSnapshot
                 /\ plans'[Request(s).plan].state = "committed"
    PROVE  HandlerStep(s)
<1>1. UNCHANGED <<workload, planned, promised>>
  BY DEF Unless
<1>2. CASE session' = Dropped
  BY <1>1, <1>2 DEF HandlerStep
<1>3. CASE session' = Reply(s, code) /\ ~died
  <2>1. PICK x \in SessionRecords : /\ Reply(s, code) = [session EXCEPT ![s] = x]
                                    /\ x.pc = "reply" /\ x.code = code
                                    /\ x.todo = session[s].todo
    BY ReplySession
  <2>2. HandlerResult(s, x)
    BY <1>3, <2>1 DEF HandlerResult, Serves
  <2>3. QED
    BY <1>1, <1>3, <2>1, <2>2 DEF HandlerStep
<1>4. QED
  BY <1>2, <1>3 DEF Unless

\* The steps of handle_plan_request.
LEMMA PlanRequestStep ==
    ASSUME SessionsOK, NEW s \in Sessions,
           Submit(s) \/ DeclarePlan(s) \/ ValidatePlan(s) \/ SolvePlan(s)
    PROVE  HandlerStep(s)
<1> DEFINE p == Request(s).plan
<1>1. /\ Request(s).op = "plan" /\ p \in PlanIds
      /\ Request(s).snapshot \in Snapshots /\ Request(s).request \in Requests
  BY ServedRequest, RequestFields DEF Submit, DeclarePlan, ValidatePlan, SolvePlan, At, Serves
<1>2. /\ {"declare", "validate", "solve"} \subseteq Pcs \ {"idle", "reply"}
      /\ \A pc \in {"declare", "validate", "solve"} : Serves(Request(s).op, pc)
      /\ {"ok", "limit_exceeded", "duplicate_identity", "stale_authority", "invalid_transition",
          "solver_error"} \subseteq Codes
  BY <1>1 DEF Serves, Pcs, Codes
<1>3. ASSUME NEW code \in Codes \ {"ok"}, Unchanged(Reply(s, code)) PROVE HandlerStep(s)
  BY <1>3, ReplyStep DEF Unchanged
<1>4. CASE Submit(s)
  <2>1. [Next]_vars
    BY <1>1, <1>4 DEF Submit, Next
  <2>2. QED
    BY <1>2, <1>4, <2>1, GotoStep DEF Submit, Then
<1>5. CASE DeclarePlan(s)
  <2>1. CASE Declare(p, Request(s).request) /\ Then(Goto(s, "validate"))
    <3>1. [Next]_vars
      BY <1>1, <2>1 DEF Next
    <3>2. CASE live' = NoSnapshot
      BY <2>1, <3>1, <3>2 DEF HandlerStep, Then, Unless
    <3>3. CASE live' # NoSnapshot
      <4>1. Unless(FALSE, Goto(s, "validate"))
        BY <2>1, <3>3 DEF Then, Unless
      <4>2. QED
        BY <1>2, <2>1, <3>1, <3>3, <4>1, GotoStep
    <3>4. QED
      BY <3>2, <3>3
  <2>2. QED
    BY <1>2, <1>3, <1>5, <2>1 DEF DeclarePlan
<1>6. CASE ValidatePlan(s)
  <2>1. CASE Validate(p) /\ Then(IF plans'[p].state = "validated" THEN Goto(s, "solve")
                                                               ELSE Reply(s, "stale_authority"))
    <3>1. [Next]_vars /\ session[s].pc = "validate"
      BY <1>1, <1>6, <2>1 DEF Next, ValidatePlan, At
    <3>2. CASE Then(Goto(s, "solve"))
      BY <1>2, <3>1, <3>2, GotoStep DEF Then
    <3>3. CASE Then(Reply(s, "stale_authority"))
      BY <1>2, <3>1, <3>3, ReplyStep DEF Then
    <3>4. QED
      BY <2>1, <3>2, <3>3
  <2>2. QED
    BY <1>2, <1>3, <1>6, <2>1 DEF ValidatePlan
<1>7. CASE SolvePlan(s)
  <2>1. CASE /\ Solve(p)
             /\ Then(Reply(s, IF plans'[p].state = "stale" THEN "stale_authority"
                              ELSE IF plans'[p].applicability = "not_evaluated" THEN "solver_error"
                              ELSE "ok"))
    <3> DEFINE code == IF plans'[p].state = "stale" THEN "stale_authority"
                       ELSE IF plans'[p].applicability = "not_evaluated" THEN "solver_error"
                       ELSE "ok"
    <3>1. [Next]_vars /\ session[s].pc = "solve"
      BY <1>1, <1>7, <2>1 DEF Next, SolvePlan, At
    <3>2. code \in Codes
      BY <1>2
    <3>3. Then(Reply(s, code))
      BY <2>1
    <3> HIDE DEF code
    <3>4. QED
      BY <1>1, <3>1, <3>2, <3>3, ReplyStep DEF Then
  <2>2. QED
    BY <1>2, <1>3, <1>7, <2>1 DEF SolvePlan
<1>8. QED
  BY <1>4, <1>5, <1>6, <1>7

\* The steps of handle_commit_request.
LEMMA CommitRequestStep ==
    ASSUME SessionsOK, NEW s \in Sessions,
           LookForReplay(s) \/ Look(s) \/ AuthorizePlan(s) \/ CommitPlan(s)
    PROVE  HandlerStep(s)
<1> DEFINE p == Request(s).plan
           c == Request(s).commit
<1>1. Request(s).op = "commit" /\ p \in PlanIds /\ c \in CommitIds
  BY ServedRequest, RequestFields DEF LookForReplay, Look, AuthorizePlan, CommitPlan, At, Serves
<1>2. /\ {"look", "authorize", "commit"} \subseteq Pcs \ {"idle", "reply"}
      /\ \A pc \in {"look", "authorize", "commit"} : Serves(Request(s).op, pc) /\ pc \notin {"validate", "solve"}
      /\ {"ok", "not_found", "stale_authority", "invalid_transition", "churn_bound",
          "already_committed"} \subseteq Codes
  BY <1>1 DEF Serves, Pcs, Codes
<1>3. ASSUME NEW code \in Codes \ {"ok"}, Unchanged(Reply(s, code)) PROVE HandlerStep(s)
  BY <1>3, ReplyStep DEF Unchanged
<1>4. ASSUME NEW pc \in {"look", "authorize", "commit"}, Unchanged(Goto(s, pc)) PROVE HandlerStep(s)
  BY <1>2, <1>4, GotoStep DEF Unchanged
<1>5. CASE LookForReplay(s)
  <2>1. CASE OfRecord(p, c) /\ Unchanged(Reply(s, "ok"))
    <3>1. UNCHANGED <<plans, durable>> /\ [Next]_vars /\ Unless(FALSE, Reply(s, "ok"))
      BY <2>1 DEF Unchanged, vars, disk
    <3>2. QED
      BY <1>1, <1>2, <2>1, <3>1, ReplyStep
  <2>2. QED
    BY <1>4, <1>5, <2>1 DEF LookForReplay
<1>6. CASE Look(s)
  BY <1>2, <1>3, <1>4, <1>6 DEF Look
<1>7. CASE AuthorizePlan(s)
  <2>1. CASE Authorize(p) /\ Then(IF plans'[p].state = "authorized" THEN Goto(s, "commit")
                                                                 ELSE Reply(s, "stale_authority"))
    <3>1. [Next]_vars
      BY <1>1, <2>1 DEF Next
    <3>2. CASE Then(Goto(s, "commit"))
      BY <1>2, <3>1, <3>2, GotoStep DEF Then
    <3>3. CASE Then(Reply(s, "stale_authority"))
      BY <1>2, <3>1, <3>3, ReplyStep DEF Then
    <3>4. QED
      BY <2>1, <3>2, <3>3
  <2>2. QED
    BY <1>2, <1>3, <1>7, <2>1 DEF AuthorizePlan
<1>8. CASE CommitPlan(s)
  <2>1. CASE CommitReplay(p, c) /\ Then(Reply(s, "ok"))
    <3>1. [Next]_vars
      BY <1>1, <2>1 DEF Next
    <3>2. OfRecord(p, c) /\ UNCHANGED <<plans, durable>>
      BY <2>1 DEF CommitReplay, OfRecord, disk
    <3>3. QED
      BY <1>1, <1>2, <2>1, <3>1, <3>2, ReplyStep DEF Then
  <2>2. CASE /\ Commit(p, c)
             /\ Then(Reply(s, IF plans'[p].state = "committed" THEN "ok" ELSE "stale_authority"))
    <3>1. [Next]_vars
      BY <1>1, <2>2 DEF Next
    <3>2. CASE plans'[p].state = "committed" /\ Then(Reply(s, "ok"))
      BY <1>1, <1>2, <2>2, <3>1, <3>2, ReplyStep DEF Then
    <3>3. CASE Then(Reply(s, "stale_authority"))
      BY <1>2, <3>1, <3>3, ReplyStep DEF Then
    <3>4. QED
      BY <2>2, <3>2, <3>3
  <2>3. QED
    BY <1>2, <1>3, <1>8, <2>1, <2>2 DEF CommitPlan
<1>9. QED
  BY <1>5, <1>6, <1>7, <1>8

\* retire_request and query_request.
LEMMA OtherRequestStep ==
    ASSUME SessionsOK, NEW s \in Sessions, RetirePlan(s) \/ QueryPlan(s)
    PROVE  HandlerStep(s)
<1>1. Request(s).op \in {"retire", "query"} /\ Request(s).plan \in PlanIds
  BY ServedRequest, RequestFields DEF RetirePlan, QueryPlan, At, Serves
<1>2. {"ok", "refused", "not_found"} \subseteq Codes
  BY DEF Codes
<1>3. ASSUME NEW code \in Codes, NEW died, [Next]_vars, Unless(died, Reply(s, code))
      PROVE  HandlerStep(s)
  BY <1>1, <1>3, ReplyStep
<1>4. CASE RetirePlan(s)
  BY <1>1, <1>2, <1>3, <1>4 DEF RetirePlan, Unchanged, Next
<1>5. CASE QueryPlan(s)
  BY <1>2, <1>3, <1>5 DEF QueryPlan, Unchanged
<1>6. QED
  BY <1>4, <1>5

\* Every step of a handler.
LEMMA HandleStep ==
    ASSUME SessionsOK, NEW s \in Sessions, Handle(s)
    PROVE  HandlerStep(s) /\ ~At(s, "idle") /\ ~At(s, "reply")
<1>1. ~At(s, "idle") /\ ~At(s, "reply")
  BY DEF Handle, Submit, DeclarePlan, ValidatePlan, SolvePlan, LookForReplay, Look, AuthorizePlan,
         CommitPlan, RetirePlan, QueryPlan, At
<1>2. QED
  BY <1>1, PlanRequestStep, CommitRequestStep, OtherRequestStep DEF Handle

(***************************************************************************)
(* Every step of the system, as it looks to one engine and to its sessions *)
(***************************************************************************)
\* A publisher connects, reads its reply or loses it: session s becomes x.
PublisherStep(s, x) ==
    /\ x \in SessionRecords /\ Serving(x) /\ x.pc \notin {"validate", "solve", "reply"}
    /\ session' = [session EXCEPT ![s] = x]
    /\ UNCHANGED <<vars, workload>>
    /\ \/ UNCHANGED <<planned, promised>>
       \/ Receive(s)

LEMMA ConnectStep ==
    ASSUME SessionsOK, NEW s \in Sessions, NEW scenario \in workload, Connect(s, scenario)
    PROVE  PublisherStep(s, Calling(scenario))
<1>1. scenario \in Seq(PublisherRequests)
  BY ServiceAssumption DEF SessionsOK
<1>2. QED
  BY <1>1, CallingOK DEF Connect, PublisherStep

LEMMA ReceiveStep ==
    ASSUME SessionsOK, NEW s \in Sessions, Receive(s)
    PROVE  \E x : PublisherStep(s, x)
<1> DEFINE x == IF session[s].code \in NamesNoPlan THEN Idle ELSE Calling(Tail(session[s].todo))
<1>1. session[s].todo \in Seq(PublisherRequests) /\ session[s].todo # << >>
  BY ServedRequest DEF Receive, At, SessionRecords
<1>2. Tail(session[s].todo) \in Seq(PublisherRequests)
  BY <1>1, RequestType
<1>3. x \in SessionRecords /\ Serving(x) /\ x.pc \notin {"validate", "solve", "reply"}
  BY <1>2, CallingOK, IdleOK
<1>4. session' = [session EXCEPT ![s] = x] /\ UNCHANGED <<vars, workload>>
  BY DEF Receive
<1> HIDE DEF x
<1>5. QED
  BY <1>3, <1>4 DEF PublisherStep

LEMMA LoseReplyStep ==
    ASSUME SessionsOK, NEW s \in Sessions, LoseReply(s)
    PROVE  PublisherStep(s, Idle)
BY IdleOK DEF LoseReply, PublisherStep

\* The kinds of step: a publisher, a handler, the loss of the process, nothing.
LEMMA ServiceSteps ==
    ASSUME SessionsOK, [ServiceNext]_serviceVars
    PROVE  \/ \E s \in Sessions : \E x : PublisherStep(s, x)
           \/ \E s \in Sessions : Handle(s)
           \/ Restart /\ session' = Dropped /\ UNCHANGED <<workload, planned, promised>>
           \/ UNCHANGED serviceVars
<1>1. CASE Crash
  BY <1>1 DEF Crash, Unless
<1>2. QED
  BY <1>1, ConnectStep, ReceiveStep, LoseReplyStep DEF ServiceNext

\* A session is replaced by one that serves a request.
LEMMA SessionReplaced ==
    ASSUME SessionsOK, NEW s \in Sessions, NEW x \in SessionRecords, Serving(x),
           session' = [session EXCEPT ![s] = x], UNCHANGED workload
    PROVE  SessionsOK'
BY DEF SessionsOK, Serving

\* All connections are lost.
LEMMA SessionsDropped ==
    ASSUME SessionsOK, session' = Dropped, UNCHANGED workload
    PROVE  SessionsOK'
BY IdleOK DEF SessionsOK, Dropped, Serving

\* A handler leaves a session that goes on with the request or answers it.
LEMMA HandlerServes ==
    ASSUME SessionsOK, NEW s \in Sessions, ~At(s, "idle"), NEW x, HandlerResult(s, x)
    PROVE  x \in SessionRecords /\ Serving(x)
BY ServedRequest DEF HandlerResult, Serving, Request

\* Every step is a step of the engine, or leaves it alone, and the sessions
\* go on serving requests.
LEMMA SessionsStep ==
    ASSUME SessionsOK, [ServiceNext]_serviceVars
    PROVE  SessionsOK' /\ [Next]_vars
<1>1. ASSUME NEW s \in Sessions, NEW x, PublisherStep(s, x) PROVE SessionsOK' /\ [Next]_vars
  BY <1>1, SessionReplaced DEF PublisherStep
<1>2. ASSUME NEW s \in Sessions, Handle(s) PROVE SessionsOK' /\ [Next]_vars
  <2>1. HandlerStep(s) /\ ~At(s, "idle")
    BY <1>2, HandleStep
  <2>2. [Next]_vars /\ UNCHANGED workload
    BY <2>1 DEF HandlerStep
  <2>3. CASE session' = Dropped
    BY <2>2, <2>3, SessionsDropped
  <2>4. ASSUME NEW x, HandlerResult(s, x), session' = [session EXCEPT ![s] = x] PROVE SessionsOK'
    BY <2>1, <2>2, <2>4, HandlerServes, SessionReplaced
  <2>5. QED
    BY <2>1, <2>2, <2>3, <2>4 DEF HandlerStep
<1>3. CASE Restart /\ session' = Dropped /\ UNCHANGED <<workload, planned, promised>>
  BY <1>3, SessionsDropped DEF Next
<1>4. CASE UNCHANGED serviceVars
  BY <1>4 DEF serviceVars, SessionsOK, Serving
<1>5. QED
  BY <1>1, <1>2, <1>3, <1>4, ServiceSteps

LEMMA SessionsHold == ServiceSpec => []SessionsOK
<1>1. ServiceInit => SessionsOK
  BY IdleOK DEF ServiceInit, SessionsOK, Dropped, Serving
<1>2. SessionsOK /\ [ServiceNext]_serviceVars => SessionsOK'
  BY SessionsStep
<1>3. QED
  BY <1>1, <1>2, PTL DEF ServiceSpec

\* coordinator.cpp drives the engine only through its methods: whatever the
\* handlers, the publishers and the crashes do is a behaviour of PlanEngine.
THEOREM ServiceRunsEngine == ServiceSpec => Spec
<1>1. ServiceInit => Init
  BY DEF ServiceInit
<1>2. SessionsOK /\ [ServiceNext]_serviceVars => [Next]_vars
  BY SessionsStep
<1>3. QED
  BY <1>1, <1>2, SessionsHold, PTL DEF ServiceSpec, Spec

\* What the engine guarantees, for the engine that serves requests.
EngineOK == TypeOK /\ Inv /\ LineageInv

LEMMA EngineHolds == ServiceSpec => []EngineOK
<1>1. Spec => []Inv
  BY ServiceAssumption, CleanLogInv
<1>2. QED
  BY <1>1, ServiceRunsEngine, TypeCorrect, LineageInvHolds, PTL DEF EngineOK

(***************************************************************************)
(* What an engine call did, when the process survived it.                  *)
(***************************************************************************)
\* declare: the plan was not known and is.
LEMMA DeclareAlive ==
    ASSUME TypeOK, Inv, NEW p \in PlanIds, NEW request, Declare(p, request), live' # NoSnapshot
    PROVE  ~Known(p) /\ Known(p)'
<1> DEFINE next == [plans EXCEPT ![p] = DeclaredPlan]
<1>1. ~AppendFailed(next, {}, {p})
  BY ServiceAssumption, NoFailure
<1>2. ~Crashed(next, {p})
  BY DEF Crashed, Restarted
<1>3. plans[p] = Absent /\ plans' = next
  BY <1>1, <1>2, DeclareCases
<1>4. next[p] = DeclaredPlan
  BY DEF TypeOK
<1>5. DeclaredPlan # Absent
  BY DEF DeclaredPlan, Absent
<1>6. QED
  BY <1>3, <1>4, <1>5 DEF Known

\* commit: a plan that is committed after it is committed as asked.
LEMMA CommitAlive ==
    ASSUME TypeOK, NEW p \in PlanIds, NEW c \in CommitIds, Commit(p, c), live' # NoSnapshot,
           plans'[p].state = "committed"
    PROVE  StandsAs(plans'[p], c)
<1>1. plans[p] \in Plans
  BY CommitCases, KnownType DEF Known
<1>2. ASSUME NEW next, NEW inc, NEW first, NEW second, NEW ack, Mutate(next, inc, first, second, ack)
      PROVE  plans' = next
  BY <1>2 DEF Mutate, Crashed, Restarted
<1>3. ~MutateOne(p, MakeStale(plans[p]))
  <2>1. SUFFICES ASSUME MutateOne(p, MakeStale(plans[p])) PROVE FALSE
    OBVIOUS
  <2>2. plans' = [plans EXCEPT ![p] = MakeStale(plans[p])]
    BY <1>2, <2>1 DEF MutateOne
  <2>3. MakeStale(plans[p]).state = "stale"
    BY <1>1 DEF MakeStale, Plans
  <2>4. QED
    BY <2>2, <2>3 DEF TypeOK
<1>4. ~MutateOne(p, [plans[p] EXCEPT !.state = "rejected"])
  <2>1. SUFFICES ASSUME MutateOne(p, [plans[p] EXCEPT !.state = "rejected"]) PROVE FALSE
    OBVIOUS
  <2>2. plans' = [plans EXCEPT ![p] = [plans[p] EXCEPT !.state = "rejected"]]
    BY <1>2, <2>1 DEF MutateOne
  <2>3. [plans[p] EXCEPT !.state = "rejected"].state = "rejected"
    BY <1>1 DEF Plans
  <2>4. QED
    BY <2>2, <2>3 DEF TypeOK
<1>5. plans' = AfterCommit(p, c)
  BY <1>2, <1>3, <1>4, CommitCases
<1>6. QED
  BY <1>1, <1>5, CommittedStands

(***************************************************************************)
(* Plan requests.  A request owns its plan from the moment its handler has *)
(* declared it until its publisher has read that it is solved; nobody else *)
(* owns the plan then, because declare refuses a plan that is known, and a *)
(* plan that was known once is known for ever, restarts included.          *)
(***************************************************************************)
Owns(x) ==
    /\ Head(x.todo).op = "plan"
    /\ \/ x.pc \in {"validate", "solve"}
       \/ x.pc = "reply" /\ x.code = "ok"
PlanOf(x) == Head(x.todo).plan

PlannedKnown == planned \subseteq PlanIds /\ \A p \in planned : Known(p)
OwnedKnown ==
    \A s \in Sessions : Owns(session[s]) => /\ Known(PlanOf(session[s]))
                                            /\ PlanOf(session[s]) \notin planned
OneOwner ==
    \A s, t \in Sessions : Owns(session[s]) /\ Owns(session[t])
                           /\ PlanOf(session[s]) = PlanOf(session[t]) => s = t
Owners == PlannedKnown /\ OwnedKnown /\ OneOwner

\* The plan a request owns is a plan identity.
LEMMA OwnedPlan ==
    ASSUME SessionsOK, NEW s \in Sessions, Owns(session[s])
    PROVE  PlanOf(session[s]) \in PlanIds
BY ServedRequest, RequestFields DEF Owns, PlanOf, Request, At

\* Owners survive a step in which session s becomes x, others stay, no plan is
\* newly planned, and x owns a plan only if session s did or the plan is new.
LEMMA OwnersKept ==
    ASSUME SessionsOK, EngineOK, Owners, [Next]_vars, NEW s \in Sessions, NEW x,
           session' = [session EXCEPT ![s] = x], planned' = planned,
           Owns(x) => \/ Owns(session[s]) /\ PlanOf(x) = PlanOf(session[s])
                      \/ PlanOf(x) \in PlanIds /\ ~Known(PlanOf(x)) /\ Known(PlanOf(x))'
    PROVE  Owners'
<1>1. ASSUME NEW p \in PlanIds, Known(p) PROVE Known(p)'
  BY <1>1, ServiceAssumption, KnownStep DEF EngineOK
<1>2. /\ \A t \in Sessions : t # s => session'[t] = session[t]
      /\ session'[s] = x
  BY DEF SessionsOK
<1>3. PlannedKnown'
  BY <1>1 DEF Owners, PlannedKnown
<1>4. OwnedKnown'
  <2> SUFFICES ASSUME NEW t \in Sessions, Owns(session'[t])
               PROVE  plans'[PlanOf(session'[t])] # Absent /\ PlanOf(session'[t]) \notin planned
    BY DEF OwnedKnown, Owns, PlanOf, Known
  <2>1. CASE Owns(session[t]) /\ PlanOf(session'[t]) = PlanOf(session[t])
    <3>1. PlanOf(session[t]) \in PlanIds /\ Known(PlanOf(session[t]))
          /\ PlanOf(session[t]) \notin planned
      BY <2>1, OwnedPlan DEF Owners, OwnedKnown
    <3>2. Known(PlanOf(session[t]))'
      BY <1>1, <3>1
    <3>3. QED
      BY <2>1, <3>1, <3>2 DEF Known
  <2>2. CASE ~Known(PlanOf(session'[t])) /\ plans'[PlanOf(session'[t])] # Absent
    BY <2>2 DEF Owners, PlannedKnown
  <2>3. CASE t = s
    BY <1>2, <2>1, <2>2, <2>3 DEF Known, PlanOf
  <2>4. CASE t # s
    BY <1>2, <2>1, <2>4
  <2>5. QED
    BY <2>3, <2>4
<1>5. OneOwner'
  <2> SUFFICES ASSUME NEW t \in Sessions, NEW u \in Sessions, Owns(session'[t]), Owns(session'[u]),
                      PlanOf(session'[t]) = PlanOf(session'[u])
               PROVE  t = u
    BY DEF OneOwner, Owns, PlanOf
  <2>1. ASSUME NEW v \in Sessions, v # s, Owns(session[v]), Owns(x), PlanOf(session[v]) = PlanOf(x)
        PROVE  FALSE
    BY <2>1 DEF Owners, OwnedKnown, OneOwner
  <2>2. CASE t # s /\ u # s
    BY <1>2, <2>2 DEF Owners, OneOwner
  <2>3. CASE t = s \/ u = s
    BY <1>2, <2>1, <2>3
  <2>4. QED
    BY <2>2, <2>3
<1>6. QED
  BY <1>3, <1>4, <1>5 DEF Owners

\* Without connections nobody owns a plan.
LEMMA OwnersDropped ==
    ASSUME EngineOK, Owners, [Next]_vars, session' = Dropped, planned' = planned
    PROVE  Owners'
<1>1. ASSUME NEW p \in PlanIds, Known(p) PROVE Known(p)'
  BY <1>1, ServiceAssumption, KnownStep DEF EngineOK
<1>2. PlannedKnown'
  BY <1>1 DEF Owners, PlannedKnown
<1>3. \A s \in Sessions : ~Owns(session'[s])
  BY IdleOK DEF Dropped, Owns
<1>4. OwnedKnown' /\ OneOwner'
  BY <1>3 DEF OwnedKnown, OneOwner, Owns, PlanOf
<1>5. QED
  BY <1>2, <1>4 DEF Owners

\* A publisher that reads that its plan is solved.
LEMMA OwnersReceive ==
    ASSUME SessionsOK, EngineOK, Owners, NEW s \in Sessions, Receive(s),
           NEW x, PublisherStep(s, x)
    PROVE  Owners'
<1>1. ~Owns(x) /\ UNCHANGED vars
  BY DEF PublisherStep, Owns
<1>2. session' = [session EXCEPT ![s] = x] /\ [Next]_vars
  BY DEF PublisherStep
<1>3. CASE planned' = planned
  BY <1>1, <1>2, <1>3, OwnersKept
<1>4. CASE Owns(session[s]) /\ planned' = planned \cup {PlanOf(session[s])}
  <2>1. PlanOf(session[s]) \in PlanIds /\ Known(PlanOf(session[s]))
    BY <1>4, OwnedPlan DEF Owners, OwnedKnown
  <2>2. plans' = plans
    BY <1>1 DEF vars
  <2>3. /\ \A t \in Sessions : t # s => session'[t] = session[t]
        /\ ~Owns(session'[s])
    BY <1>1, <1>2 DEF SessionsOK
  <2>4. PlannedKnown'
    BY <1>4, <2>1, <2>2 DEF Owners, PlannedKnown, Known
  <2>5. ASSUME NEW t \in Sessions, Owns(session'[t])
        PROVE  /\ t # s /\ session'[t] = session[t] /\ Owns(session[t])
               /\ plans'[PlanOf(session[t])] # Absent /\ PlanOf(session[t]) \notin planned'
    <3>1. t # s /\ session'[t] = session[t] /\ Owns(session[t])
      BY <2>3, <2>5
    <3>2. PlanOf(session[t]) # PlanOf(session[s])
      BY <1>4, <3>1 DEF Owners, OneOwner
    <3>3. QED
      BY <1>4, <2>2, <3>1, <3>2 DEF Owners, OwnedKnown, Known
  <2>6. OwnedKnown'
    <3> SUFFICES ASSUME NEW t \in Sessions, Owns(session'[t])
                 PROVE  plans'[PlanOf(session'[t])] # Absent /\ PlanOf(session'[t]) \notin planned'
      BY DEF OwnedKnown, Owns, PlanOf, Known
    <3>1. QED
      BY <2>5
  <2>7. OneOwner'
    <3> SUFFICES ASSUME NEW t \in Sessions, NEW u \in Sessions, Owns(session'[t]), Owns(session'[u]),
                        PlanOf(session'[t]) = PlanOf(session'[u])
                 PROVE  t = u
      BY DEF OneOwner, Owns, PlanOf
    <3>1. QED
      BY <2>5 DEF Owners, OneOwner
  <2>8. QED
    BY <2>4, <2>6, <2>7 DEF Owners
<1>5. QED
  BY <1>3, <1>4 DEF Receive, Owns, PlanOf, Request, At

\* What a handler's step makes of the plan its request owns.
LEMMA HandlerOwns ==
    ASSUME SessionsOK, EngineOK, NEW s \in Sessions, ~At(s, "idle"), NEW x, HandlerResult(s, x), Owns(x)
    PROVE  \/ Owns(session[s]) /\ PlanOf(x) = PlanOf(session[s])
           \/ PlanOf(x) \in PlanIds /\ ~Known(PlanOf(x)) /\ Known(PlanOf(x))'
<1>1. Request(s).op = "plan" /\ PlanOf(x) = Request(s).plan /\ PlanOf(x) = PlanOf(session[s])
  BY DEF HandlerResult, Owns, PlanOf, Request
<1>2. Request(s).plan \in PlanIds
  BY ServedRequest, RequestFields
<1>3. CASE x.pc = "validate"
  <2>1. Declare(PlanOf(x), Request(s).request) /\ live' # NoSnapshot /\ PlanOf(x) \in PlanIds
    BY <1>1, <1>2, <1>3 DEF HandlerResult
  <2>2. PICK p : p = PlanOf(x)
    OBVIOUS
  <2>3. PICK request : request = Request(s).request
    OBVIOUS
  <2>4. p \in PlanIds /\ Declare(p, request) /\ live' # NoSnapshot
    BY <2>1, <2>2, <2>3
  <2>5. ~Known(p) /\ Known(p)'
    BY <2>4, DeclareAlive DEF EngineOK
  <2>6. QED
    BY <2>1, <2>2, <2>5 DEF Known
<1>4. CASE x.pc = "solve" \/ (x.pc = "reply" /\ x.code = "ok")
  BY <1>1, <1>4 DEF HandlerResult, Owns, Request
<1>5. QED
  BY <1>3, <1>4 DEF Owns

LEMMA OwnersStep ==
    ASSUME SessionsOK, EngineOK, Owners, [ServiceNext]_serviceVars
    PROVE  Owners'
<1>0. [Next]_vars
  BY SessionsStep
<1>1. ASSUME NEW s \in Sessions, NEW x, PublisherStep(s, x) PROVE Owners'
  <2>1. CASE Receive(s)
    BY <1>1, <2>1, OwnersReceive
  <2>2. CASE UNCHANGED planned
    <3>1. ~Owns(x) /\ session' = [session EXCEPT ![s] = x]
      BY <1>1 DEF PublisherStep, Owns
    <3>2. QED
      BY <1>0, <2>2, <3>1, OwnersKept
  <2>3. QED
    BY <1>1, <2>1, <2>2 DEF PublisherStep
<1>2. ASSUME NEW s \in Sessions, Handle(s) PROVE Owners'
  <2>1. HandlerStep(s) /\ ~At(s, "idle") /\ UNCHANGED planned
    BY <1>2, HandleStep DEF HandlerStep
  <2>2. CASE session' = Dropped
    BY <1>0, <2>1, <2>2, OwnersDropped
  <2>3. ASSUME NEW x, HandlerResult(s, x), session' = [session EXCEPT ![s] = x] PROVE Owners'
    BY <1>0, <2>1, <2>3, HandlerOwns, OwnersKept
  <2>4. QED
    BY <2>1, <2>2, <2>3 DEF HandlerStep
<1>3. CASE session' = Dropped /\ UNCHANGED planned
  BY <1>0, <1>3, OwnersDropped
<1>4. CASE UNCHANGED serviceVars
  BY <1>4 DEF serviceVars, vars, Owners, PlannedKnown, OwnedKnown, OneOwner, Owns, PlanOf, Known
<1>5. QED
  BY <1>1, <1>2, <1>3, <1>4, ServiceSteps

\* handle_plan_request: of all requests that name one plan, repeated, racing or
\* made again after a restart, at most one is answered with success.
THEOREM PlannedOnceHolds == ServiceSpec => PlannedOnce
<1>1. ServiceInit => Owners
  <2>1. \A s \in Sessions : ServiceInit => ~Owns(session[s])
    BY IdleOK DEF ServiceInit, Dropped, Owns
  <2>2. QED
    BY <2>1 DEF ServiceInit, Owners, PlannedKnown, OwnedKnown, OneOwner
<1>2. SessionsOK /\ EngineOK /\ Owners /\ [ServiceNext]_serviceVars => Owners'
  BY OwnersStep
<1>3. Owners => \A s \in Sessions : At(s, "reply") /\ Request(s).op = "plan" /\ session[s].code = "ok"
                                      => Request(s).plan \notin planned
  BY DEF Owners, OwnedKnown, Owns, PlanOf, At, Request
<1>4. QED
  BY <1>1, <1>2, <1>3, SessionsHold, EngineHolds, PTL DEF ServiceSpec, PlannedOnce

(***************************************************************************)
(* Commit requests.  What a publisher is told of a commit holds when the   *)
(* handler decides on the answer, not only when the publisher reads it:    *)
(* the record on disk stands under that commit identity, and what stands   *)
(* on disk goes on standing through every step of the engine.              *)
(***************************************************************************)
Confirms(x) == Head(x.todo).op = "commit" /\ x.pc = "reply" /\ x.code = "ok"
CommitOf(x) == Head(x.todo).commit

PromisesStand ==
    /\ promised \subseteq PlanIds \X CommitIds
    /\ \A y \in promised : StandsAs(durable[y[1]], y[2])
ConfirmationsStand ==
    \A s \in Sessions : Confirms(session[s]) =>
        StandsAs(durable[PlanOf(session[s])], CommitOf(session[s]))
Told == PromisesStand /\ ConfirmationsStand

\* What a confirmation names.
LEMMA ConfirmedNames ==
    ASSUME SessionsOK, NEW s \in Sessions, Confirms(session[s])
    PROVE  PlanOf(session[s]) \in PlanIds /\ CommitOf(session[s]) \in CommitIds
BY ServedRequest, RequestFields DEF Confirms, PlanOf, CommitOf, Request, At

\* What stood on disk stands after any step.
LEMMA StoodStands ==
    ASSUME EngineOK, [Next]_vars, NEW p \in PlanIds, NEW c \in CommitIds, StandsAs(durable[p], c)
    PROVE  StandsAs(durable'[p], c)
BY StandsStep DEF EngineOK

LEMMA PromisesKept ==
    ASSUME EngineOK, Told, [Next]_vars, promised' = promised
    PROVE  PromisesStand'
<1>1. ASSUME NEW y \in promised PROVE StandsAs(durable'[y[1]], y[2])
  BY StoodStands DEF Told, PromisesStand
<1>2. QED
  BY <1>1 DEF Told, PromisesStand, StandsAs

\* Told survives a step in which session s becomes x and the others stay,
\* if what x confirms stands after it.
LEMMA ConfirmationsKept ==
    ASSUME SessionsOK, EngineOK, Told, [Next]_vars, NEW s \in Sessions, NEW x,
           session' = [session EXCEPT ![s] = x],
           Confirms(x) => StandsAs(durable'[PlanOf(x)], CommitOf(x))
    PROVE  ConfirmationsStand'
<1>1. /\ \A t \in Sessions : t # s => session'[t] = session[t]
      /\ session'[s] = x
  BY DEF SessionsOK
<1>2. ASSUME NEW t \in Sessions, Confirms(session'[t])
      PROVE  StandsAs(durable'[PlanOf(session'[t])], CommitOf(session'[t]))
  <2>1. CASE t = s
    BY <1>1, <1>2, <2>1
  <2>2. CASE t # s
    <3>1. /\ session'[t] = session[t] /\ Confirms(session[t])
          /\ PlanOf(session[t]) \in PlanIds /\ CommitOf(session[t]) \in CommitIds
          /\ StandsAs(durable[PlanOf(session[t])], CommitOf(session[t]))
      BY <1>1, <1>2, <2>2, ConfirmedNames DEF Told, ConfirmationsStand
    <3>2. QED
      BY <3>1, StoodStands
  <2>3. QED
    BY <2>1, <2>2
<1>3. QED
  BY <1>2 DEF ConfirmationsStand, Confirms, PlanOf, CommitOf, StandsAs

\* Without connections nothing is being confirmed.
LEMMA ConfirmationsDropped ==
    ASSUME session' = Dropped
    PROVE  ConfirmationsStand'
<1>1. \A s \in Sessions : ~Confirms(session'[s])
  BY IdleOK DEF Dropped, Confirms
<1>2. QED
  BY <1>1 DEF ConfirmationsStand, Confirms, PlanOf, CommitOf

\* What a handler confirms stands.
LEMMA HandlerConfirms ==
    ASSUME SessionsOK, EngineOK, EngineOK', [Next]_vars, NEW s \in Sessions, ~At(s, "idle"),
           NEW x, HandlerResult(s, x), Confirms(x)
    PROVE  StandsAs(durable'[PlanOf(x)], CommitOf(x))
<1>1. /\ Request(s).op = "commit" /\ PlanOf(x) = Request(s).plan /\ CommitOf(x) = Request(s).commit
      /\ PlanOf(x) \in PlanIds /\ CommitOf(x) \in CommitIds
  BY ServedRequest, RequestFields DEF HandlerResult, Confirms, PlanOf, CommitOf, Request
<1>2. PICK p \in PlanIds : p = PlanOf(x)
  BY <1>1
<1>3. PICK c \in CommitIds : c = CommitOf(x)
  BY <1>1
<1>4. \/ OfRecord(p, c) /\ UNCHANGED <<plans, durable>>
      \/ Commit(p, c) /\ live' # NoSnapshot /\ plans'[p].state = "committed"
  BY <1>1, <1>2, <1>3 DEF HandlerResult, Confirms
<1>5. StandsAs(plans'[p], c)
  <2>1. CASE OfRecord(p, c) /\ UNCHANGED <<plans, durable>>
    BY <2>1 DEF OfRecord, StandsAs, Absent
  <2>2. CASE Commit(p, c) /\ live' # NoSnapshot /\ plans'[p].state = "committed"
    BY <2>2, CommitAlive DEF EngineOK
  <2>3. QED
    BY <1>4, <2>1, <2>2
<1>6. StandsAs(durable'[p], c)
  BY <1>5, StandsOnDisk DEF EngineOK
<1>7. QED
  BY <1>2, <1>3, <1>6

\* A publisher that reads a confirmation.
LEMMA PromisesReceive ==
    ASSUME SessionsOK, EngineOK, Told, [Next]_vars, NEW s \in Sessions, Receive(s)
    PROVE  PromisesStand'
<1>1. CASE promised' = promised
  BY <1>1, PromisesKept
<1>2. CASE /\ Confirms(session[s])
           /\ promised' = promised \cup {<<PlanOf(session[s]), CommitOf(session[s])>>}
  <2>1. PICK p \in PlanIds : p = PlanOf(session[s])
    BY <1>2, ConfirmedNames
  <2>2. PICK c \in CommitIds : c = CommitOf(session[s])
    BY <1>2, ConfirmedNames
  <2>3. StandsAs(durable[p], c) /\ promised' = promised \cup {<<p, c>>}
    BY <1>2, <2>1, <2>2 DEF Told, ConfirmationsStand
  <2>4. StandsAs(durable'[p], c)
    BY <2>3, StoodStands
  <2>5. ASSUME NEW y \in promised PROVE StandsAs(durable'[y[1]], y[2])
    BY StoodStands DEF Told, PromisesStand
  <2>6. promised' \subseteq PlanIds \X CommitIds
    BY <2>3 DEF Told, PromisesStand
  <2>7. QED
    BY <2>3, <2>4, <2>5, <2>6 DEF PromisesStand, StandsAs
<1>3. QED
  BY <1>1, <1>2 DEF Receive, Confirms, PlanOf, CommitOf, Request, At

LEMMA ToldStep ==
    ASSUME SessionsOK, EngineOK, EngineOK', Told, [ServiceNext]_serviceVars
    PROVE  Told'
<1>0. [Next]_vars
  BY SessionsStep
<1>1. ASSUME NEW s \in Sessions, NEW x, PublisherStep(s, x) PROVE Told'
  <2>1. ~Confirms(x) /\ session' = [session EXCEPT ![s] = x]
    BY <1>1 DEF PublisherStep, Confirms
  <2>2. ConfirmationsStand'
    BY <1>0, <2>1, ConfirmationsKept
  <2>3. PromisesStand'
    BY <1>0, <1>1, PromisesKept, PromisesReceive DEF PublisherStep
  <2>4. QED
    BY <2>2, <2>3 DEF Told
<1>2. ASSUME NEW s \in Sessions, Handle(s) PROVE Told'
  <2>1. HandlerStep(s) /\ ~At(s, "idle") /\ UNCHANGED promised
    BY <1>2, HandleStep DEF HandlerStep
  <2>2. PromisesStand'
    BY <1>0, <2>1, PromisesKept
  <2>3. ASSUME NEW x, HandlerResult(s, x), session' = [session EXCEPT ![s] = x]
        PROVE  ConfirmationsStand'
    BY <1>0, <2>1, <2>3, HandlerConfirms, ConfirmationsKept
  <2>4. QED
    BY <2>1, <2>2, <2>3, ConfirmationsDropped DEF HandlerStep, Told
<1>3. CASE session' = Dropped /\ UNCHANGED promised
  BY <1>0, <1>3, PromisesKept, ConfirmationsDropped DEF Told
<1>4. CASE UNCHANGED serviceVars
  BY <1>4 DEF serviceVars, vars, disk, Told, PromisesStand, ConfirmationsStand, Confirms, PlanOf,
              CommitOf, StandsAs
<1>5. QED
  BY <1>1, <1>2, <1>3, <1>4, ServiceSteps

\* handle_commit_request: a commit a publisher has been told of is on disk
\* under exactly that commit identity and stays there, whichever of the two
\* looks or the engine's own replay answered, and however often it was sent.
THEOREM PromisedCommitsStandHolds == ServiceSpec => []PromisedCommitsStand
<1>1. ServiceInit => Told
  <2>1. \A s \in Sessions : ServiceInit => ~Confirms(session[s])
    BY IdleOK DEF ServiceInit, Dropped, Confirms
  <2>2. QED
    BY <2>1 DEF ServiceInit, Told, PromisesStand, ConfirmationsStand
<1>2. SessionsOK /\ EngineOK /\ EngineOK' /\ Told /\ [ServiceNext]_serviceVars => Told'
  BY ToldStep
<1>3. Told => PromisedCommitsStand
  BY DEF Told, PromisesStand, PromisedCommitsStand, StandsAs
<1>4. QED
  BY <1>1, <1>2, <1>3, SessionsHold, EngineHolds, PTL DEF ServiceSpec

(***************************************************************************)
(* Repeated commits                                                        *)
(***************************************************************************)
\* Where a handler of a commit request stands.
LEMMA CommitRequestPc ==
    ASSUME SessionsOK, NEW s \in Sessions, Handle(s), Request(s).op = "commit", ~At(s, "authorize")
    PROVE  LookForReplay(s) \/ Look(s) \/ CommitPlan(s)
<1>1. session[s].pc \in {"replay", "look", "commit"}
  BY HandleStep, ServedRequest DEF Serves, At
<1>2. ~(Submit(s) \/ DeclarePlan(s) \/ ValidatePlan(s) \/ SolvePlan(s) \/ AuthorizePlan(s)
        \/ RetirePlan(s) \/ QueryPlan(s))
  BY <1>1 DEF Submit, DeclarePlan, ValidatePlan, SolvePlan, AuthorizePlan, RetirePlan, QueryPlan, At
<1>3. QED
  BY <1>2 DEF Handle

\* A handler that finds its commit of record answers with success or goes on.
LEMMA ReplayFound ==
    ASSUME SessionsOK, NEW s \in Sessions, Handle(s), Request(s).op = "commit", ~At(s, "authorize"),
           OfRecord(Request(s).plan, Request(s).commit), session'[s].pc = "reply"
    PROVE  session'[s].code = "ok"
<1> DEFINE p == Request(s).plan
           c == Request(s).commit
<1>1. plans[p].state = "committed" /\ plans[p].commit = c /\ Known(p)
  BY DEF OfRecord, Known, Absent
<1>2. {"commit", "look"} \subseteq Pcs /\ "ok" \in Codes
  BY DEF Pcs, Codes
<1>3. session' # Dropped
  BY IdleOK DEF Dropped
<1>4. ASSUME session' = Reply(s, "ok") PROVE session'[s].code = "ok"
  BY <1>2, <1>4, ReplySession DEF SessionsOK
<1>5. ASSUME session' = Goto(s, "commit") PROVE FALSE
  BY <1>2, <1>5, GotoSession DEF SessionsOK
<1>6. CASE LookForReplay(s)
  BY <1>4, <1>6 DEF LookForReplay, Unchanged, Unless
<1>7. CASE Look(s)
  <2>1. Unchanged(Goto(s, "commit"))
    BY <1>1, <1>7 DEF Look
  <2>2. QED
    BY <1>5, <2>1 DEF Unchanged, Unless
<1>8. CASE CommitPlan(s)
  <2>1. ~can_transition(plans[p].state, "committed")
    BY <1>1 DEF can_transition
  <2>2. ~Commit(p, c)
    BY <2>1, CommitCases
  <2>3. Then(Reply(s, "ok"))
    BY <1>1, <1>8, <2>2 DEF CommitPlan
  <2>4. QED
    BY <1>3, <1>4, <2>3 DEF Then, Unless
<1>9. QED
  BY <1>6, <1>7, <1>8, CommitRequestPc

\* A commit that is repeated, or made at the same time through another
\* connection, is answered with success wherever the handler finds it of
\* record: at either look, or when another thread got there first between the
\* second look and the engine's commit.
THEOREM DuplicateFoundIsReplayHolds == ServiceSpec => DuplicateFoundIsReplay
<1>1. ASSUME SessionsOK, [ServiceNext]_serviceVars, NEW s \in Sessions, AnswersDuplicate(s),
             ~At(s, "authorize")
      PROVE  session'[s].code = "ok"
  <2>1. /\ ~At(s, "reply") /\ session'[s].pc = "reply" /\ Request(s).op = "commit"
        /\ OfRecord(Request(s).plan, Request(s).commit) /\ session'[s] # session[s]
    BY <1>1 DEF AnswersDuplicate, At
  <2>2. session' # Dropped
    BY <2>1, IdleOK DEF Dropped
  <2>3. ASSUME NEW t \in Sessions, NEW x, session' = [session EXCEPT ![t] = x]
        PROVE  t = s /\ x.pc = "reply"
    BY <1>1, <2>1, <2>3 DEF SessionsOK
  <2>4. ASSUME NEW t \in Sessions, NEW x, PublisherStep(t, x) PROVE FALSE
    BY <2>3, <2>4 DEF PublisherStep
  <2>5. ASSUME NEW t \in Sessions, Handle(t) PROVE t = s
    BY <1>1, <2>2, <2>3, <2>5, HandleStep DEF HandlerStep
  <2>6. Handle(s)
    BY <1>1, <2>1, <2>2, <2>4, <2>5, ServiceSteps DEF serviceVars
  <2>7. QED
    BY <1>1, <2>1, <2>6, ReplayFound
<1>2. SessionsOK /\ [ServiceNext]_serviceVars =>
        \A s \in Sessions : AnswersDuplicate(s) /\ ~At(s, "authorize") => session'[s].code = "ok"
  BY <1>1
<1>3. QED
  BY <1>2, SessionsHold, PTL DEF ServiceSpec, DuplicateFoundIsReplay

==============================================================================
