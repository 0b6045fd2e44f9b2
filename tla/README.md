# Traffic Engineering Fabric: specifications, model checking, proofs

The fabric plans traffic allocations against snapshots of a network. A plan is bound to the exact
inputs it was derived from, passes through a lifecycle, and may be committed only while those inputs
are live. A coordinator serves publishers over TCP; a repository makes plans, fences and coordinator
epochs durable. This directory holds TLA+ models of the parts that carry state across calls, threads
and crashes, of the algorithm that computes a plan and of the messages and records that carry it,
the TLC runs that check them on small instances, and proofs for all instances.

Paths below are relative to the repository: `engine.cpp` is `src/engine.cpp`.

## Inventory

| Component | State | Operations | What makes it hard | What makes it correct |
| --- | --- | --- | --- | --- |
| Authority (`authority.cpp`) | none | `authority_of`, `compare_authority`, the judgements of a delta | absent generations, references and digests compare differently | "identical" means equal inputs; a stale plan is told from a contradictory one |
| Engine and lifecycle (`engine.cpp`, `plan.cpp`) | plans, pending requests, live snapshot, incumbent | `submit_snapshot`, `declare`, `validate`, `solve`, `authorize`, `commit`, `supersede`, `mark_stale`, `retire`, `revalidate`, recovery | memory changes before the log does; one call appends several records; appends fail; the process dies | commits only under live authority; one plan of record; history is never authority; nothing a reader saw is forgotten |
| Repository (`persist.cpp`) | snapshot file, journal, records in memory, hash chain | `open`, `append`, `compact`, `close` | torn and failed writes, a crash between two file replacements, bounds | an acknowledged record survives; what is recovered is a gapless chain |
| Coordinator registry (`coordinator.cpp`) | registered boots, fences, epoch | `register_publisher`, `validate_binding`, `start`, `stop` | handlers of several connections interleave between critical sections; frames of dead coordinators and replaced boots arrive late | fenced boots and old epochs never reach the engine |
| Request handlers (`coordinator.cpp`) | none of their own | `dispatch`, `handle_plan_request`, `handle_commit_request`, retire, query | one request is up to four engine calls, and handlers of other connections run between them | every request is answered for the state it meets; a repeated one is told the truth |
| Coordinator threads (`coordinator.cpp`, `net.cpp`) | acceptor, workers, sessions, stopping flag | `accept_loop`, `handle_connection`, `stop`, socket interruption | peers that say nothing, connections accepted during shutdown | `stop` returns, and nothing runs after it |
| Publisher client (`publisher.cpp`, `tools/tef_node.cpp`) | learned epoch, counters | handshake, register, submit, commit, supersede, retire, query | keeps an epoch it learned from a dead coordinator; a reply is lost and the call made again | retries are refused or idempotent; what it was told stays true |
| Protocol, framing, record images (`protocol.cpp`, `net.cpp`, `binary.hpp`, codecs of `model.cpp` and `persist.cpp`) | bytes under way, bytes in the journal | `encode`, `decode`, `read_frame`, `write_frame`, the journal scan | writers and readers agree only by the order of their fields; streams are cut anywhere | a request is handled as it was made, a reply told as it was given, a record read back as it was written |
| Model and derivation (`model.cpp`, `derived.cpp`) | none | canonicalisation, `validate_structure`, `derive` | who pays for a reservation, expiry at a tick, ties | capacity is charged once, floors and eligibility are what policy and demand say |
| Solver and verifier (`solver.cpp`, `allocation.cpp`, `feasibility.cpp`) | loads, shares and ceilings while it runs | `solve` with its searches, repair, filling and consolidation; `verify_allocation` | loops that undo and redo each other's work on shared loads, a shared iteration budget, verdicts that overlap | no bound is ever exceeded, verdicts are sound, the verifier agrees, it returns |
| Churn control (`allocation.cpp`, `solver.cpp`, `engine.cpp`) | the incumbent, and the one each plan was compared with | `score_allocation`, `compare_churn`, the gate in `authorize` | several publishers compare with what was current when they read it; integer ratios | a replacement improves and moves no more than allowed; replacements end |
| Digests, explanations, `tef_cli` | none | hash, print | text | |

Interaction: a worker thread decodes a frame, calls `validate_binding`, then one or more engine
methods, each under the engine's mutex. An engine method appends to the repository, under the
repository's mutex, while it holds its own. The registry appends fences and epochs to the same
repository. Nothing calls back.

## Modules

    Authority        vectors of bound inputs and their comparison
    PlanEngine       the engine over an abstract disk            (EXTENDS Authority)
    DurableLog       what the repository gives its callers, failed writes included
    Repository       files, memory, crashes and faults           (INSTANCEs DurableLog)
    Service          request handlers over the engine, publishers (EXTENDS PlanEngine)
    Codec            what every encoder writes and every decoder demands, as operators
    Wire             one call and its journal record, unit by unit (EXTENDS Codec)
    Call             what a call promises, abstractly            (INSTANCEd by Wire)
    Registry         registration, fencing, epochs
    Connections      threads of the coordinator and shutdown
    Derivation       snapshots and what is derived from them, as operators
    Solver           solve, loop by loop, and verify_allocation  (EXTENDS Derivation)
    Churn            scores, compare_churn and the engine's use of it (EXTENDS Derivation)
    Sums             the sum of a function over a finite set
    MCFabric         constructors for small snapshots            (EXTENDS Derivation)
    MC*              small instances of each for TLC

    ServiceProofs    theorems about PlanEngine, then about Service
    RepositoryProofs, RegistryProofs, ConnectionsProofs,
    SolverProofs, ChurnProofs                                    theorems about each
    WireProofs       theorems about Codec, then about Wire
    DataInduction    induction over numbers and finite sets, and lemmas about sums

Operators named in a comment as a mutant are deliberately wrong variants of the definition they
precede. No action uses them; each shows that a property notices that fault.

### PlanEngine

Each public method of `Engine` holds the engine mutex from its first line to its last, so a method is
one action. What is not atomic is a method against the disk. Every mutating action therefore has
three outcomes (`Mutate`): all appends succeed; one of them reports a failure, and the call returns
an error with what it had already changed in memory; or the process dies after some of the appends
and a new engine recovers (`Restarted`). `submit_snapshot` appends one record per demoted plan, in
identity order; `commit` and `supersede` append two; `declare` is the only one that appends before it
touches memory.

`log` is the latest record of each plan in the repository's memory, `durable` what a restart would
recover. They differ only after a failed append left bytes in the journal (`intact = FALSE`): later
appends then succeed without being recoverable until a compaction rewrites everything, which is what
the Repository module shows of `persist.cpp`.

Data is abstracted to what the guards look at. A snapshot is an authority vector, an evaluation tick
and the degraded-commit policy. An allocation is the set of ticks at which `verify_allocation`
accepts it, because the tick is the one part of a snapshot the vector does not bind. The solver's
outcome is a choice among an error, a rejection and an allocation that verifies now. Refused calls
that change nothing are stuttering steps. The branches for a missing snapshot in `validate`, `solve`,
`authorize` and `commit` have no action: `HistoryIsNotAuthority` shows they are never reached.

### Repository and DurableLog

A method is atomic against other methods (one mutex) but the process can die after each effect on the
disk, so a compaction is three steps (replace the snapshot, reset the journal, reopen it) and a write
has all its outcomes: nothing, a torn piece, the whole record. A record's payload is a fresh number
that also stands for its digest. `Replay` is the recovery loop of `open`, record by record. File
operations fail where the code tests them: the write and the synchronisation of an append, the
replacement of either file in a compaction, the reopening of the journal.

`DurableLog` is the contract under those failures: what callers read (`log`), what a restart would
recover (`durable`) and whether the two can part (`intact`). They part only in a file operation that
fails, and meet again in a compaction or a restart. It is the disk of PlanEngine, seen record by
record instead of as the latest record of each plan. `ImplementsLog` maps `durable` to what `Replay`
yields in the current state, so every crash window is covered in every state, not only where a crash
happens.

### Registry

A handler takes the registry mutex once per look, so a registration is four steps and a mutation two
before its engine calls; one action is one critical section or one append. The repository is taken at
its word here (no append fails); what a failed one does is Repository's finding. Frames are
inputs with any epoch some coordinator ever served, which covers delayed and repeated frames and
clients that never greet a new coordinator. Two fields of a thread record facts about the moment its
frame was read (`fenced_on_arrival`, `alone`), and `served` and `fenced_ever` are history; no guard
reads them except through the frame's epoch. `repository` says whether the coordinator was configured
with a data directory. Without one every coordinator has epoch 1 and fences end with the process:
`StaleFrameRefused` is then not claimed (a frame of an earlier coordinator passes), and `fenced_ever`
is the running coordinator's alone.

### Service

PlanEngine's actions are the engine calls; Service says who makes them and in which order. A handler
step is one engine call, because the engine's mutex is released between two of them, and every
outcome of a call leads to the reply the handler gives or to its next call. A session is a connection
with the publisher at one end and the worker at the other. Replies are lost with their connection,
publishers are started again with the same arguments, the coordinator dies between any two steps.
`planned` and `promised` record what publishers were told. The bindings of requests have been checked
(that is Registry), and no append fails (`MaxFaults = 0`, an ASSUME): what a failed append does to the
answers is the engine's (`MCPlanEngine_acked`). A supersede request needs two committed plans, which
`OneCommitted` excludes, so it is always refused.

### Codec, Wire and Call

`Codec` has one layout per message, record and nested structure: a `...Written` layout is what the
encoder writes, field by field in its order, and a `...Read` layout what the decoder expects. The two
are separate definitions because they are separate functions in the code; where they do not agree, a
value comes out different or is refused. A field's kind says what the reader demands of it: a
generation is not zero, an enumerator is not above the last, an identifier is not empty and within its
length, a list is within its bound, a format version is the current one. `Put` and `Get` are Writer and
Reader over units: an integer of any width, a character and a digest are one unit each. Layouts are
nested four deep at most, so `PutAll` and `GetAll` have one operator per level instead of recursion, and
a list is read by a recursive function over its entries (`GetEach`). `HasType` is what the types of the
program guarantee of a value before it is encoded, whatever a decoder would say to it; `WireAssumption`
asks it of every value, and TLC evaluates that in the runs.

`Wire` is one call. The publisher's frame travels in pieces through a buffer of the kernel, is read
header first, checked, dispatched and handled; the handler may append a record, which is written unit
by unit; the reply travels back. The connection may close and the coordinator may die between any two
units. `Call` is what remains when the transport is forgotten: the request is handled at most once and
as it was made, and the publisher is told what was answered or that the call failed. Frames and
records are built once from their values (`Messages`, `Frames`), and the state holds how far each has
travelled. The values of a message are numbered by place, so a reader that takes a field for its
neighbour gets the wrong one.

### Connections

The acceptor, each worker and the caller of `stop` are separate processes with one action per step
that touches shared state. For an accepted connection the acceptor looks at `stopping`, tests the number
of workers against `max_worker_threads`, then against `max_connections`, and then increments it: four
steps, with two separate reads of a count that workers decrement in between. A read or write completes
when the peer acts or the socket is interrupted.

### Derivation and Solver

`Derivation` is pure: what `validate_structure` demands of a snapshot, and `derive` with one operator
per derived quantity (`Accounting` is the disposition of a reservation, `eligible_paths` the cut and
ordered list). `make_problem` adds what `solve` reads of the snapshot and its options. `MCSolver`
builds snapshots, asserts that each is valid, and hands the derived problems to `Solver`.

`Solver` is one run of `solve`. An action is one iteration of one of its loops: a probe of the
utilisation search, a demand visited, a share placed on one path, a repair round, a resource scanned,
a mover relocated onto one path, a demand filled or consolidated, and the verdict. Small steps matter
because `grant` and `revoke` work on loads that several loops share; the invariants hold between any
two of them. Two things are stated by what they decide, not how. The maximum flow of `certify` is its
minimum cut: `RelaxedFeasible` asks of every set of demands whether the `Cut` that separates it
carries the floors, which is what the augmenting-path loop decides. The sort of `order_paths` is the relation `Prefers`, and `PlaceOn` takes a path no
remaining one is preferred to; ties that the code breaks by identity are broken the same way.
`Placing`, `Takes` and the amounts are the code's. `verify_allocation` is evaluated by `Conclude` on
the finished shares, as the code does. Notes, rejected alternatives and binding lists are left out.

### Churn

`raw_value` and `Score` are `compute_metrics` and `score_from_metrics`, with all eleven terms. The
resource table of an allocation stays with it, because the code reads utilisation from there and not
from the live snapshot. The state machine around them is the engine's: a plan is declared with the
incumbent its publisher read, solved against the live snapshot, compared, authorized and committed,
while other plans do the same and snapshots change. What `solve` answers is any allocation that has
the properties Solver's invariants establish (`Allocations`), degraded ones, policy ceilings and excluded
demands included; where the objective tightens the ceiling or consolidates paths, nothing is asked of
how much a demand gets. `MayOmit` says whether publishers may leave the incumbent out, as the request
allows, and `Handed` that an incumbent loses its resource table when it travels in a message
(`encode_allocation` writes none).

Numbers stop at `MaxInt`, as they stop at 2^63 - 1 in the code. Weights are not bounded by validation
and costs go up to 10^9, so scores saturate (`sat`), and `permille` answers 1000 for any positive part
it cannot multiply by 1000. Both decide gates, so both are in the model and in the properties: beyond
that size `ReplacementImproves` and `ReplacementConfined` say only what is left of the gate. Sums of
granted bandwidth are exact: 4096 demands of 10^15 are below 2^63, before and after together.

## Runs

| Run | Result | What it shows |
| --- | --- | --- |
| `engine` | pass, 1.2 million states | the engine's contract with a disk that reports no failure, crashes included |
| `engine_faults` | pass, 3.0 million states | what survives a failed append: history is not authority, lineage stays acyclic, nothing is committed that is not bound to the live authority and does not fit the live tick |
| `repository` | pass | what is recovered is a gapless chain; an acknowledged record is given up only to a failed file operation; the repository implements DurableLog through every crash and failure |
| `repository_acked` | violation | finding 1: an acknowledged record is lost behind the bytes of a failed write |
| `registry` | pass, 81,000 states | fences and epochs across threads, crashes and restarts, with a data directory and without |
| `service` | pass | a commit a publisher was told of stands, a plan identity is planned once, a duplicate that is found is answered as a replay, every request is answered |
| `service_duplicate` | violation | finding 2: a duplicate commit that arrives while the first is being served is refused |
| `wire` | pass, 132,000 states | codec, framing, dispatch and journal together are one call; no decoder accepts a piece of a message; recovery reads what was written; a call ends |
| `wire_crowded` | violation | finding 3: a plan with more shares than the reader's bound is written and cannot be read back |
| `connections` | pass, 44,000 states | the worker limit, nothing runs after `stop`, `stop` returns |
| `solver` | pass, 180,000 states | about 1,200 fabrics: no bound is exceeded at any step, no demand loses by repair or consolidation, nothing is wasted, the search finds the tightest ceiling, verdicts are sound, `solve` returns |
| `churn` | pass, 640,000 states | a plan that replaces the incumbent it was compared with improves by the threshold and moves no more than the policy allows, up to what `permille` can scale; replacements end while the fabric stays the same |

Bounds and why they are enough. *engine*: two plans are needed for displacement, supersession and
order within the demotion loop; a third adds only further displaced plans, and the proofs have no
such bound. Three snapshots give every kind of difference (newer, older, same generation with other
content); two commit identities give replays and conflicts. One bare generation and one digest stand
for the fields, and no reference: its comparison is that of a generation and an identity, and the
proofs cover all three groups. *engine_faults*: one failed append of any kind at any append; a second
multiplies the states beyond reach. Two of its snapshots differ only in their tick and the third in
generation and content, so that a plan whose demotion was lost meets `commit` with another authority, or with an allocation that no
longer verifies. *repository*: five appends with a compaction every two give two
automatic compactions, explicit ones between them, and crashes within each; two failures are what a
failed compaction after a failed append needs; four records are fewer than the appends, so the record
bound is met. *registry*: two threads and three boots are what an overlap over an earlier boot needs;
three starts allow a start that dies after its epoch is on disk between two that serve. *service*: two
sessions, since every race in the handlers is between two of them, and two workloads, one in which
publishers contend for one plan identity under two commit identities, one in which two plans displace
each other. *wire*: names of up to two units, texts of three, lists of four entries; every message is
sent bare or filled, and at its bounds ("most"), where each list and text is as long as its reader
allows. The payload bound of 500 lies between messages at their bounds, so that some of them are
refused by the sender. A buffer of two units makes every cut of the stream happen. *connections*: one
connection more than the lower limit; the other limit is as high as the number of connections. *solver*: three resources, four paths (two over two resources) and
three demands are the least that have a demand blocked by two others, a relocation that frees one
resource of a path and fills another, and a consolidation that undoes it; every combination of
bandwidths, allowed paths and objectives over them is one initial state. `MaxProbes` bounds the
bisection, which needs ten probes for a thousand ceilings; the certificate limits are the code's
scaled down, and only `MCSolver_uncertified` reaches them. *churn*: two plans are what one comparison
overtaken by another needs; capacities of two make some moves exceed half of the bandwidth, and the
change of snapshot adds and removes a demand, which is what makes the ratios exceed 1000. With
`MaxInt = 3999`, `permille` scales parts of up to 3: some scores and some moves are beyond it, others
are not, and both disjuncts of each property are met. The policies include one that commits degraded
results and one with a ceiling below the capacity.

`registry` does not check for deadlock: a coordinator that was stopped need not be started again.
Its symmetry sets (threads, boots) only permute names that no operator orders. `solver`, `churn` and
`wire` do not check for it either: `solve` returns, a fabric may be left alone, a call ends.

Fairness is used in `connections`, `solver`, `service` and `wire`. `solve` is one sequential function,
so weak fairness of its next step is all `Terminates` assumes. `Settles` needs none: it says that
infinitely many changes of the incumbent need infinitely many snapshots, or plans declared without the
incumbent. In `connections`, weak fairness of the acceptor, of each worker and of the caller of `stop`
says that the operating system runs every thread and that a handler ends, which holds because handlers
take no lock across a wait on a peer. Peers are given none there: a read or a write need never complete
unless the socket is interrupted. In `service`, each worker is weakly fair, and so is the step in which
a reply is received or lost; publishers need never make a call. In `wire` both ends are weakly fair
while they have something to do. Neither is assumed to keep the connection, so `CallEnds` says that the
two never wait for each other: `read_frame` has no timeout of its own.

## What is proved

Each theorem holds for every value of the constants: any number of plans, connections, records,
demands, paths, and so on. A property that a run checks on a small instance is stated by the theorem
in the same words.

| Module | Theorems | Hypothesis |
| --- | --- | --- |
| `ServiceProofs` | `TypeCorrect`, `HistoryIsNotAuthorityHolds`, `CommitUnderLiveAuthorityHolds`, `LineageAcyclicHolds` | |
| | `CleanLogInvariants`, `RestartForgetsNothingHolds`, `BoundToLiveHolds`, `AckedCommitsDurableHolds`, `OneCommitPerPlanHolds`, `LifecycleOnlyHolds`, `SupersededHasSuccessorHolds` | no append reports a failure |
| | `ServiceRunsEngine`, `PlannedOnceHolds`, `PromisedCommitsStandHolds`, `DuplicateFoundIsReplayHolds` | no append reports a failure (an ASSUME of Service) |
| `RegistryProofs` | `RegistryTypeCorrect`, `LoneRegistrationFences` | an append that succeeds is on disk |
| | `FencedBootsStayOut` | the same; without a data directory, while the coordinator that fenced runs |
| | `StaleFramesAreRefused` | the same, and there is a data directory |
| `ConnectionsProofs` | `WorkersBoundedHolds`, `NothingRunsAfterStopHolds` | |
| `RepositoryProofs` | `RecoveredChainedHolds`, `AckedStaysRecoverableHolds`, `ImplementsLogHolds` | the fence bound is not exceeded |
| `SolverProofs` | `HardBoundsHolds`, `NoDemandLosesHolds`, `VerifierAgreesHolds`, `NothingWastedHolds` | |
| | `FinalRepeatsTrialHolds` | the iteration budget is not exceeded |
| | `TightestCeilingHolds` | at least ten probes |
| | `CapacityVerdictSoundHolds` | at least ten probes; the certificate is built |
| `ChurnProofs` | `ReplacementImprovesHolds`, `ReplacementConfinedHolds` | the incumbent lists a demand; beyond what `permille` can scale, only what the properties say |
| | `ValidSnapshotIsProblem` | `solve` does not refuse the iteration limit |
| `WireProofs` | `DecodersReadWhatEncodersWrite`, `WireIsSelfDelimiting`, `WireImplementsCall` | |
| | `WireRecoveryReads` | a record that `append` accepts is within the bounds of its decoder |

The hypotheses are not conveniences: without each the statement is false, and a run shows it. With a
failed append the engine's promises fail (`repository_acked`, `MCPlanEngine_acked`), and a fence or an
epoch written behind its bytes is lost like any other record; what `permille` cannot scale passes a gate
it should not (`MCChurn_overflow`); a fence beyond its
bound makes a snapshot that `open` refuses (`MCRepository_refused`); a certificate that is not built
proves nothing (`MCSolver_uncertified`); trials that use up the iteration budget leave none for the final
run (`MCSolver_exhausted`); a plan with more shares than its decoder takes is not recovered
(`wire_crowded`). Ten probes bisect a thousand ceilings, and
`Limits::max_max_utilization_probes` is 64.

Assumptions on constants are named ASSUMEs of the modules that declare them; TLC evaluates them in
every run. Those of `PlanEngine` say that identities are naturals in the order of the plan map, that
snapshots have complete vectors, and that equal vectors mean equal policy content. Those of `Churn` say
that snapshots are valid and that `MaxInt` is a natural number. `Solver` assumes `IsProblem` of its problems, and `ValidSnapshotIsProblem`
shows that of whatever `make_problem` makes of a valid snapshot: residual capacities and floors are not
negative, and the ordered, cut list of eligible paths names no path twice, because `path_less` is a
strict total order (`PathOrder`, `Ranks`).

**Engine.** `HistoryIsNotAuthority` is inductive given types, by cases on the three outcomes of each
method. `CommitUnderLiveAuthority` needs no invariant but types: the gate in `commit` alone decides, and
the lemma `IdenticalIsEqual` turns "no difference found" into equality of vectors. That lemma is where
`SnapshotsAssumption` is used: an absent generation is not compared. In `CleanLogInvariants` no conjunct
is inductive alone: `OneCommitted` speaks of memory and disk, and a crash between the two appends of a
commit makes the disk memory, so it needs `RestartForgetsNothing`; that needs the log to be what is
durable (`CleanLog`); and a commit displaces the right plan only because the committed plan is the
incumbent.

The theorems about history bring all methods into one form first (`StepShape`): the records a method
builds, and which of them reached memory, the log and the disk. `LineageInv` makes `LineageAcyclic`
inductive under any faults: plans that advance or are committed have no successor yet, in memory, in
the log and on disk (`RecordsFresh`), so a new reference starts where none was and cannot close a
circle; and neither the log nor the disk knows a reference that memory does not (`NothingNewOnDisk`),
so no restart brings back one that does. An acknowledged commit is traced to the record that carries it
(`StandsAs`). `SupersededHasSuccessor` leaves room for one state between the two appends of a commit, in
which the displaced plan names a successor that is still advancing: only a restart makes it visible, and
the same restart makes that successor stale (`AnsweredAfterRestart`).

**Service.** `ServiceRunsEngine` shows that every handler step is one engine call or none, so every
theorem about `Spec` holds of `ServiceSpec`. On top of it, `Owners` says that the handler between
`declare` and its reply is the only one that has declared that plan, and `Told` that every commit
confirmed to a publisher, or about to be, is of record under that identity.

**Registry.** `IInv` adds to the types what each half-way handler knows: `Held` (no coordinator, no
connection; a registration past its look has found the boot it is about to fence), `Epochs` (the
epoch that runs is the last one served; with a data directory coordinators came up with increasing
epochs, none above the one on disk, and a checked frame carries the last), `Fencing` (a fence some
registration was acknowledged after is in the data directory, if there is one, and in the memory of
every coordinator that runs, and a frame past its checks was not fenced on arrival) and `Undisturbed`
(while a registration is alone, what it found when it looked is still so). Without the last a
registration between look and install could replace a boot it never saw, which is what
`MCRegistry_replaced` shows.

**Connections.** The count is exact (`Counted`): the workers there are, and one more while the acceptor
holds an admitted connection that has no worker yet. It stays below a limit from the test to the
increment (`Bounded`), because the acceptor alone adds to it and workers only take from it: what was
read by one test may be out of date at the next, but never too low. After the join of the acceptor
nothing adds to it.

**Repository.** The invariant speaks of all records on either file and in memory, left-over ones
included: they belong to one tree of appends, in which a digest determines the sequence number that
follows (`WrittenOK`); the snapshot and memory are whole chains (`ChainsOK`); between the replacement of
the snapshot and the reopening of the journal the snapshot is memory (`Covered`), and otherwise memory
extends it (`Follows`). What `Replay` makes of a journal is shown by induction on its records: it
returns a chain that extends the snapshot, and a record appended to a journal without left-overs is
returned with it. `ImplementsLogHolds` maps `durable` to that value and has one step per action.

**Solver.** `Inv` says that the totals `allocated` and `granted` are the sums of the shares at every
step (`SumsOK`), that only eligible paths of demands in service carry anything, and that bandwidth being
moved is still where it was found (`MovesOK`); the last is what makes `revoke` undo exactly what a
`grant` elsewhere replaced. For the search, `IntervalOK` says that everything below the interval is too
tight, that the best value is just above it, and that its width halves with every probe. `FillOK`
says that the paths `place` has passed are full or the need is met, and stays so because only the
filling phase adds load. `CapacityVerdictSoundHolds` is weak duality: floors that can be split within
the ceilings pass every cut (`CarriableIsFeasible`), so a cut that fails excludes every split.

`FinalRepeatsTrialHolds` compares two executions of `run_minimums`, a trial and the final run, with
others in between. `Step` writes one iteration of its loops as a function of their own variables, the
problem and the ceiling; every action of the run is that function (`RunActionFollows`), because each
choice in it has one outcome: the next demand, the order of its paths, the share that fits, the next
mover (`FirstIsUnique`, `OrderIsUnique`, `TakeIsUnique`, `FirstMoverIsUnique`). `Follows` asks for
agreement only in the variables that are read again before they are written, which is the point: what an
earlier run left in the others does not matter. So the run in progress is a trace of `Step` from a fresh
problem (`Traced`), two traces under one ceiling that end are one (`OutcomeIsUnique`), and the ceiling
kept as best is one whose trace ends with every floor met (`BestOK`). The order of paths has one outcome
because `path_less` is asymmetric, which `ValidSnapshotIsProblem` shows.

**Churn.** `ChurnInv` says that a live plan's report is the comparison of its answer with the incumbent
its publisher supplied, under the snapshot in force, and that every incumbent was an answer for some
snapshot, perhaps another one (`IsAllocation`), so that all its shares and totals are numbers under the
present one too. The two scores that `compare_churn` is given are not alike: only the proposal's counts
the churn term. `RawFacts` goes through the eleven terms to show that this can only make the proposal
look worse, which needs weights that are not negative, and those `solve` refuses; saturation keeps that
order (`WeightedLeq`), rounding and overflow are handled by `PermilleBounds`. An incumbent without its
table scores no worse than with it (`LostTable`: two of the terms read the table, the others only the
shares, `SameShares`), so what passes against it passes against the incumbent itself. For the bounds on traffic, `MovedIsRest` shows that the sum of differences that
`moved_bandwidth` takes is what either allocation carries beyond what they have in common. An incumbent
that lists no demand is compared as if there were none, so the statements are about incumbents that
list one.

**Wire.** Encoders and decoders are compared layout by layout: `Agree` pairs what is written with what is
read, field by field and down through the nested layouts, and says nothing of what the reader demands.
From that alone `Reads` follows, for every kind of field and every level: where the buffer holds the
units of a value the decoder finds that value and stops behind it, or fails, and where the buffer ends
within them it fails. `Accepts` is the other half: it does not fail when the value is within the
decoder's bounds (`Fits`) and the buffer within the payload's. Lists go by induction over their entries,
with the offsets at which the pieces of a concatenation lie (`Pieces`). For the call, `CallInv` says that
neither side has more of a frame than its header asks for, however the stream was cut, and that what was
handled or returned is a frame that was whole, sound and understood; the refinement of `Call` is then one
step per action. For the journal, `JournalInv` says which records are whole and how much there is of the
next. The scan is followed record by record: a record that is there passes every check and is the next of
the chain (`SoundRecord`, `ScanFinds`), and one that is only partly there is found too short before any
checksum is looked at (`TornRecord`), so nothing rests on what a checksum tells apart.

**Induction over data.** The provers cannot instantiate the library's induction theorems, whose
parameter is an operator. `DataInduction` states induction over the naturals and over finite sets with
a set of good values in place of the predicate, which they can, and derives from it that `SumOver` obeys
its recursion, splits, is monotone and subadditive, and does not depend on the order it is taken in.

Only model-checked:

* Liveness (`StopReturns`, `Terminates`, `Settles`, `Answered`, `CallEnds`): fairness and ENABLED are
  outside the prover. Every other property of a passing run is stated by a theorem.

## Findings

1. A failed `append` leaves its bytes in the journal; later acknowledged records are cut off with
   them on the next open (`repository_acked`).
2. `handle_commit_request` looks at the plan, then calls `authorize` and `commit`. When another worker
   serves the same commit in between, `authorize` finds the plan COMMITTED and refuses, although
   "a duplicate commit frame ... is an idempotent replay" (`README.md:183`; `service_duplicate`).
   `DuplicateFoundIsReplay` shows that this is the only place where a duplicate is not recognised.
3. A policy without a path limit lets a demand have more than 64 shares; `encode_plan` writes them and
   `decode_plan` refuses them, so recovery skips the records of a committed plan (`wire_crowded`).

With faults allowed, `OneCommitted`, `BoundToLive`, `RestartForgetsNothing` and `OneCommitPerPlan`
fail too, all because of finding 1 or of what `MCPlanEngine_acked` shows; they are stated for a disk
that reports no failure.

### Further divergences

Each is stated as a property of its module and has a configuration under which TLC finds the
counterexample, for example `tlc -config MCChurn_level.cfg MCChurn`. They are single cases, kept out of
the regular runs. `MCSolver_documented` holds seven; `tlc -continue` reports each of them.

| Configuration | Property | The code | The repository's text |
| --- | --- | --- | --- |
| `MCPlanEngine_acked` | `AckedCommitsDurable` | `commit` changes memory, then appends, and undoes nothing when the append fails; the replay branch then answers a retry with success although no record exists (`engine.cpp:476`) | "no commit is acknowledged before its durable record is written" (`docs/concurrency.md:93`) |
| `MCRegistry_replaced` | `ReplacedIsFenced` | the look at the registered boot and its replacement are separate critical sections, so overlapping registrations replace a boot without fencing it (`coordinator.cpp:326`) | "a replaced boot identity is fenced permanently" (`README.md:212`) |
| `MCChurn_overtaken` | `DisplacedOnlyWithinPolicy` | a proposal is compared with the incumbent in its request, which nothing compares with the engine's: an overtaken plan displaces one it was never compared with (`engine.cpp:300`) | "refuses to displace the incumbent unless policy-defined thresholds are crossed" (`docs/systems-boundary.md:121`) |
| `MCWire_unknown` | `RepliesAreReadable` | a query for a plan that does not exist is answered with a default plan, which `decode_query_response` refuses: the publisher is told of malformed input (`protocol.cpp:573`) | the handler answers NOT_FOUND, "unknown plan" (`coordinator.cpp:675`) |
| `MCPlanEngine_current` | `CurrentFitsLive` | the tick is not part of the authority vector, so a snapshot that differs only in it leaves plans CURRENT that no longer verify (`engine.cpp:114`) | "a reader must never be told that a plan which no longer fits the live fabric is current" (`engine.cpp:109`) |
| `MCRepository_refused` | `NeverRefused` | the fence bound is checked after the record is written and the chain advanced (`persist.cpp:1422`), and the next compaction writes a snapshot `open` refuses | "Every crash window is recoverable" (`docs/persistence.md:81`) |
| `MCSolver_documented` | `RepairMovesLower` | repair moves bandwidth of equal or higher priority, never of lower (`solver.cpp:356`) | "relocating *lower-priority* bandwidth" (`docs/algorithm.md:88`) |
| `MCSolver_documented` | `RepairFreesRoom` | a round stops at a path's first resource with room and never relieves the full one behind it (`solver.cpp:932`) | rounds "attempt to free capacity on the deficient resource" (`docs/algorithm.md:87`) |
| `MCSolver_documented` | `ReservationConflictReported` | a reservation conflict that leaves a floor unplaced becomes CONFLICTING_INPUT (`solver.cpp:1144`) | INFEASIBLE_RESERVATION_CONFLICT (`docs/algorithm.md:123`) |
| `MCSolver_documented` | `FloorAboveMaximumReported` | a floor above its demand's maximum is a note only (`derived.cpp:229`) | "is reported as a reservation conflict" (`docs/algorithm.md:39`) |
| `MCSolver_documented` | `PolicyVerdictSound` | one excluded demand makes the verdict INFEASIBLE_POLICY (`solver.cpp:1152`) | "would be satisfiable without that policy" (`docs/algorithm.md:121`) |
| `MCSolver_documented` | `ReservationsHeld` | a reservation owned by a demand that is over is held by nobody (`derived.cpp:163`) | "never displaced without an explicit policy authorisation" (`docs/algorithm.md:35`) |
| `MCSolver_documented` | `DiversityKept` | `min_distinct_failure_domains`, affinity and anti-affinity are read by nothing that plans | listed among the hard constraints (`README.md:144`) |
| `MCSolver_exhausted` | `FinalRepeatsTrial` | trials of the widening search use up the iteration budget of the final run (`solver.cpp:906`) | "idempotent for a freshly built Problem" (`solver.cpp:910`) |
| `MCSolver_uncertified` | `CapacityVerdictSound` | a certificate that was not built is reported as a minimum cut (`solver.cpp:857`) | "a minimum cut proves ..." (`docs/algorithm.md:120`) |
| `MCChurn_level` | `AcceptedImproves` | with the default threshold of zero an equal score is accepted (`allocation.cpp:338`) | "the proposal improves the objective" (`allocation.cpp:360`) |
| `MCChurn_overflow` | `AcceptedCrossesThreshold` | where the difference of two scores times 1000 overflows, `permille` is 1000 and any threshold is crossed (`numeric.hpp:167`, `allocation.cpp:308`) | "never for authoritative ordering" (`numeric.hpp:161`), "improvement crossed every policy threshold" (`allocation.hpp:102`) |
| `MCChurn_loaded` | `UnchangedIsNoRegression` | the incumbent is scored with the utilisation of the snapshot it was planned under (`solver.cpp:636`), or with none when it came in a message (`protocol.cpp:167`) | "on the same objective in the same way" (`solver.hpp:85`) |
| `MCChurn_arriving` | `UnchangedIsNoRegression` | a demand the incumbent does not list costs it nothing (`solver.cpp:573`) | "computed the same way" (`docs/algorithm.md:162`) |

Smaller ones that Codec records in its layouts, without a property: `encode_allocation` writes no
resource table, and `encode_plan` neither the thresholds of the churn report nor `binding_truncated`,
so both are defaults after a round trip; a PlanRef with an empty identity and a generation is accepted
and read as absent, where the comment of Reader promises to refuse non-canonical values
(`binary.hpp:88`); a mutation made before the handshake carries incarnation 0 and is refused as
malformed; a client of a later version is dropped by the frame header and never told
UNSUPPORTED_VERSION; a reply above the payload bound is not sent, and the connection is dropped after
the request was carried out.

## Not modelled

`ping` and `pong`, which have no payload. The codecs of policy, objective and audit records, which
nothing appends, and the manifest, which is written once and compared with a constant. Digests and
checksums as functions: a digest is equal only for equal contents, and a checksum tells apart what
the model puts into it. Explanations, inspection and `tef_cli`: text made from values. Set-up of
sockets and the platform layers of `net.cpp`. `fsync = false`, and the loss of a completed rename on
power failure (the directory is not synchronised): both weaken what a return of `append` means below
what the model assumes. `start` after `stop` on the same `Coordinator` object: Registry begins every
run as a new process. In the solver, the augmenting paths of `max_flow` (its cut is modelled),
notes, binding constraints and rejected alternatives; overflow of sums of bandwidths, which the limits
on counts and bandwidths exclude (scores and ratios do overflow, and Churn has that); canonical order and duplicates, which sets and functions have by
construction. Damage to files other than torn and left-over bytes. Counters and statistics.

## Plan

In order of importance; all of it is done.

1. Authority, PlanEngine and its first theorems.
2. Repository over DurableLog.
3. Registry and its theorems.
4. Connections.
5. Derivation and Solver with `verify_allocation`.
6. Churn.
7. DurableLog with failures, implemented by Repository, as the disk PlanEngine assumes.
8. Service: the requests of the coordinator composed of engine calls, with publishers that repeat them.
9. Codec, Wire and Call: messages, frames and records under partial reads and writes.
10. Proofs of the safety properties of PlanEngine, Service, Registry, Connections, Repository (with its
    refinement of DurableLog) and Solver.
11. Proofs about Churn and the derivation.
12. `IsProblem` of whatever is derived from a valid snapshot; proofs about Codec and Wire, and that
    the final run of the solver repeats its trial.
