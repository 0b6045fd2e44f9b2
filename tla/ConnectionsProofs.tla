-------------------------- MODULE ConnectionsProofs --------------------------
(***************************************************************************)
(* Proofs about Connections, for any connections, even infinitely many,    *)
(* and any limit on the workers.                                           *)
(***************************************************************************)
EXTENDS Connections, FiniteSetTheorems, TLAPS

Running == {c \in Conns : worker[c] # "none"}

\* A connection is counted from its admission to the last step of its worker:
\* between the two accept_loop holds it.
Admitted == IF acceptor \in {"register", "spawn"} THEN 1 ELSE 0

Typed ==
    /\ worker \in [Conns -> WorkerPcs]
    /\ acceptor \in AcceptorPcs
    /\ stopper \in StopperPcs
    /\ active \in Nat

\* The connection accept_loop holds has no worker yet.
Held ==
    acceptor \in {"accepted", "threads", "connections", "count", "register", "spawn"} =>
        accepted \in Conns /\ worker[accepted] = "none"

\* active_connections is exact.
Counted ==
    /\ IsFiniteSet(Running)
    /\ active = Cardinality(Running) + Admitted

\* What accept_loop found below a limit is still below it when it is counted:
\* others only take away from the count.
Bounded ==
    /\ active <= max_worker_threads /\ active <= max_connections
    /\ acceptor \in {"connections", "count"} => active < max_worker_threads
    /\ acceptor = "count" => active < max_connections

\* Past the join nothing new is accepted, and at the end nothing runs.
Joined ==
    /\ stopper \in {"copy", "interrupt", "join_workers", "done"} => acceptor = "ended"
    /\ stopper = "done" => Running = {}

Inv == Typed /\ Held /\ Counted /\ Bounded /\ Joined

\* Adding a worker and removing one change the count by one.
LEMMA CountSteps ==
    ASSUME NEW S, IsFiniteSet(S), NEW c
    PROVE  /\ Cardinality(S) \in Nat
           /\ IsFiniteSet(S \cup {c}) /\ IsFiniteSet(S \ {c})
           /\ c \notin S => Cardinality(S \cup {c}) = Cardinality(S) + 1
           /\ c \in S => Cardinality(S \ {c}) = Cardinality(S) - 1
BY FS_CardinalityType, FS_AddElement, FS_RemoveElement

\* accept_loop keeps the invariant.
LEMMA AcceptorInv ==
    ASSUME Inv, Acceptor
    PROVE  Inv'
<1> USE DEF Inv, Typed, AcceptorPcs
<1>1. CASE AcceptorCheck \/ AcceptorPoll
  BY <1>1 DEF AcceptorCheck, AcceptorPoll, Held, Counted, Bounded, Joined, Running, Admitted,
              stop_vars
<1>2. CASE AcceptorCheckAccepted \/ AcceptorTestThreads \/ AcceptorTestConnections
  <2>1. /\ worker' = worker /\ stopper' = stopper /\ active' = active
        /\ acceptor \in {"accepted", "threads", "connections"}
        /\ acceptor' \in {"ended", "threads", "check", "connections", "count"}
        /\ acceptor' \in {"threads", "connections", "count"} => accepted' = accepted
    BY <1>2 DEF AcceptorCheckAccepted, AcceptorTestThreads, AcceptorTestConnections, AcceptorStep,
                stop_vars
  <2>2. Typed' /\ Held' /\ Counted' /\ Joined'
    BY <2>1 DEF Held, Counted, Joined, Running, Admitted
  <2>3. Bounded'
    BY <1>2, <2>1, ConnectionsAssumption
       DEF Bounded, AcceptorCheckAccepted, AcceptorTestThreads, AcceptorTestConnections, AcceptorStep
  <2>4. QED
    BY <2>2, <2>3
<1>3. CASE AcceptorCount
  <2>1. /\ worker' = worker /\ stopper' = stopper /\ accepted' = accepted
        /\ acceptor = "count" /\ acceptor' = "register" /\ active' = active + 1
    BY <1>3 DEF AcceptorCount, AcceptorStep, stop_vars
  <2>2. Typed' /\ Held' /\ Joined'
    BY <2>1 DEF Held, Joined
  <2>3. Counted'
    <3>1. Cardinality(Running) \in Nat /\ Running' = Running
      BY <2>1, FS_CardinalityType DEF Counted, Running
    <3>2. QED
      BY <2>1, <3>1 DEF Counted, Admitted
  <2>4. Bounded'
    BY <2>1, ConnectionsAssumption DEF Bounded
  <2>5. QED
    BY <2>2, <2>3, <2>4
<1>4. CASE AcceptorRegister
  BY <1>4 DEF AcceptorRegister, Held, Counted, Bounded, Joined, Running, Admitted, stop_vars
<1>5. CASE AcceptorSpawn
  <2>1. accepted \in Conns /\ accepted \notin Running /\ stopper' = stopper
        /\ worker' = [worker EXCEPT ![accepted] = "check"] /\ active' = active
        /\ acceptor = "spawn" /\ acceptor' = "check"
    BY <1>5 DEF AcceptorSpawn, Held, Running, stop_vars
  <2>2. Running' = Running \cup {accepted}
    BY <2>1 DEF Running
  <2>3. Counted'
    <3>1. /\ Cardinality(Running) \in Nat /\ IsFiniteSet(Running')
          /\ Cardinality(Running') = Cardinality(Running) + 1
      BY <2>1, <2>2, CountSteps DEF Counted
    <3>2. Admitted = 1 /\ Admitted' = 0
      BY <2>1 DEF Admitted
    <3>3. QED
      BY <2>1, <3>1, <3>2 DEF Counted
  <2>4. Typed' /\ Held' /\ Bounded' /\ Joined'
    BY <2>1 DEF Held, Bounded, Joined, WorkerPcs
  <2>5. QED
    BY <2>3, <2>4
<1>6. QED
  BY <1>1, <1>2, <1>3, <1>4, <1>5 DEF Acceptor

\* A worker that goes on, or leaves with its count, keeps the invariant.
LEMMA WorkerStepInv ==
    ASSUME Inv, NEW c \in Conns, NEW from \in WorkerPcs \ {"none"}, NEW to \in WorkerPcs,
           WorkerStep(c, from, to), active' = IF to = "none" THEN active - 1 ELSE active
    PROVE  Inv'
<1>1. /\ worker' = [worker EXCEPT ![c] = to] /\ c \in Running
      /\ acceptor' = acceptor /\ accepted' = accepted /\ stopper' = stopper
  BY DEF WorkerStep, Running, stop_vars
<1>2. Running' = IF to = "none" THEN Running \ {c} ELSE Running
  BY <1>1 DEF Running, Inv, Typed
<1>3. /\ Cardinality(Running) \in Nat /\ IsFiniteSet(Running')
      /\ Cardinality(Running') =
            IF to = "none" THEN Cardinality(Running) - 1 ELSE Cardinality(Running)
      /\ Cardinality(Running') \in Nat
  <2>1. IsFiniteSet(Running)
    BY DEF Inv, Counted
  <2>2. IsFiniteSet(Running')
    BY <1>2, <2>1, CountSteps
  <2>3. Cardinality(Running') \in Nat /\ Cardinality(Running) \in Nat
    BY <2>1, <2>2, CountSteps
  <2>4. QED
    BY <1>1, <1>2, <2>1, <2>2, <2>3, CountSteps
<1>4. Admitted' = Admitted /\ Admitted \in {0, 1}
  BY <1>1 DEF Admitted
<1>5. Counted' /\ Bounded' /\ active' \in Nat
  <2>1. active = Cardinality(Running) + Admitted /\ active \in Nat
    BY DEF Inv, Typed, Counted
  <2>2. active' = Cardinality(Running') + Admitted' /\ active' <= active /\ active' \in Nat
    BY <1>3, <1>4, <2>1
  <2>3. Bounded'
    BY <1>1, <2>1, <2>2, ConnectionsAssumption DEF Inv, Bounded
  <2>4. QED
    BY <1>3, <2>2, <2>3 DEF Counted
<1>6. Typed' /\ Held'
  BY <1>1, <1>5 DEF Inv, Typed, Held, Running
<1>7. Joined'
  BY <1>1, <1>2 DEF Inv, Joined
<1>8. QED
  BY <1>5, <1>6, <1>7 DEF Inv

\* The steps of a worker and of its peer keep the invariant.
LEMMA ConnectionInv ==
    ASSUME Inv, NEW c \in Conns, Worker(c) \/ Peer(c)
    PROVE  Inv'
<1>1. CASE AcceptorAccept(c)
  BY <1>1 DEF AcceptorAccept, Inv, Typed, Held, Counted, Bounded, Joined, Running, Admitted,
              AcceptorPcs, stop_vars
<1>2. CASE WorkerLeave(c)
  BY <1>2, WorkerStepInv DEF WorkerLeave, WorkerPcs
<1>3. CASE WorkerCheck(c)
  BY <1>3, WorkerStepInv DEF WorkerCheck, WorkerPcs
<1>4. CASE WorkerRead(c) \/ WorkerHandle(c) \/ WorkerWrite(c)
  BY <1>4, WorkerStepInv DEF WorkerRead, WorkerHandle, WorkerWrite, WorkerPcs
<1>5. CASE PeerFails(c)
  BY <1>5, WorkerStepInv DEF PeerFails, WorkerPcs
<1>6. CASE WorkerUnregister(c)
  BY <1>6, WorkerStepInv DEF WorkerUnregister, WorkerPcs
<1>7. QED
  BY <1>1, <1>2, <1>3, <1>4, <1>5, <1>6 DEF Worker, Peer, WorkerInterrupted

\* The steps of stop keep the invariant.
LEMMA StopperInv ==
    ASSUME Inv, Stop \/ Stopper
    PROVE  Inv'
<1>1. UNCHANGED <<acceptor, accepted, worker, active>>
  BY DEF Stop, Stopper, StopListener, StopJoinAcceptor, StopCopy, StopInterrupt, StopJoinWorkers,
         StopperStep
<1>2. stopper' \in StopperPcs
  BY DEF Stop, Stopper, StopListener, StopJoinAcceptor, StopCopy, StopInterrupt, StopJoinWorkers,
         StopperStep, StopperPcs
<1>3. Typed' /\ Held' /\ Counted' /\ Bounded'
  BY <1>1, <1>2 DEF Inv, Typed, Held, Counted, Bounded, Running, Admitted
<1>4. Joined'
  <2>1. CASE Stop \/ StopListener
    BY <2>1 DEF Stop, StopListener, StopperStep, Joined
  <2>2. CASE StopJoinAcceptor
    BY <1>1, <2>2 DEF StopJoinAcceptor, StopperStep, Joined
  <2>3. CASE StopCopy \/ StopInterrupt
    BY <1>1, <2>3 DEF StopCopy, StopInterrupt, StopperStep, Inv, Joined
  <2>4. CASE StopJoinWorkers
    BY <1>1, <2>4 DEF StopJoinWorkers, StopperStep, Inv, Joined, Running
  <2>5. QED
    BY <2>1, <2>2, <2>3, <2>4 DEF Stopper
<1>5. QED
  BY <1>3, <1>4 DEF Inv

\* Every reachable state of the coordinator's threads has the invariant.
LEMMA InvHolds == Spec => []Inv
<1>1. Init => Inv
  <2> SUFFICES ASSUME Init PROVE Inv
    OBVIOUS
  <2>1. Running = {}
    BY DEF Init, Running
  <2>2. QED
    BY <2>1, FS_EmptySet, ConnectionsAssumption
       DEF Init, Inv, Typed, Held, Counted, Bounded, Joined, Admitted, WorkerPcs, AcceptorPcs, StopperPcs
<1>2. Inv /\ [Next]_vars => Inv'
  <2> SUFFICES ASSUME Inv, [Next]_vars PROVE Inv'
    OBVIOUS
  <2>1. CASE UNCHANGED vars
    BY <2>1 DEF vars, stop_vars, Inv, Typed, Held, Counted, Bounded, Joined, Running, Admitted
  <2>2. QED
    BY <2>1, AcceptorInv, ConnectionInv, StopperInv DEF Next, Done
<1>3. QED
  BY <1>1, <1>2, PTL DEF Spec

\* However accept_loop's two tests of the limits, its increment and its spawn
\* fall between the exits of other workers and the steps of stop, the workers
\* in existence are counted and never more than either limit.
THEOREM WorkersBoundedHolds == Spec => []WorkersBounded
<1>1. Inv => WorkersBounded
  BY FS_CardinalityType, ConnectionsAssumption
     DEF Inv, Typed, Counted, Bounded, WorkersBounded, Running, Admitted
<1>2. QED
  BY <1>1, InvHolds, PTL

\* When stop returns, and so when the repository is closed, the acceptor has
\* ended, no worker is left and the count is back at zero, however late the
\* last connection was accepted.
THEOREM NothingRunsAfterStopHolds == Spec => []NothingRunsAfterStop
<1>1. Inv => NothingRunsAfterStop
  <2> SUFFICES ASSUME Inv, stopper = "done"
               PROVE  acceptor = "ended" /\ (\A c \in Conns : worker[c] = "none") /\ active = 0
    BY DEF NothingRunsAfterStop
  <2>1. acceptor = "ended" /\ Running = {}
    BY DEF Inv, Joined
  <2>2. \A c \in Conns : worker[c] = "none"
    BY <2>1 DEF Running
  <2>3. active = 0
    BY <2>1, FS_EmptySet DEF Inv, Counted, Admitted
  <2>4. QED
    BY <2>1, <2>2, <2>3
<1>2. QED
  BY <1>1, InvHolds, PTL

==============================================================================
