------------------------------ MODULE Connections ------------------------------
(***************************************************************************)
(* The threads of a coordinator and their shutdown (coordinator.cpp, with  *)
(* the socket interruption of net.cpp): one acceptor, one worker per       *)
(* connection, and the thread that calls stop.                             *)
(*                                                                         *)
(* A socket blocks its reader for as long as the peer is silent and its    *)
(* writer for as long as the peer does not drain it; there is no timeout.  *)
(* interrupt marks the socket and shuts it down, which ends both waits.    *)
(* What a handler does is in Registry and PlanEngine; here it takes one    *)
(* step.  A connection name is used again once its worker has ended.       *)
(***************************************************************************)
EXTENDS Naturals, FiniteSets

CONSTANTS
    Conns,          \* connections peers may open
    max_worker_threads, max_connections,    \* the limits of CoordinatorConfig
    NoConn

ASSUME ConnectionsAssumption ==
    NoConn \notin Conns /\ max_worker_threads \in Nat /\ max_connections \in Nat

VARIABLES
    stopping,       \* Impl::stopping
    stopper,        \* where stop is, see StopperPcs
    acceptor,       \* where accept_loop is, see AcceptorPcs
    accepted,       \* the connection accept_loop is holding, or NoConn
    worker,         \* where the worker of each connection is, see WorkerPcs
    interrupted,    \* SocketState::interrupted of each connection
    listening,      \* FALSE once the listener was interrupted
    sessions,       \* Impl::sessions
    to_interrupt,   \* stop's copy of the session list, less those done
    active          \* Impl::active_connections

stop_vars == <<stopping, stopper, to_interrupt, listening>>
vars == <<stop_vars, acceptor, accepted, worker, interrupted, sessions, active>>

StopperPcs == {"running", "listener", "join_acceptor", "copy", "interrupt", "join_workers", "done"}
AcceptorPcs ==
    {"check", "wait", "accepted", "threads", "connections", "count", "register", "spawn", "ended"}
WorkerPcs == {"none", "check", "reading", "handling", "writing", "unregister", "leave"}

(***************************************************************************)
(* accept_loop                                                             *)
(***************************************************************************)
AcceptorCheck ==
    /\ acceptor = "check"
    /\ acceptor' = IF stopping THEN "ended" ELSE "wait"
    /\ UNCHANGED <<stop_vars, accepted, worker, interrupted, sessions, active>>

\* listener.accept returns a connection,
AcceptorAccept(c) ==
    /\ acceptor = "wait" /\ listening
    /\ worker[c] = "none"
    /\ acceptor' = "accepted" /\ accepted' = c
    /\ interrupted' = [interrupted EXCEPT ![c] = FALSE]
    /\ UNCHANGED <<stop_vars, worker, sessions, active>>

\* or nothing: the poll interval ended or the listener was interrupted.
AcceptorPoll ==
    /\ acceptor = "wait"
    /\ acceptor' = IF stopping THEN "ended" ELSE "check"
    /\ UNCHANGED <<stop_vars, accepted, worker, interrupted, sessions, active>>

\* A step of accept_loop that holds a connection: on to `next`, or the
\* connection is closed and the loop goes `back`.
AcceptorStep(from, refused, back, next) ==
    /\ acceptor = from
    /\ acceptor' = IF refused THEN back ELSE next
    /\ accepted' = IF refused THEN NoConn ELSE accepted
    /\ UNCHANGED <<stop_vars, worker, interrupted, sessions>>

AcceptorCheckAccepted ==
    AcceptorStep("accepted", stopping, "ended", "threads") /\ UNCHANGED active

\* The two limits are tested by two loads of the count,
AcceptorTestThreads ==
    AcceptorStep("threads", active >= max_worker_threads, "check", "connections") /\ UNCHANGED active
\* Mutant: one worker too many is let in.
AcceptorTestConnectionsOneMore ==
    AcceptorStep("connections", active > max_connections, "check", "count") /\ UNCHANGED active
AcceptorTestConnections ==
    AcceptorStep("connections", active >= max_connections, "check", "count") /\ UNCHANGED active

\* and the count is incremented later, by fetch_add.
AcceptorCount == AcceptorStep("count", FALSE, "check", "register") /\ active' = active + 1

AcceptorRegister ==
    /\ acceptor = "register"
    /\ sessions' = sessions \cup {accepted}
    /\ acceptor' = "spawn"
    /\ UNCHANGED <<stop_vars, accepted, worker, interrupted, active>>

AcceptorSpawn ==
    /\ acceptor = "spawn"
    /\ worker' = [worker EXCEPT ![accepted] = "check"]
    /\ accepted' = NoConn
    /\ acceptor' = "check"
    /\ UNCHANGED <<stop_vars, interrupted, sessions, active>>

Acceptor ==
    \/ AcceptorCheck \/ AcceptorPoll \/ AcceptorCheckAccepted
    \/ AcceptorTestThreads \/ AcceptorTestConnections \/ AcceptorCount
    \/ AcceptorRegister \/ AcceptorSpawn

(***************************************************************************)
(* handle_connection and the end of a worker                               *)
(***************************************************************************)
WorkerStep(c, from, to) ==
    /\ worker[c] = from
    /\ worker' = [worker EXCEPT ![c] = to]
    /\ UNCHANGED <<stop_vars, acceptor, accepted>>

\* The loop is left when stop has begun; the socket is closed on the way out.
WorkerCheck(c) ==
    /\ WorkerStep(c, "check", IF stopping THEN "unregister" ELSE "reading")
    /\ UNCHANGED <<interrupted, sessions, active>>

\* A frame was complete before the socket was interrupted.
WorkerRead(c) == WorkerStep(c, "reading", "handling") /\ UNCHANGED <<interrupted, sessions, active>>
WorkerHandle(c) == WorkerStep(c, "handling", "writing") /\ UNCHANGED <<interrupted, sessions, active>>
WorkerWrite(c) == WorkerStep(c, "writing", "check") /\ UNCHANGED <<interrupted, sessions, active>>

\* The read or the write fails: the peer is gone or sent a bad frame,
PeerFails(c) ==
    /\ WorkerStep(c, "reading", "unregister") \/ WorkerStep(c, "writing", "unregister")
    /\ UNCHANGED <<interrupted, sessions, active>>

\* or the socket was interrupted.
WorkerInterrupted(c) == interrupted[c] /\ PeerFails(c)

WorkerUnregister(c) ==
    /\ WorkerStep(c, "unregister", "leave")
    /\ sessions' = sessions \ {c}
    /\ UNCHANGED <<interrupted, active>>

WorkerLeave(c) ==
    /\ WorkerStep(c, "leave", "none")
    /\ active' = active - 1
    /\ UNCHANGED <<interrupted, sessions>>

\* What a worker does without the help of its peer.
Worker(c) ==
    WorkerCheck(c) \/ WorkerHandle(c) \/ WorkerInterrupted(c) \/ WorkerUnregister(c) \/ WorkerLeave(c)
Peer(c) == AcceptorAccept(c) \/ WorkerRead(c) \/ WorkerWrite(c) \/ PeerFails(c)

(***************************************************************************)
(* stop                                                                    *)
(***************************************************************************)
StopperStep(from, to) ==
    /\ stopper = from /\ stopper' = to
    /\ UNCHANGED <<acceptor, accepted, worker, active>>

Stop ==
    /\ StopperStep("running", "listener")
    /\ stopping' = TRUE
    /\ UNCHANGED <<listening, to_interrupt, interrupted, sessions>>

StopListener ==
    /\ StopperStep("listener", "join_acceptor")
    /\ listening' = FALSE
    /\ UNCHANGED <<stopping, to_interrupt, interrupted, sessions>>

\* Mutant: stop does not wait for the acceptor.
StopUnjoinedAcceptor ==
    /\ StopperStep("join_acceptor", "copy")
    /\ UNCHANGED <<stopping, listening, to_interrupt, interrupted, sessions>>

StopJoinAcceptor ==
    /\ acceptor = "ended"
    /\ StopperStep("join_acceptor", "copy")
    /\ UNCHANGED <<stopping, listening, to_interrupt, interrupted, sessions>>

StopCopy ==
    /\ StopperStep("copy", "interrupt")
    /\ to_interrupt' = sessions
    /\ UNCHANGED <<stopping, listening, interrupted, sessions>>

\* Mutant: the sessions are not interrupted.
StopInterruptNone ==
    /\ StopperStep("interrupt", "join_workers")
    /\ UNCHANGED <<stopping, listening, to_interrupt, interrupted, sessions>>

StopInterrupt ==
    \/ \E c \in to_interrupt :
         /\ StopperStep("interrupt", "interrupt")
         /\ interrupted' = [interrupted EXCEPT ![c] = TRUE]
         /\ to_interrupt' = to_interrupt \ {c}
         /\ UNCHANGED <<stopping, listening, sessions>>
    \/ /\ to_interrupt = {}
       /\ StopperStep("interrupt", "join_workers")
       /\ UNCHANGED <<stopping, listening, to_interrupt, interrupted, sessions>>

\* The workers are joined, the registry is cleared, the repository is closed.
StopJoinWorkers ==
    /\ \A c \in Conns : worker[c] = "none"
    /\ StopperStep("join_workers", "done")
    /\ sessions' = {}
    /\ UNCHANGED <<stopping, listening, to_interrupt, interrupted>>

Stopper == StopListener \/ StopJoinAcceptor \/ StopCopy \/ StopInterrupt \/ StopJoinWorkers

(***************************************************************************)
(* Specification                                                           *)
(***************************************************************************)
Init ==
    /\ stopping = FALSE /\ stopper = "running"
    /\ acceptor = "check" /\ accepted = NoConn
    /\ worker = [c \in Conns |-> "none"]
    /\ interrupted = [c \in Conns |-> FALSE]
    /\ listening = TRUE
    /\ sessions = {} /\ to_interrupt = {}
    /\ active = 0

\* A coordinator that has stopped stays so.
Done == stopper = "done" /\ UNCHANGED vars

Next == Acceptor \/ (\E c \in Conns : Worker(c) \/ Peer(c)) \/ Stop \/ Stopper \/ Done

\* Every thread runs; no peer has to do anything and stop need not be called.
Fairness ==
    /\ WF_vars(Acceptor)
    /\ \A c \in Conns : WF_vars(Worker(c))
    /\ WF_vars(Stopper)

Spec == Init /\ [][Next]_vars /\ Fairness

(***************************************************************************)
(* Properties                                                              *)
(***************************************************************************)
\* accept_loop tests the two limits and increments the count in three steps, and
\* starts the worker in a fourth, while workers leave and stop begins in
\* between: the workers in existence are counted, and never more than either
\* limit.
WorkersBounded ==
    /\ Cardinality({c \in Conns : worker[c] # "none"}) <= active
    /\ active <= max_worker_threads /\ active <= max_connections

\* The repository is closed at the end of stop: by then no thread is left that
\* could run a handler, however late its connection was accepted.
NothingRunsAfterStop ==
    stopper = "done" =>
        /\ acceptor = "ended"
        /\ \A c \in Conns : worker[c] = "none"
        /\ active = 0

\* "handlers blocked in a read are woken by shutdown() on their socket": once
\* called, stop returns, whatever the peers do or fail to do.
StopReturns == (stopper = "listener") ~> (stopper = "done")
===============================================================================
