------------------------------- MODULE Registry -------------------------------
(***************************************************************************)
(* Publisher registration, fencing and coordinator epochs (coordinator.cpp *)
(* and the epoch and fence records of persist.cpp).                        *)
(*                                                                         *)
(* Every connection has a thread, and a handler takes registry_mutex once  *)
(* per look at the registry, never for its whole length.  A registration   *)
(* is four sections: is_fenced, the look at the registered boot, the fence *)
(* (on disk, then in memory) and the new boot.  A mutation is two:         *)
(* is_fenced and the look at the registered boot; its engine calls come    *)
(* after both.  One action is one section.                                 *)
(*                                                                         *)
(* Abstractions.  The repository is what DurableLog promises: an append    *)
(* that returns success is on disk.  A coordinator may also be configured  *)
(* without one: its epoch is then always 1 and its fences end with it.     *)
(* The incarnation is always first(), so a frame is told apart by its      *)
(* epoch alone.  A frame that is refused without a change of state is a    *)
(* stuttering step.                                                        *)
(***************************************************************************)
EXTENDS Naturals, Sequences

CONSTANTS
    Threads,        \* connection threads
    Publishers, Boots,
    MaxEpoch,       \* bound on the coordinator starts of a behaviour
    NoBoot

ASSUME RegistryAssumption == NoBoot \notin Boots /\ MaxEpoch \in Nat

VARIABLES
    epoch,          \* Impl::epoch, 0 while no coordinator runs
    stopping,       \* Impl::stopping
    registered,     \* Impl::registered; NoBoot is no entry
    fences,         \* Impl::fences
    thread,         \* what each connection thread is doing
    repository,     \* whether there is a data directory
    durable_epoch, durable_fences,  \* what is in it
    served,         \* history: the epoch of each coordinator that came up
    fenced_ever     \* history: fences some registration was acknowledged after,
                    \* of the running coordinator only when there is no repository

disk == <<repository, durable_epoch, durable_fences>>
vars == <<epoch, stopping, registered, fences, thread, disk, served, fenced_ever>>

\* A thread without a connection, or blocked in read_frame.
Closed == [pc |-> "closed"]
Reading == [pc |-> "reading"]

Pcs == {"look", "persist", "fence", "install", "binding", "engine"}
\* A thread inside a handler: the frame's publisher, boot and the coordinator
\* that issued its epoch; the boot found registered; and two facts about the
\* moment the frame was read, kept for the properties.
Handlers ==
    [pc : Pcs, publisher : Publishers, boot : Boots, run : 1 .. MaxEpoch,
     replaced : Boots \cup {NoBoot}, fenced_on_arrival : BOOLEAN, alone : BOOLEAN]

Registering(t) == thread[t].pc \in {"look", "persist", "fence", "install"}
Key(t) == <<thread[t].publisher, thread[t].boot>>
NoBoots == [p \in Publishers |-> NoBoot]

(***************************************************************************)
(* The coordinator process                                                 *)
(***************************************************************************)
Serve(next, loaded) ==
    /\ epoch' = next
    /\ fences' = loaded
    /\ served' = Append(served, next)

\* Mutants: the epoch is served before it is on disk; the fences of earlier
\* coordinators are not loaded.
StartUnpersisted ==
    /\ epoch = 0 /\ Len(served) < MaxEpoch
    /\ \/ /\ repository /\ durable_epoch < MaxEpoch
          /\ durable_epoch' \in {durable_epoch, durable_epoch + 1}
          /\ Serve(durable_epoch + 1, durable_fences)
       \/ ~repository /\ UNCHANGED durable_epoch /\ Serve(1, {})
    /\ UNCHANGED <<stopping, registered, thread, repository, durable_fences, fenced_ever>>
StartUnfenced ==
    /\ epoch = 0 /\ Len(served) < MaxEpoch
    /\ \/ /\ repository /\ durable_epoch < MaxEpoch
          /\ durable_epoch' = durable_epoch + 1
          /\ Serve(durable_epoch', fences)
       \/ ~repository /\ UNCHANGED durable_epoch /\ Serve(1, {})
    /\ UNCHANGED <<stopping, registered, thread, repository, durable_fences, fenced_ever>>

\* start: with a repository the next epoch is on disk before anything is
\* served under it; without one every coordinator serves epoch 1.  Whatever
\* fails (or a crash) before listen has succeeded leaves nothing in memory.
Start ==
    /\ epoch = 0 /\ Len(served) < MaxEpoch
    /\ \/ /\ repository /\ durable_epoch < MaxEpoch
          /\ durable_epoch' = durable_epoch + 1
          /\ Serve(durable_epoch', durable_fences) \/ UNCHANGED <<epoch, fences, served>>
       \/ /\ ~repository
          /\ UNCHANGED durable_epoch
          /\ Serve(1, {})
    /\ UNCHANGED <<stopping, registered, thread, repository, durable_fences, fenced_ever>>

\* Everything in memory is gone: a crash, or the end of stop, which waits for
\* every worker.
Down ==
    /\ epoch' = 0 /\ stopping' = FALSE
    /\ registered' = NoBoots
    /\ fences' = {}
    /\ thread' = [t \in Threads |-> Closed]
    /\ fenced_ever' = IF repository THEN fenced_ever ELSE {}
    /\ UNCHANGED <<disk, served>>

Crash == epoch # 0 /\ Down

Stop ==
    /\ epoch # 0 /\ ~stopping
    /\ stopping' = TRUE
    /\ UNCHANGED <<epoch, registered, fences, thread, disk, served, fenced_ever>>

Stopped == epoch # 0 /\ stopping /\ (\A t \in Threads : thread[t] = Closed) /\ Down

(***************************************************************************)
(* A connection: accept_loop and handle_connection                         *)
(***************************************************************************)
Step(t, next) ==
    /\ thread' = [thread EXCEPT ![t] = next]
    /\ UNCHANGED <<epoch, stopping, disk, served>>

\* A handler is done; the loop looks at the stopping flag before it reads on.
NextFrame == IF stopping THEN Closed ELSE Reading

Accept(t) ==
    /\ epoch # 0 /\ ~stopping
    /\ thread[t] = Closed
    /\ Step(t, Reading)
    /\ UNCHANGED <<registered, fences, fenced_ever>>

\* The peer closes, or stop interrupts the socket.
Disconnect(t) ==
    /\ thread[t] = Reading
    /\ Step(t, Closed)
    /\ UNCHANGED <<registered, fences, fenced_ever>>

Frame(pc, p, b, r) ==
    [pc |-> pc, publisher |-> p, boot |-> b, run |-> r, replaced |-> NoBoot,
     fenced_on_arrival |-> <<p, b>> \in fenced_ever,
     alone |-> \A u \in Threads : ~(Registering(u) /\ thread[u].publisher = p)]

(***************************************************************************)
(* register_publisher_request                                              *)
(***************************************************************************)
\* The frame carries the epoch its sender learned from coordinator r.
Register(t, p, b, r) ==
    /\ thread[t] = Reading
    /\ served[r] = epoch
    /\ <<p, b>> \notin fences
    /\ thread' = [u \in Threads |->
                    IF u = t THEN Frame("look", p, b, r)
                    ELSE IF Registering(u) /\ thread[u].publisher = p
                    THEN [thread[u] EXCEPT !.alone = FALSE]
                    ELSE thread[u]]
    /\ UNCHANGED <<epoch, stopping, registered, fences, disk, served, fenced_ever>>

\* Mutant: a publisher that is not registered counts as replaced.
RegisterLookMissing(t) ==
    LET found == registered[thread[t].publisher]
    IN  /\ thread[t].pc = "look"
        /\ Step(t, IF found # thread[t].boot
                   THEN [thread[t] EXCEPT !.pc = "persist", !.replaced = found]
                   ELSE [thread[t] EXCEPT !.pc = "install"])
        /\ UNCHANGED <<registered, fences, fenced_ever>>

RegisterLook(t) ==
    LET found == registered[thread[t].publisher]
        replaced == found # NoBoot /\ found # thread[t].boot
    IN  /\ thread[t].pc = "look"
        /\ Step(t, IF replaced THEN [thread[t] EXCEPT !.pc = "persist", !.replaced = found]
                   ELSE [thread[t] EXCEPT !.pc = "install"])
        /\ UNCHANGED <<registered, fences, fenced_ever>>

\* Mutant: the result of add_fence is not looked at.
RegisterPersistUnchecked(t) ==
    /\ thread[t].pc = "persist"
    /\ durable_fences' \in {durable_fences,
                            durable_fences \cup {<<thread[t].publisher, thread[t].replaced>>}}
    /\ thread' = [thread EXCEPT ![t].pc = "fence"]
    /\ UNCHANGED <<epoch, stopping, registered, fences, repository, durable_epoch, served,
                   fenced_ever>>

\* repository->add_fence, if there is one: on success the fence is on disk; on
\* failure it may be.
RegisterPersist(t) ==
    LET fence == <<thread[t].publisher, thread[t].replaced>>
    IN  /\ thread[t].pc = "persist"
        /\ \/ /\ durable_fences' = IF repository THEN durable_fences \cup {fence}
                                    ELSE durable_fences
              /\ thread' = [thread EXCEPT ![t].pc = "fence"]
           \/ /\ repository
              /\ durable_fences' \in {durable_fences, durable_fences \cup {fence}}
              /\ thread' = [thread EXCEPT ![t] = NextFrame]
        /\ UNCHANGED <<epoch, stopping, registered, fences, repository, durable_epoch, served,
                       fenced_ever>>

RegisterFence(t) ==
    /\ thread[t].pc = "fence"
    /\ fences' = fences \cup {<<thread[t].publisher, thread[t].replaced>>}
    /\ Step(t, [thread[t] EXCEPT !.pc = "install"])
    /\ UNCHANGED <<registered, fenced_ever>>

RegisterInstall(t) ==
    /\ thread[t].pc = "install"
    /\ registered' = [registered EXCEPT ![thread[t].publisher] = thread[t].boot]
    /\ fenced_ever' = IF thread[t].replaced = NoBoot THEN fenced_ever
                      ELSE fenced_ever \cup {<<thread[t].publisher, thread[t].replaced>>}
    /\ Step(t, NextFrame)
    /\ UNCHANGED fences

(***************************************************************************)
(* plan, commit, supersede and retire requests: validate_binding, then the *)
(* engine calls.                                                           *)
(***************************************************************************)
Mutation(t, p, b, r) ==
    /\ thread[t] = Reading
    /\ ~stopping
    /\ served[r] = epoch
    /\ <<p, b>> \notin fences
    /\ Step(t, Frame("binding", p, b, r))
    /\ UNCHANGED <<registered, fences, fenced_ever>>

MutationLook(t) ==
    /\ thread[t].pc = "binding"
    /\ Step(t, IF registered[thread[t].publisher] = thread[t].boot
               THEN [thread[t] EXCEPT !.pc = "engine"]
               ELSE NextFrame)
    /\ UNCHANGED <<registered, fences, fenced_ever>>

MutationDone(t) ==
    /\ thread[t].pc = "engine"
    /\ Step(t, NextFrame)
    /\ UNCHANGED <<registered, fences, fenced_ever>>

(***************************************************************************)
(* Specification                                                           *)
(***************************************************************************)
Init ==
    /\ epoch = 0 /\ stopping = FALSE
    /\ registered = NoBoots
    /\ fences = {}
    /\ thread = [t \in Threads |-> Closed]
    /\ repository \in BOOLEAN
    /\ durable_epoch = 0 /\ durable_fences = {}
    /\ served = << >>
    /\ fenced_ever = {}

Next ==
    \/ Start \/ Crash \/ Stop \/ Stopped
    \/ \E t \in Threads :
         \/ Accept(t) \/ Disconnect(t)
         \/ \E p \in Publishers, b \in Boots, r \in 1 .. Len(served) :
              Register(t, p, b, r) \/ Mutation(t, p, b, r)
         \/ RegisterLook(t) \/ RegisterPersist(t) \/ RegisterFence(t) \/ RegisterInstall(t)
         \/ MutationLook(t) \/ MutationDone(t)

Spec == Init /\ [][Next]_vars

(***************************************************************************)
(* Properties                                                              *)
(***************************************************************************)
\* Every variable has its type.
TypeOK ==
    /\ epoch \in Nat /\ stopping \in BOOLEAN
    /\ registered \in [Publishers -> Boots \cup {NoBoot}]
    /\ fences \subseteq Publishers \X Boots
    /\ thread \in [Threads -> Handlers \cup {Closed, Reading}]
    /\ repository \in BOOLEAN /\ durable_epoch \in Nat
    /\ durable_fences \subseteq Publishers \X Boots
    /\ served \in Seq(Nat) /\ Len(served) <= MaxEpoch
    /\ fenced_ever \subseteq Publishers \X Boots

\* "a replaced boot identity is fenced permanently, and fencing is durable":
\* once a registration was accepted over a boot, no frame of that boot that
\* arrives later ever reaches the engine, under that coordinator and, with a
\* repository, under any later one.
FencedStaysOut ==
    \A t \in Threads : thread[t].pc = "engine" => ~thread[t].fenced_on_arrival

\* With a repository the epoch is persisted and advanced on every start: a
\* frame whose epoch came from an earlier coordinator never passes
\* validate_binding, wherever that coordinator or its successors died.  Without
\* one every coordinator has epoch 1 and the frame passes.
StaleFrameRefused ==
    repository => \A t \in Threads : thread[t].pc = "engine" => thread[t].run = Len(served)

\* The look, the fence and the new boot of a registration act as one step when
\* no other registration of that publisher overlaps it: the boot it replaces
\* is fenced, on disk too if there is a repository, and the boot it installs is
\* not.
ReplacementFences ==
    [][\A t \in Threads, p \in Publishers :
         (/\ thread[t].pc = "install" /\ thread'[t].pc # "install" /\ epoch' # 0
          /\ thread[t].publisher = p /\ thread[t].alone)
           => /\ registered'[p] = thread[t].boot
              /\ <<p, thread[t].boot>> \notin fences'
              /\ registered[p] \in {NoBoot, thread[t].boot}
                   \/ /\ <<p, registered[p]>> \in fences'
                      /\ repository => <<p, registered[p]>> \in durable_fences']_vars

\* The same without the condition ("keeping the decision atomic with respect
\* to the registry"): whenever a boot is replaced in the registry it is fenced.
ReplacedIsFenced ==
    [][\A p \in Publishers :
         (epoch' # 0 /\ registered[p] # NoBoot /\ registered'[p] # registered[p])
           => <<p, registered[p]>> \in fences']_vars
===============================================================================
