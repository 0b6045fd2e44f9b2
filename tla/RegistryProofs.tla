---------------------------- MODULE RegistryProofs ----------------------------
(***************************************************************************)
(* Proofs about the coordinator's registry, for any number of threads,     *)
(* publishers, boots and starts.  The invariant has four parts: what each  *)
(* thread holds (Held), the epochs handed out (Epochs), the fences on disk *)
(* and in memory (Fencing), and what a registration that no other overlaps *)
(* may rely on between two of its critical sections (Undisturbed).         *)
(***************************************************************************)
EXTENDS Registry, TLAPS

\* No coordinator, no connection.  A registration has found nothing before it
\* looks, and what it is about to fence is a boot.
Found(h) ==
    /\ h.pc = "look" => h.replaced = NoBoot
    /\ h.pc \in {"persist", "fence"} => h.replaced # NoBoot
Held ==
    /\ epoch = 0 => \A t \in Threads : thread[t] = Closed
    /\ \A t \in Threads : Found(thread[t])

\* The coordinators that came up with a repository had increasing epochs, none
\* above the one on disk; the last is the one that runs, and a checked frame
\* carries it.
Increasing ==
    /\ \A i \in 1 .. Len(served) : served[i] <= durable_epoch
    /\ \A i, j \in 1 .. Len(served) : i < j => served[i] < served[j]
    /\ \A t \in Threads : thread[t].pc \in {"binding", "engine"} => thread[t].run = Len(served)
Epochs ==
    /\ epoch # 0 => Len(served) > 0 /\ served[Len(served)] = epoch
    /\ repository => Increasing

\* A fence some registration was acknowledged after is on disk, if there is a
\* repository, and in the memory of every coordinator that runs.
Stored(fence) == repository => fence \in durable_fences
Fencing ==
    /\ \A fence \in fenced_ever :
         Stored(fence) /\ (epoch # 0 => fence \in fences) /\ (epoch = 0 => repository)
    /\ \A t \in Threads :
         /\ thread[t].pc = "fence" => Stored(<<thread[t].publisher, thread[t].replaced>>)
         /\ thread[t].pc = "install" /\ thread[t].replaced # NoBoot =>
              /\ <<thread[t].publisher, thread[t].replaced>> \in fences
              /\ Stored(<<thread[t].publisher, thread[t].replaced>>)
         /\ thread[t].pc \in {"binding", "engine"} => ~thread[t].fenced_on_arrival

\* While no other registration of its publisher overlaps it, what a
\* registration found when it looked is still so, and its own boot is not fenced.
Calm(t) ==
    /\ \A u \in Threads \ {t} : Registering(u) => thread[u].publisher # thread[t].publisher
    /\ Key(t) \notin fences
    /\ thread[t].pc \in {"persist", "fence"} =>
         /\ thread[t].replaced = registered[thread[t].publisher]
         /\ thread[t].replaced # thread[t].boot
    /\ thread[t].pc = "install" =>
         \/ registered[thread[t].publisher] \in {NoBoot, thread[t].boot}
         \/ /\ thread[t].replaced = registered[thread[t].publisher]
            /\ thread[t].replaced # NoBoot
Undisturbed == \A t \in Threads : Registering(t) /\ thread[t].alone => Calm(t)

IInv == TypeOK /\ Held /\ Epochs /\ Fencing /\ Undisturbed

\* A thread inside a handler holds a frame, with every field typed.
LEMMA HandlerType ==
    ASSUME TypeOK, NEW t \in Threads, thread[t].pc \notin {"closed", "reading"}
    PROVE  /\ thread[t] \in Handlers
           /\ thread[t].publisher \in Publishers /\ thread[t].boot \in Boots
<1>1. thread[t] \in Handlers \cup {Closed, Reading}
  BY DEF TypeOK
<1>2. Closed.pc = "closed" /\ Reading.pc = "reading"
  BY DEF Closed, Reading
<1>3. thread[t] \in Handlers
  BY <1>1, <1>2
<1>4. QED
  BY <1>3 DEF Handlers

\* The frame a registration or a mutation starts from.
LEMMA FrameType ==
    ASSUME TypeOK, NEW p \in Publishers, NEW b \in Boots, NEW r \in 1 .. MaxEpoch, NEW pc \in Pcs
    PROVE  Frame(pc, p, b, r) \in Handlers
BY DEF Frame, Handlers, Registering

\* After a handler the thread reads on or closes.
LEMMA NextFrameValue ==
    NextFrame \in {Closed, Reading} /\ NextFrame.pc \in {"closed", "reading"}
BY DEF NextFrame, Closed, Reading

\* What start does: nothing, or it serves an epoch, the one it has just put on
\* disk if there is a repository.
LEMMA StartFacts ==
    ASSUME TypeOK, Start
    PROVE  /\ epoch = 0 /\ Len(served) < MaxEpoch
           /\ UNCHANGED <<stopping, registered, thread, repository, durable_fences, fenced_ever>>
           /\ durable_epoch' \in Nat
           /\ repository => durable_epoch' = durable_epoch + 1
           /\ \/ epoch' = epoch /\ fences' = fences /\ served' = served
              \/ /\ epoch' \in Nat \ {0} /\ served' = Append(served, epoch')
                 /\ fences' = IF repository THEN durable_fences ELSE {}
                 /\ repository => epoch' = durable_epoch'
<1>1. durable_epoch \in Nat /\ durable_epoch + 1 \in Nat \ {0}
  BY DEF TypeOK
<1>2. /\ epoch = 0 /\ Len(served) < MaxEpoch
      /\ UNCHANGED <<stopping, registered, thread, repository, durable_fences, fenced_ever>>
  BY DEF Start
<1>3. CASE repository
  <2>1. durable_epoch' = durable_epoch + 1
        /\ (Serve(durable_epoch', durable_fences) \/ UNCHANGED <<epoch, fences, served>>)
    BY <1>3, Zenon DEF Start
  <2>2. QED
    BY <1>1, <1>2, <1>3, <2>1 DEF Serve
<1>4. CASE ~repository
  <2>1. durable_epoch' = durable_epoch /\ Serve(1, {})
    BY <1>4, Zenon DEF Start
  <2>2. QED
    BY <1>1, <1>2, <1>4, <2>1 DEF Serve
<1>5. QED
  BY <1>3, <1>4

\* Whether there is a repository never changes.
LEMMA RepositoryConstant == [Next]_vars => repository' = repository
BY ZenonT(60) DEF Next, Start, Crash, Stop, Stopped, Down, Accept, Disconnect, Step, Register, Mutation,
       RegisterLook, RegisterPersist, RegisterFence, RegisterInstall, MutationLook, MutationDone,
       disk, vars

\* Every step keeps the types, and what a thread holds.
LEMMA TypeStep == IInv /\ [Next]_vars => TypeOK' /\ Held'
<1> SUFFICES ASSUME IInv, [Next]_vars PROVE TypeOK' /\ Held'
  OBVIOUS
<1>a. TypeOK /\ Held /\ Epochs
  BY DEF IInv
<1>b. ASSUME NEW t \in Threads, NEW n \in Handlers \cup {Closed, Reading},
             thread' = [thread EXCEPT ![t] = n], epoch' = epoch, epoch # 0,
             Found(n)
      PROVE  thread' \in [Threads -> Handlers \cup {Closed, Reading}] /\ Held'
  BY <1>a, <1>b DEF TypeOK, Held
<1>c. ASSUME NEW t \in Threads, thread[t].pc # "closed" PROVE epoch # 0
  BY <1>a, <1>c DEF Held, Closed
<1>d. Closed \in Handlers \cup {Closed, Reading} /\ Closed.pc = "closed"
      /\ Reading \in Handlers \cup {Closed, Reading} /\ Reading.pc = "reading"
      /\ Found(Closed) /\ Found(Reading) /\ Found(NextFrame)
  BY DEF Closed, Reading, Found, NextFrame
<1>1. CASE Start
  <2>1. /\ epoch = 0 /\ thread' = thread /\ durable_epoch' \in Nat
        /\ \/ epoch' = epoch /\ fences' = fences /\ served' = served
           \/ /\ epoch' \in Nat /\ served' = Append(served, epoch')
              /\ fences' \in {durable_fences, {}}
    BY <1>1, <1>a, StartFacts
  <2>2. served' \in Seq(Nat) /\ Len(served') <= MaxEpoch /\ epoch' \in Nat
    <3>1. served \in Seq(Nat) /\ Len(served) \in Nat /\ Len(served) < MaxEpoch
      BY <1>1, <1>a, StartFacts DEF TypeOK
    <3>2. CASE served' = served /\ epoch' = epoch
      BY <1>a, <3>2 DEF TypeOK
    <3>3. CASE served' = Append(served, epoch') /\ epoch' \in Nat
      <4>1. Len(served') = Len(served) + 1 /\ served' \in Seq(Nat)
        BY <3>1, <3>3
      <4>2. QED
        BY <3>1, <3>3, <4>1, RegistryAssumption
    <3>4. QED
      BY <2>1, <3>2, <3>3
  <2>3. Held'
    BY <1>a, <2>1 DEF Held
  <2>4. QED
    BY <1>1, <1>a, <2>1, <2>2, <2>3 DEF Start, TypeOK
<1>2. CASE Crash \/ Stopped
  <2>1. Down
    BY <1>2 DEF Crash, Stopped
  <2>2. thread' \in [Threads -> Handlers \cup {Closed, Reading}] /\ Held'
    BY <2>1, <1>d DEF Down, Held
  <2>3. QED
    BY <2>1, <2>2, <1>a, Zenon DEF Down, TypeOK, NoBoots, disk
<1>3. CASE Stop
  BY <1>3, <1>a DEF Stop, TypeOK, Held, disk
<1>4. ASSUME NEW t \in Threads, Accept(t) \/ Disconnect(t) PROVE TypeOK' /\ Held'
  <2>1. epoch # 0
    BY <1>4, <1>c, <1>d DEF Accept, Disconnect
  <2>2. thread' \in [Threads -> Handlers \cup {Closed, Reading}] /\ Held'
    BY <1>4, <1>b, <1>d, <2>1 DEF Accept, Disconnect, Step
  <2>3. QED
    BY <1>4, <1>a, <2>2 DEF Accept, Disconnect, Step, TypeOK, disk
<1>5. ASSUME NEW t \in Threads, NEW p \in Publishers, NEW b \in Boots,
             NEW r \in 1 .. Len(served), Register(t, p, b, r)
      PROVE  TypeOK' /\ Held'
  <2>1. epoch # 0
    BY <1>5, <1>c, <1>d DEF Register
  <2>2. Frame("look", p, b, r) \in Handlers /\ Found(Frame("look", p, b, r))
    <3>1. r \in 1 .. MaxEpoch
      BY <1>a, RegistryAssumption DEF TypeOK
    <3>2. QED
      BY <1>a, <3>1, FrameType DEF Frame, Found, Pcs
  <2>3. ASSUME NEW u \in Threads
        PROVE  /\ thread'[u] \in Handlers \cup {Closed, Reading}
               /\ Found(thread'[u])
    <3>1. CASE u = t
      BY <1>5, <2>2, <3>1 DEF Register
    <3>2. CASE u # t /\ Registering(u) /\ thread[u].publisher = p
      <4>1. thread'[u] = [thread[u] EXCEPT !.alone = FALSE]
        BY <1>5, <3>2 DEF Register
      <4>2. thread[u] \in Handlers
        BY <1>a, <3>2, HandlerType DEF Registering
      <4>3. QED
        BY <1>a, <4>1, <4>2 DEF Handlers, Held, Found
    <3>3. CASE u # t /\ ~(Registering(u) /\ thread[u].publisher = p)
      BY <1>5, <1>a, <3>3 DEF Register, TypeOK, Held
    <3>4. QED
      BY <3>1, <3>2, <3>3
  <2>4. thread' \in [Threads -> Handlers \cup {Closed, Reading}]
    BY <1>5, <2>3 DEF Register
  <2>5. Held'
    BY <1>5, <2>1, <2>3 DEF Held, Register
  <2>6. QED
    BY <1>5, <1>a, <2>4, <2>5 DEF Register, TypeOK, disk
<1>6. ASSUME NEW t \in Threads, NEW p \in Publishers, NEW b \in Boots,
             NEW r \in 1 .. Len(served), Mutation(t, p, b, r)
      PROVE  TypeOK' /\ Held'
  <2>1. epoch # 0
    BY <1>6, <1>c, <1>d DEF Mutation
  <2>2. Frame("binding", p, b, r) \in Handlers /\ Found(Frame("binding", p, b, r))
    <3>1. r \in 1 .. MaxEpoch
      BY <1>a, RegistryAssumption DEF TypeOK
    <3>2. QED
      BY <1>a, <3>1, FrameType DEF Frame, Found, Pcs
  <2>3. thread' \in [Threads -> Handlers \cup {Closed, Reading}] /\ Held'
    BY <1>6, <1>b, <2>1, <2>2 DEF Mutation, Step
  <2>4. QED
    BY <1>6, <1>a, <2>3 DEF Mutation, Step, TypeOK, disk
<1>7. ASSUME NEW t \in Threads, RegisterLook(t) PROVE TypeOK' /\ Held'
  <2>1. thread[t] \in Handlers /\ epoch # 0
        /\ registered[thread[t].publisher] \in Boots \cup {NoBoot}
    BY <1>7, <1>a, <1>c, HandlerType DEF RegisterLook, TypeOK
  <2>2. PICK n \in Handlers : /\ thread' = [thread EXCEPT ![t] = n]
                              /\ Found(n)
    <3> DEFINE found == registered[thread[t].publisher]
    <3>1. CASE found # NoBoot /\ found # thread[t].boot
      <4> DEFINE n == [thread[t] EXCEPT !.pc = "persist", !.replaced = found]
      <4>1. n \in Handlers /\ Found(n)
        BY <2>1, <3>1 DEF Handlers, Pcs, Found
      <4>2. thread' = [thread EXCEPT ![t] = n]
        BY <1>7, <3>1 DEF RegisterLook, Step
      <4>3. QED
        BY <4>1, <4>2
    <3>2. CASE ~(found # NoBoot /\ found # thread[t].boot)
      <4> DEFINE n == [thread[t] EXCEPT !.pc = "install"]
      <4>1. n \in Handlers /\ Found(n)
        BY <2>1 DEF Handlers, Pcs, Found
      <4>2. thread' = [thread EXCEPT ![t] = n]
        BY <1>7, <3>2 DEF RegisterLook, Step
      <4>3. QED
        BY <4>1, <4>2
    <3>3. QED
      BY <3>1, <3>2
  <2>3. thread' \in [Threads -> Handlers \cup {Closed, Reading}] /\ Held'
    BY <1>7, <1>b, <2>1, <2>2 DEF RegisterLook, Step
  <2>4. QED
    BY <1>7, <1>a, <2>3 DEF RegisterLook, Step, TypeOK, disk
<1>8. ASSUME NEW t \in Threads, RegisterPersist(t) PROVE TypeOK' /\ Held'
  <2>1. thread[t] \in Handlers /\ epoch # 0 /\ thread[t].replaced # NoBoot
    BY <1>8, <1>a, <1>c, HandlerType DEF RegisterPersist, Held, Found
  <2>2. <<thread[t].publisher, thread[t].replaced>> \in Publishers \X Boots
    BY <2>1 DEF Handlers
  <2>3. durable_fences' \subseteq Publishers \X Boots
    BY <1>8, <1>a, <2>2 DEF RegisterPersist, TypeOK
  <2>4. PICK n \in Handlers \cup {Closed, Reading} :
               /\ thread' = [thread EXCEPT ![t] = n]
               /\ Found(n)
    <3>1. CASE thread' = [thread EXCEPT ![t].pc = "fence"]
      <4>1. [thread[t] EXCEPT !.pc = "fence"] \in Handlers
            /\ Found([thread[t] EXCEPT !.pc = "fence"])
        BY <2>1 DEF Handlers, Pcs, Found
      <4>2. thread' = [thread EXCEPT ![t] = [thread[t] EXCEPT !.pc = "fence"]]
        BY <3>1
      <4>3. QED
        BY <2>1, <4>1, <4>2
    <3>2. CASE thread' = [thread EXCEPT ![t] = NextFrame]
      BY <3>2, <1>d, NextFrameValue
    <3>3. QED
      BY <1>8, <3>1, <3>2 DEF RegisterPersist
  <2>5. thread' \in [Threads -> Handlers \cup {Closed, Reading}] /\ Held'
    BY <1>8, <1>b, <2>1, <2>4 DEF RegisterPersist
  <2>6. QED
    BY <1>8, <1>a, <2>3, <2>5 DEF RegisterPersist, TypeOK
<1>9. ASSUME NEW t \in Threads, RegisterFence(t) PROVE TypeOK' /\ Held'
  <2>1. thread[t] \in Handlers /\ epoch # 0 /\ thread[t].replaced # NoBoot
    BY <1>9, <1>a, <1>c, HandlerType DEF RegisterFence, Held, Found
  <2>2. <<thread[t].publisher, thread[t].replaced>> \in Publishers \X Boots
    BY <2>1 DEF Handlers
  <2>3. [thread[t] EXCEPT !.pc = "install"] \in Handlers
        /\ Found([thread[t] EXCEPT !.pc = "install"])
    BY <2>1 DEF Handlers, Pcs, Found
  <2>4. thread' \in [Threads -> Handlers \cup {Closed, Reading}] /\ Held'
    BY <1>9, <1>b, <2>1, <2>3 DEF RegisterFence, Step
  <2>5. QED
    BY <1>9, <1>a, <2>2, <2>4 DEF RegisterFence, Step, TypeOK, disk
<1>10. ASSUME NEW t \in Threads, RegisterInstall(t) PROVE TypeOK' /\ Held'
  <2>1. thread[t] \in Handlers /\ epoch # 0
    BY <1>10, <1>a, <1>c, HandlerType DEF RegisterInstall
  <2>2. registered' \in [Publishers -> Boots \cup {NoBoot}]
        /\ fenced_ever' \subseteq Publishers \X Boots
    BY <1>10, <1>a, <2>1 DEF RegisterInstall, TypeOK, Handlers
  <2>3. thread' \in [Threads -> Handlers \cup {Closed, Reading}] /\ Held'
    BY <1>10, <1>b, <1>d, <2>1, NextFrameValue DEF RegisterInstall, Step
  <2>4. QED
    BY <1>10, <1>a, <2>2, <2>3 DEF RegisterInstall, Step, TypeOK, disk
<1>11. ASSUME NEW t \in Threads, MutationLook(t) \/ MutationDone(t) PROVE TypeOK' /\ Held'
  <2>1. thread[t] \in Handlers /\ epoch # 0
    BY <1>11, <1>a, <1>c, HandlerType DEF MutationLook, MutationDone
  <2>2. [thread[t] EXCEPT !.pc = "engine"] \in Handlers
        /\ Found([thread[t] EXCEPT !.pc = "engine"])
    BY <2>1 DEF Handlers, Pcs, Found
  <2>3. thread' \in [Threads -> Handlers \cup {Closed, Reading}] /\ Held'
    BY <1>11, <1>b, <1>d, <2>1, <2>2, NextFrameValue DEF MutationLook, MutationDone, Step
  <2>4. QED
    BY <1>11, <1>a, <2>3 DEF MutationLook, MutationDone, Step, TypeOK, disk
<1>12. CASE UNCHANGED vars
  BY <1>12, <1>a DEF vars, disk, TypeOK, Held
<1>13. QED
  BY <1>1, <1>2, <1>3, <1>4, <1>5, <1>6, <1>7, <1>8, <1>9, <1>10, <1>11, <1>12 DEF Next

(***************************************************************************)
(* Epochs and fences                                                       *)
(***************************************************************************)
\* A mutation's frame is new, or carries what it carried when it was read.
LEMMA MutationFrames ==
    ASSUME IInv, [Next]_vars, NEW u \in Threads, thread'[u].pc \in {"binding", "engine"}
    PROVE  /\ served' = served /\ epoch # 0
           /\ \/ /\ thread[u].pc \in {"binding", "engine"}
                 /\ thread'[u].run = thread[u].run
                 /\ thread'[u].fenced_on_arrival = thread[u].fenced_on_arrival
              \/ \E p \in Publishers, b \in Boots, r \in 1 .. Len(served) :
                   Mutation(u, p, b, r) /\ thread'[u] = Frame("binding", p, b, r)
<1> DEFINE Kept == /\ thread[u].pc \in {"binding", "engine"}
                   /\ thread'[u].run = thread[u].run
                   /\ thread'[u].fenced_on_arrival = thread[u].fenced_on_arrival
           Goal == /\ served' = served /\ epoch # 0
                   /\ \/ Kept
                      \/ \E p \in Publishers, b \in Boots, r \in 1 .. Len(served) :
                           Mutation(u, p, b, r) /\ thread'[u] = Frame("binding", p, b, r)
<1>a. TypeOK /\ Held
  BY DEF IInv
<1>b. Closed.pc = "closed" /\ Reading.pc = "reading"
  BY DEF Closed, Reading
<1>c. ASSUME thread'[u] = thread[u], served' = served PROVE Goal
  BY <1>a, <1>b, <1>c DEF Held
<1>d. ASSUME NEW t \in Threads, NEW n, thread' = [thread EXCEPT ![t] = n], served' = served,
             t = u => n.pc \notin {"binding", "engine"}
      PROVE  Goal
  <2>1. u # t /\ thread'[u] = thread[u]
    BY <1>a, <1>d DEF TypeOK
  <2>2. QED
    BY <1>c, <1>d, <2>1
<1>1. CASE Start
  <2>1. epoch = 0 /\ thread' = thread
    BY <1>1 DEF Start
  <2>2. thread'[u] = Closed
    BY <1>a, <2>1 DEF Held
  <2>3. QED
    BY <1>b, <2>2
<1>2. CASE Crash \/ Stopped
  BY <1>2, <1>b DEF Crash, Stopped, Down
<1>3. CASE Stop
  BY <1>3, <1>c DEF Stop
<1>4. ASSUME NEW t \in Threads, Accept(t) \/ Disconnect(t) PROVE Goal
  BY <1>4, <1>b, <1>d DEF Accept, Disconnect, Step
<1>5. ASSUME NEW t \in Threads, NEW p \in Publishers, NEW b \in Boots,
             NEW r \in 1 .. Len(served), Register(t, p, b, r)
      PROVE  Goal
  <2>1. CASE u = t
    BY <1>5, <2>1 DEF Register, Frame
  <2>2. CASE u # t /\ Registering(u) /\ thread[u].publisher = p
    <3>1. thread'[u] = [thread[u] EXCEPT !.alone = FALSE] /\ thread[u] \in Handlers
      BY <1>5, <1>a, <2>2, HandlerType DEF Register, Registering
    <3>2. thread'[u].pc = thread[u].pc
      BY <3>1 DEF Handlers
    <3>3. QED
      BY <2>2, <3>2 DEF Registering
  <2>3. CASE u # t /\ ~(Registering(u) /\ thread[u].publisher = p)
    BY <1>5, <1>c, <2>3 DEF Register
  <2>4. QED
    BY <2>1, <2>2, <2>3
<1>6. ASSUME NEW t \in Threads, NEW p \in Publishers, NEW b \in Boots,
             NEW r \in 1 .. Len(served), Mutation(t, p, b, r)
      PROVE  Goal
  <2>1. CASE u = t
    <3>1. thread'[u] = Frame("binding", p, b, r) /\ served' = served
      BY <1>6, <1>a, <2>1 DEF Mutation, Step, TypeOK
    <3>2. epoch # 0
      BY <1>6, <1>a, <1>b DEF Mutation, Held
    <3>3. QED
      BY <1>6, <2>1, <3>1, <3>2
  <2>2. CASE u # t
    BY <1>6, <1>d, <2>2 DEF Mutation, Step
  <2>3. QED
    BY <2>1, <2>2
<1>7. ASSUME NEW t \in Threads, RegisterLook(t) PROVE Goal
  <2>1. CASE u = t
    <3>1. thread[u] \in Handlers
      BY <1>7, <1>a, <2>1, HandlerType DEF RegisterLook
    <3>2. thread'[u].pc \in {"persist", "install"}
      BY <1>7, <1>a, <2>1, <3>1 DEF RegisterLook, Step, TypeOK, Handlers
    <3>3. QED
      BY <3>2
  <2>2. CASE u # t
    BY <1>7, <1>d, <2>2 DEF RegisterLook, Step
  <2>3. QED
    BY <2>1, <2>2
<1>8. ASSUME NEW t \in Threads, RegisterPersist(t) PROVE Goal
  <2>1. CASE u = t
    <3>1. thread[u] \in Handlers
      BY <1>8, <1>a, <2>1, HandlerType DEF RegisterPersist
    <3>2. thread'[u].pc \in {"fence", "closed", "reading"}
      BY <1>8, <1>a, <2>1, <3>1, NextFrameValue DEF RegisterPersist, TypeOK, Handlers
    <3>3. QED
      BY <3>2
  <2>2. CASE u # t
    BY <1>8, <1>a, <1>c, <2>2 DEF RegisterPersist, TypeOK
  <2>3. QED
    BY <2>1, <2>2
<1>9. ASSUME NEW t \in Threads, RegisterFence(t) PROVE Goal
  <2>1. thread[t] \in Handlers
    BY <1>9, <1>a, HandlerType DEF RegisterFence
  <2>2. [thread[t] EXCEPT !.pc = "install"].pc = "install"
    BY <2>1 DEF Handlers
  <2>3. QED
    BY <1>9, <1>d, <2>2 DEF RegisterFence, Step
<1>10. ASSUME NEW t \in Threads, RegisterInstall(t) PROVE Goal
  BY <1>10, <1>d, NextFrameValue DEF RegisterInstall, Step
<1>11. ASSUME NEW t \in Threads, MutationLook(t) PROVE Goal
  <2>1. CASE u = t
    <3>1. thread[u] \in Handlers /\ thread[u].pc = "binding" /\ served' = served
      BY <1>11, <1>a, <2>1, HandlerType DEF MutationLook, Step
    <3>2. thread'[u] \in {[thread[u] EXCEPT !.pc = "engine"], Closed, Reading}
      BY <1>11, <1>a, <2>1, NextFrameValue DEF MutationLook, Step, TypeOK
    <3>3. thread'[u] = [thread[u] EXCEPT !.pc = "engine"]
      BY <1>b, <3>2
    <3>4. Kept
      BY <3>1, <3>3 DEF Handlers
    <3>5. QED
      BY <1>a, <1>b, <3>1, <3>4 DEF Held
  <2>2. CASE u # t
    BY <1>11, <1>d, <2>2 DEF MutationLook, Step
  <2>3. QED
    BY <2>1, <2>2
<1>12. ASSUME NEW t \in Threads, MutationDone(t) PROVE Goal
  BY <1>12, <1>d, NextFrameValue DEF MutationDone, Step
<1>13. CASE UNCHANGED vars
  BY <1>13, <1>c DEF vars
<1>14. QED
  BY <1>1, <1>2, <1>3, <1>4, <1>5, <1>6, <1>7, <1>8, <1>9, <1>10, <1>11, <1>12, <1>13 DEF Next

\* Only start changes the epochs; a frame that carries the running epoch was
\* addressed to the last coordinator, because no epoch was handed out twice.
LEMMA EpochStep == IInv /\ [Next]_vars => Epochs'
<1> SUFFICES ASSUME IInv, [Next]_vars PROVE Epochs'
  OBVIOUS
<1>a. TypeOK /\ Held /\ Epochs
  BY DEF IInv
<1>0. repository' = repository
  BY RepositoryConstant
<1>1. ASSUME repository, NEW u \in Threads, thread'[u].pc \in {"binding", "engine"}
      PROVE  thread'[u].run = Len(served')
  <2>0. Increasing
    BY <1>1, <1>a DEF Epochs
  <2>1. CASE thread[u].pc \in {"binding", "engine"} /\ thread'[u].run = thread[u].run
    BY <1>1, <2>0, <2>1, MutationFrames DEF Increasing
  <2>2. ASSUME NEW p \in Publishers, NEW b \in Boots, NEW r \in 1 .. Len(served),
               Mutation(u, p, b, r), thread'[u] = Frame("binding", p, b, r)
        PROVE  thread'[u].run = Len(served')
    <3>1. served[r] = epoch /\ served' = served /\ thread'[u].run = r
      BY <2>2, <1>1, MutationFrames DEF Mutation, Frame
    <3>2. epoch # 0 /\ served[Len(served)] = epoch /\ Len(served) \in 1 .. Len(served)
      BY <1>1, <1>a, MutationFrames DEF Epochs, TypeOK
    <3>3. ASSUME r < Len(served) PROVE FALSE
      <4>1. served[r] < served[Len(served)] /\ served[r] \in Nat
        BY <1>a, <2>0, <3>2, <3>3 DEF Increasing, TypeOK
      <4>2. QED
        BY <3>1, <3>2, <4>1
    <3>4. QED
      BY <1>a, <3>1, <3>3 DEF TypeOK
  <2>3. QED
    BY <1>1, <2>1, <2>2, MutationFrames
<1>2. CASE Start
  <2>1. durable_epoch \in Nat /\ served \in Seq(Nat) /\ Len(served) \in Nat /\ epoch = 0
    BY <1>2, <1>a, StartFacts DEF TypeOK
  <2>2. CASE served' = served /\ epoch' = epoch
    <3>1. ASSUME repository PROVE Increasing'
      <4>1. durable_epoch' = durable_epoch + 1 /\ Increasing
        BY <1>2, <1>a, <3>1, StartFacts DEF Epochs
      <4>2. QED
        BY <1>1, <2>1, <2>2, <3>1, <4>1 DEF Increasing
    <3>2. QED
      BY <1>0, <2>1, <2>2, <3>1 DEF Epochs
  <2>3. CASE /\ served' = Append(served, epoch')
             /\ repository => epoch' = durable_epoch'
    <3>1. /\ Len(served') = Len(served) + 1 /\ served'[Len(served) + 1] = epoch'
          /\ \A i \in 1 .. Len(served) : served'[i] = served[i]
      BY <2>1, <2>3
    <3>2. ASSUME repository PROVE Increasing'
      <4>1. durable_epoch' = durable_epoch + 1 /\ Increasing /\ epoch' = durable_epoch'
        BY <1>2, <1>a, <2>3, <3>2, StartFacts DEF Epochs
      <4>2. \A i \in 1 .. Len(served') : served'[i] <= durable_epoch'
        BY <2>1, <3>1, <4>1 DEF Increasing
      <4>3. ASSUME NEW i \in 1 .. Len(served'), NEW j \in 1 .. Len(served'), i < j
            PROVE  served'[i] < served'[j]
        <5>1. i \in 1 .. Len(served) /\ served'[i] = served[i] /\ served[i] \in Nat
          BY <2>1, <3>1, <4>3
        <5>2. CASE j \in 1 .. Len(served)
          BY <3>1, <4>1, <4>3, <5>1, <5>2 DEF Increasing
        <5>3. CASE j = Len(served) + 1
          BY <2>1, <3>1, <4>1, <5>1, <5>3 DEF Increasing
        <5>4. QED
          BY <2>1, <3>1, <5>2, <5>3
      <4>4. QED
        BY <1>1, <3>2, <4>2, <4>3 DEF Increasing
    <3>3. Len(served') > 0 /\ served'[Len(served')] = epoch'
      BY <2>1, <3>1
    <3>4. QED
      BY <1>0, <3>2, <3>3 DEF Epochs
  <2>4. QED
    BY <1>2, <1>a, <2>2, <2>3, StartFacts
<1>3. CASE Crash \/ Stopped
  <2>1. epoch' = 0 /\ durable_epoch' = durable_epoch /\ served' = served
    BY <1>3 DEF Crash, Stopped, Down, disk
  <2>2. QED
    BY <1>0, <1>1, <1>a, <2>1 DEF Epochs, Increasing
<1>4. CASE UNCHANGED <<epoch, durable_epoch, served>>
  BY <1>0, <1>1, <1>4, <1>a DEF Epochs, Increasing
<1>5. QED
  BY <1>2, <1>3, <1>4, ZenonT(60)
     DEF Next, Stop, Accept, Disconnect, Step, Register, Mutation, RegisterLook, RegisterPersist,
         RegisterFence, RegisterInstall, MutationLook, MutationDone, disk, vars

\* What a step makes of a thread's registration: nothing new, except for the
\* thread that takes the step; a step of another registration of the same
\* publisher may only tell it that it is not alone.
LEMMA RegistrationFrames ==
    ASSUME IInv, [Next]_vars, NEW u \in Threads, Registering(u)',
           ~\E p \in Publishers, b \in Boots, r \in 1 .. Len(served) : Register(u, p, b, r),
           ~RegisterLook(u), ~RegisterPersist(u), ~RegisterFence(u)
    PROVE  /\ epoch # 0 /\ Registering(u)
           /\ thread'[u].pc = thread[u].pc /\ thread'[u].publisher = thread[u].publisher
           /\ thread'[u].boot = thread[u].boot /\ thread'[u].replaced = thread[u].replaced
           /\ thread'[u].alone => thread[u].alone
<1> DEFINE Goal == /\ epoch # 0 /\ Registering(u)
                   /\ thread'[u].pc = thread[u].pc /\ thread'[u].publisher = thread[u].publisher
                   /\ thread'[u].boot = thread[u].boot /\ thread'[u].replaced = thread[u].replaced
                   /\ thread'[u].alone => thread[u].alone
<1>a. TypeOK /\ Held
  BY DEF IInv
<1>b. Closed.pc = "closed" /\ Reading.pc = "reading"
  BY DEF Closed, Reading
<1>c. ASSUME thread'[u] = thread[u] PROVE Goal
  BY <1>a, <1>b, <1>c DEF Held, Registering
<1>d. ASSUME NEW t \in Threads, NEW n, thread' = [thread EXCEPT ![t] = n],
             t = u => n.pc \notin {"look", "persist", "fence", "install"}
      PROVE  Goal
  <2>1. CASE u = t
    BY <1>a, <1>d, <2>1 DEF TypeOK, Registering
  <2>2. CASE u # t
    BY <1>a, <1>c, <1>d, <2>2 DEF TypeOK
  <2>3. QED
    BY <2>1, <2>2
<1>1. CASE Start \/ Stop
  BY <1>1, <1>c DEF Start, Stop
<1>2. CASE Crash \/ Stopped
  BY <1>2, <1>b DEF Crash, Stopped, Down, Registering
<1>3. ASSUME NEW t \in Threads, Accept(t) \/ Disconnect(t) PROVE Goal
  BY <1>3, <1>b, <1>d DEF Accept, Disconnect, Step
<1>4. ASSUME NEW t \in Threads, NEW p \in Publishers, NEW b \in Boots,
             NEW r \in 1 .. Len(served), Register(t, p, b, r)
      PROVE  Goal
  <2>1. u # t
    BY <1>4
  <2>2. CASE Registering(u) /\ thread[u].publisher = p
    <3>1. thread'[u] = [thread[u] EXCEPT !.alone = FALSE] /\ thread[u] \in Handlers
      BY <1>4, <1>a, <2>1, <2>2, HandlerType DEF Register, Registering
    <3>2. epoch # 0
      BY <1>a, <1>b, <2>2 DEF Held, Registering
    <3>3. QED
      BY <2>2, <3>1, <3>2 DEF Handlers
  <2>3. CASE ~(Registering(u) /\ thread[u].publisher = p)
    BY <1>4, <1>c, <2>1, <2>3 DEF Register
  <2>4. QED
    BY <2>2, <2>3
<1>5. ASSUME NEW t \in Threads, NEW p \in Publishers, NEW b \in Boots,
             NEW r \in 1 .. Len(served), Mutation(t, p, b, r)
      PROVE  Goal
  <2>1. Frame("binding", p, b, r).pc = "binding"
    BY DEF Frame
  <2>2. QED
    BY <1>5, <1>d, <2>1 DEF Mutation, Step
<1>6. ASSUME NEW t \in Threads, RegisterLook(t) \/ RegisterPersist(t) \/ RegisterFence(t)
      PROVE  Goal
  <2>1. u # t
    BY <1>6
  <2>2. thread'[u] = thread[u]
    BY <1>6, <1>a, <2>1 DEF RegisterLook, RegisterPersist, RegisterFence, Step, TypeOK
  <2>3. QED
    BY <1>c, <2>2
<1>7. ASSUME NEW t \in Threads, RegisterInstall(t) \/ MutationDone(t) PROVE Goal
  BY <1>7, <1>d, NextFrameValue DEF RegisterInstall, MutationDone, Step
<1>8. ASSUME NEW t \in Threads, MutationLook(t) PROVE Goal
  <2>1. thread[t] \in Handlers
    BY <1>8, <1>a, HandlerType DEF MutationLook
  <2>2. [thread[t] EXCEPT !.pc = "engine"].pc = "engine"
    BY <2>1 DEF Handlers
  <2>3. QED
    BY <1>8, <1>d, <2>2, NextFrameValue DEF MutationLook, Step
<1>9. CASE UNCHANGED vars
  BY <1>9, <1>c DEF vars
<1>10. QED
  BY <1>1, <1>2, <1>3, <1>4, <1>5, <1>6, <1>7, <1>8, <1>9 DEF Next

\* Fences are never taken back while a coordinator runs, and never on disk.
LEMMA FencesGrow ==
    ASSUME IInv, [Next]_vars
    PROVE  /\ durable_fences \subseteq durable_fences'
           /\ fences \subseteq fences' \/ epoch' = 0 \/ Start
           /\ \/ fenced_ever' = fenced_ever \/ \E t \in Threads : RegisterInstall(t)
              \/ fenced_ever' = {} /\ epoch' = 0
           /\ epoch' = 0 /\ epoch # 0 => fenced_ever' = {} \/ repository
BY ZenonT(60) DEF Next, Start, Crash, Stop, Stopped, Down, Accept, Disconnect, Step, Register, Mutation,
       RegisterLook, RegisterPersist, RegisterFence, RegisterInstall, MutationLook, MutationDone,
       disk, vars

\* The fence of a replaced boot is on disk, then in memory, before the
\* registration is acknowledged, and start brings back what is on disk.
LEMMA FencingStep == IInv /\ [Next]_vars => Fencing'
<1> SUFFICES ASSUME IInv, [Next]_vars PROVE Fencing'
  OBVIOUS
<1>a. TypeOK /\ Held /\ Fencing
  BY DEF IInv
<1>0. repository' = repository /\ durable_fences \subseteq durable_fences'
  BY RepositoryConstant, FencesGrow
<1>1. ASSUME NEW fence \in fenced_ever'
      PROVE  Stored(fence)' /\ (epoch' # 0 => fence \in fences') /\ (epoch' = 0 => repository')
  <2>1. ASSUME NEW t \in Threads, RegisterInstall(t)
        PROVE  Stored(fence) /\ fence \in fences' /\ epoch' # 0
    <3>1. epoch # 0 /\ epoch' = epoch /\ fences' = fences
      BY <2>1, <1>a DEF RegisterInstall, Step, Held, Closed
    <3>2. \/ fence \in fenced_ever
          \/ thread[t].replaced # NoBoot /\ fence = <<thread[t].publisher, thread[t].replaced>>
      BY <1>1, <2>1 DEF RegisterInstall
    <3>3. thread[t].pc = "install"
      BY <2>1 DEF RegisterInstall
    <3>4. QED
      BY <1>a, <3>1, <3>2, <3>3 DEF Fencing
  <2>2. CASE Start
    <3>1. fence \in fenced_ever /\ repository /\ fence \in durable_fences
      BY <1>1, <1>a, <2>2, StartFacts DEF Fencing, Stored
    <3>2. epoch' # 0 => fences' = durable_fences
      BY <1>a, <2>2, <3>1, StartFacts
    <3>3. QED
      BY <1>0, <3>1, <3>2 DEF Stored
  <2>3. CASE fenced_ever' = fenced_ever /\ ~Start
    <3>1. epoch' # 0 => epoch # 0
      BY <2>3, ZenonT(60) DEF Next, Crash, Stop, Stopped, Down, Accept, Disconnect, Step, Register, Mutation,
         RegisterLook, RegisterPersist, RegisterFence, RegisterInstall, MutationLook,
         MutationDone, vars
    <3>2. epoch' = 0 => repository
      BY <1>1, <1>a, <2>3, FencesGrow DEF Fencing
    <3>3. fence \in fenced_ever /\ Stored(fence) /\ (epoch # 0 => fence \in fences)
      BY <1>1, <1>a, <2>3 DEF Fencing
    <3>4. QED
      BY <1>0, <2>3, <3>1, <3>2, <3>3, FencesGrow DEF Stored
  <2>4. QED
    BY <1>0, <1>1, <2>1, <2>2, <2>3, FencesGrow DEF Stored
<1>2. ASSUME NEW u \in Threads, thread'[u].pc \in {"binding", "engine"}
      PROVE  ~thread'[u].fenced_on_arrival
  <2>1. ASSUME NEW p \in Publishers, NEW b \in Boots, NEW r \in 1 .. Len(served),
               Mutation(u, p, b, r), thread'[u] = Frame("binding", p, b, r)
        PROVE  ~thread'[u].fenced_on_arrival
    <3>1. epoch # 0 /\ <<p, b>> \notin fences
      BY <1>2, <2>1, MutationFrames DEF Mutation
    <3>2. <<p, b>> \notin fenced_ever
      BY <1>a, <3>1 DEF Fencing
    <3>3. Frame("binding", p, b, r).fenced_on_arrival = (<<p, b>> \in fenced_ever)
      BY Zenon DEF Frame
    <3>4. QED
      BY <2>1, <3>2, <3>3, Zenon
  <2>2. QED
    BY <1>2, <1>a, <2>1, MutationFrames DEF Fencing
<1>3. ASSUME NEW u \in Threads
      PROVE  /\ thread'[u].pc = "fence" => Stored(<<thread[u].publisher, thread[u].replaced>>)'
             /\ thread'[u].pc = "install" /\ thread'[u].replaced # NoBoot =>
                  /\ <<thread'[u].publisher, thread'[u].replaced>> \in fences'
                  /\ Stored(<<thread[u].publisher, thread[u].replaced>>)'
  <2>1. ASSUME NEW p \in Publishers, NEW b \in Boots, NEW r \in 1 .. Len(served),
               Register(u, p, b, r)
        PROVE  thread'[u].pc = "look"
    BY <2>1 DEF Register, Frame
  <2>2. ASSUME RegisterLook(u)
        PROVE  thread'[u].pc = "persist"
               \/ (thread'[u].pc = "install" /\ thread'[u].replaced = NoBoot)
    <3>1. thread[u] \in Handlers
      BY <2>2, <1>a, HandlerType DEF RegisterLook
    <3>2. thread[u].replaced = NoBoot
      BY <2>2, <1>a DEF RegisterLook, Held, Found
    <3>3. \/ thread'[u] = [thread[u] EXCEPT !.pc = "persist",
                                            !.replaced = registered[thread[u].publisher]]
          \/ thread'[u] = [thread[u] EXCEPT !.pc = "install"]
      BY <2>2, <1>a DEF RegisterLook, Step, TypeOK
    <3>4. QED
      BY <3>1, <3>2, <3>3 DEF Handlers
  <2>3. ASSUME RegisterPersist(u)
        PROVE  /\ thread'[u].pc \in {"fence", "closed", "reading"}
               /\ thread'[u].pc = "fence" =>
                    Stored(<<thread[u].publisher, thread[u].replaced>>)'
    <3>1. thread[u] \in Handlers
      BY <2>3, <1>a, HandlerType DEF RegisterPersist
    <3>2. QED
      BY <1>0, <2>3, <1>a, <3>1, NextFrameValue, SMTT(30)
         DEF RegisterPersist, TypeOK, Handlers, Stored
  <2>4. ASSUME RegisterFence(u)
        PROVE  /\ thread'[u].pc = "install"
               /\ <<thread'[u].publisher, thread'[u].replaced>> \in fences'
               /\ Stored(<<thread[u].publisher, thread[u].replaced>>)'
    <3>1. thread[u] \in Handlers
      BY <2>4, <1>a, HandlerType DEF RegisterFence
    <3>2. /\ thread'[u] = [thread[u] EXCEPT !.pc = "install"]
          /\ durable_fences' = durable_fences
          /\ fences' = fences \cup {<<thread[u].publisher, thread[u].replaced>>}
      BY <2>4, <1>a DEF RegisterFence, Step, TypeOK, disk
    <3>3. /\ thread'[u].pc = "install" /\ thread'[u].publisher = thread[u].publisher
          /\ thread'[u].replaced = thread[u].replaced
      BY <3>1, <3>2 DEF Handlers
    <3>4. Stored(<<thread[u].publisher, thread[u].replaced>>)
      BY <2>4, <1>a DEF RegisterFence, Fencing
    <3>5. QED
      BY <1>0, <3>2, <3>3, <3>4 DEF Stored
  <2>5. CASE /\ Registering(u)'
             /\ ~\E p \in Publishers, b \in Boots, r \in 1 .. Len(served) : Register(u, p, b, r)
             /\ ~RegisterLook(u) /\ ~RegisterPersist(u) /\ ~RegisterFence(u)
    <3>1. /\ epoch # 0 /\ thread'[u].pc = thread[u].pc
          /\ thread'[u].publisher = thread[u].publisher
          /\ thread'[u].replaced = thread[u].replaced
      BY <2>5, RegistrationFrames
    <3>2. fences \subseteq fences' /\ durable_fences \subseteq durable_fences'
      <4>1. ASSUME epoch' = 0 PROVE FALSE
        <5>1. Down
          BY <3>1, <4>1, ZenonT(60)
             DEF Next, Start, Crash, Stop, Stopped, Accept, Disconnect, Step, Register, Mutation,
                 RegisterLook, RegisterPersist, RegisterFence, RegisterInstall, MutationLook,
                 MutationDone, vars
        <5>2. QED
          BY <2>5, <5>1 DEF Down, Closed, Registering
      <4>2. ~Start
        BY <3>1 DEF Start
      <4>3. QED
        BY <4>1, <4>2, FencesGrow
    <3>3. QED
      BY <1>0, <1>a, <3>1, <3>2 DEF Fencing, Stored
  <2>6. CASE ~Registering(u)'
    BY <2>6 DEF Registering
  <2>7. QED
    BY <2>1, <2>2, <2>3, <2>4, <2>5, <2>6
<1>4. QED
  BY <1>1, <1>2, <1>3 DEF Fencing

(***************************************************************************)
(* A registration that no other overlaps                                   *)
(***************************************************************************)
\* What it found when it looked does not change under it: only registrations
\* of the same publisher write its entry and its fences.
LEMMA UndisturbedStep == IInv /\ [Next]_vars => Undisturbed'
<1> SUFFICES ASSUME IInv, [Next]_vars, NEW t \in Threads, Registering(t)', thread'[t].alone
             PROVE  Calm(t)'
  BY DEF Undisturbed
<1>a. TypeOK /\ Held /\ Undisturbed
  BY DEF IInv
<1>b. ASSUME NEW u \in Threads, Registering(u) PROVE thread[u] \in Handlers
  BY <1>a, <1>b, HandlerType DEF Registering
<1>1. ASSUME NEW p \in Publishers, NEW b \in Boots, NEW r \in 1 .. Len(served),
             Register(t, p, b, r)
      PROVE  Calm(t)'
  <2>1. /\ thread'[t] = Frame("look", p, b, r)
        /\ thread'[t].pc = "look" /\ thread'[t].publisher = p /\ thread'[t].boot = b
        /\ \A u \in Threads : ~(Registering(u) /\ thread[u].publisher = p)
    BY <1>1 DEF Register, Frame
  <2>2. ASSUME NEW u \in Threads \ {t} PROVE thread'[u] = thread[u]
    BY <1>1, <2>1 DEF Register
  <2>3. \A u \in Threads \ {t} : Registering(u)' => thread'[u].publisher # p
    BY <2>1, <2>2 DEF Registering
  <2>4. <<p, b>> \notin fences'
    BY <1>1 DEF Register
  <2>5. QED
    BY <2>1, <2>3, <2>4 DEF Calm, Key
<1>2. ASSUME RegisterLook(t) \/ RegisterPersist(t) \/ RegisterFence(t) PROVE Calm(t)'
  <2>1. thread[t] \in Handlers /\ Registering(t)
    BY <1>2, <1>b DEF RegisterLook, RegisterPersist, RegisterFence, Registering
  <2>2. ASSUME NEW u \in Threads \ {t} PROVE thread'[u] = thread[u]
    BY <1>2, <1>a DEF RegisterLook, RegisterPersist, RegisterFence, Step, TypeOK
  <2>3. registered' = registered
    BY <1>2 DEF RegisterLook, RegisterPersist, RegisterFence
  <2> DEFINE found == registered[thread[t].publisher]
  <2>4. CASE RegisterLook(t)
    <3>1. \/ /\ thread'[t] = [thread[t] EXCEPT !.pc = "persist", !.replaced = found]
             /\ found # thread[t].boot
          \/ /\ thread'[t] = [thread[t] EXCEPT !.pc = "install"]
             /\ found \in {NoBoot, thread[t].boot}
      BY <2>4, <1>a DEF RegisterLook, Step, TypeOK
    <3>2. /\ thread'[t].publisher = thread[t].publisher /\ thread'[t].boot = thread[t].boot
          /\ thread'[t].alone = thread[t].alone
          /\ \/ thread'[t].pc = "persist" /\ thread'[t].replaced = found /\ found # thread[t].boot
             \/ thread'[t].pc = "install" /\ found \in {NoBoot, thread[t].boot}
      BY <2>1, <3>1 DEF Handlers
    <3>3. Calm(t) /\ fences' = fences
      BY <1>a, <2>1, <2>4, <3>2 DEF Undisturbed, RegisterLook
    <3>4. QED
      BY <2>2, <2>3, <3>2, <3>3 DEF Calm, Key, Registering
  <2>5. CASE RegisterPersist(t)
    <3>1. thread'[t] = [thread[t] EXCEPT !.pc = "fence"] \/ thread'[t] = NextFrame
      BY <2>5, <1>a DEF RegisterPersist, TypeOK
    <3>2. thread'[t] = [thread[t] EXCEPT !.pc = "fence"]
      BY <3>1, NextFrameValue DEF Registering
    <3>3. /\ thread'[t].publisher = thread[t].publisher /\ thread'[t].boot = thread[t].boot
          /\ thread'[t].alone = thread[t].alone /\ thread'[t].replaced = thread[t].replaced
          /\ thread'[t].pc = "fence"
      BY <2>1, <3>2 DEF Handlers
    <3>4. Calm(t) /\ fences' = fences /\ thread[t].pc = "persist"
      BY <1>a, <2>1, <2>5, <3>3 DEF Undisturbed, RegisterPersist
    <3>5. QED
      BY <2>2, <2>3, <3>3, <3>4 DEF Calm, Key, Registering
  <2>6. CASE RegisterFence(t)
    <3>1. thread'[t] = [thread[t] EXCEPT !.pc = "install"]
      BY <2>6, <1>a DEF RegisterFence, Step, TypeOK
    <3>2. /\ thread'[t].publisher = thread[t].publisher /\ thread'[t].boot = thread[t].boot
          /\ thread'[t].alone = thread[t].alone /\ thread'[t].replaced = thread[t].replaced
          /\ thread'[t].pc = "install"
      BY <2>1, <3>1 DEF Handlers
    <3>3. /\ Calm(t) /\ thread[t].pc = "fence" /\ thread[t].replaced # NoBoot
          /\ fences' = fences \cup {<<thread[t].publisher, thread[t].replaced>>}
      BY <1>a, <2>1, <2>6, <3>2 DEF Undisturbed, RegisterFence, Held, Found
    <3>4. Key(t)' \notin fences'
      BY <3>2, <3>3 DEF Calm, Key
    <3>5. QED
      BY <2>2, <2>3, <3>2, <3>3, <3>4 DEF Calm, Registering
  <2>7. QED
    BY <1>2, <2>4, <2>5, <2>6
<1>3. CASE /\ ~\E p \in Publishers, b \in Boots, r \in 1 .. Len(served) : Register(t, p, b, r)
           /\ ~RegisterLook(t) /\ ~RegisterPersist(t) /\ ~RegisterFence(t)
  <2>1. /\ epoch # 0 /\ Registering(t) /\ thread[t].alone
        /\ thread'[t].pc = thread[t].pc /\ thread'[t].publisher = thread[t].publisher
        /\ thread'[t].boot = thread[t].boot /\ thread'[t].replaced = thread[t].replaced
    BY <1>3, RegistrationFrames
  <2>2. Calm(t) /\ thread[t] \in Handlers
    BY <1>a, <1>b, <2>1 DEF Undisturbed
  \* No other thread comes to register the publisher: it would end the solitude.
  <2>3. ASSUME NEW u \in Threads \ {t}, Registering(u)'
        PROVE  thread'[u].publisher # thread[t].publisher
    <3>1. ASSUME NEW p \in Publishers, NEW b \in Boots, NEW r \in 1 .. Len(served),
                 Register(u, p, b, r), p = thread[t].publisher
          PROVE  FALSE
      <4>1. thread'[t] = [thread[t] EXCEPT !.alone = FALSE]
        BY <2>1, <3>1 DEF Register
      <4>2. QED
        BY <2>2, <4>1 DEF Handlers
    <3>2. ASSUME NEW p \in Publishers, NEW b \in Boots, NEW r \in 1 .. Len(served),
                 Register(u, p, b, r)
          PROVE  thread'[u].publisher = p
      BY <3>2 DEF Register, Frame
    <3>3. CASE RegisterLook(u) \/ RegisterPersist(u) \/ RegisterFence(u)
      <4>1. Registering(u) /\ thread[u] \in Handlers
        BY <1>b, <3>3 DEF RegisterLook, RegisterPersist, RegisterFence, Registering
      <4>2. \/ thread'[u] = [thread[u] EXCEPT !.pc = "persist",
                                              !.replaced = registered[thread[u].publisher]]
            \/ thread'[u] = [thread[u] EXCEPT !.pc = "install"]
            \/ thread'[u] = [thread[u] EXCEPT !.pc = "fence"]
            \/ thread'[u] = NextFrame
        BY <1>a, <3>3 DEF RegisterLook, RegisterPersist, RegisterFence, Step, TypeOK
      <4>3. thread'[u] # NextFrame
        BY <2>3, NextFrameValue DEF Registering
      <4>4. thread'[u].publisher = thread[u].publisher
        BY <4>1, <4>2, <4>3 DEF Handlers
      <4>5. QED
        BY <2>2, <4>1, <4>4 DEF Calm
    <3>4. CASE /\ ~\E p \in Publishers, b \in Boots, r \in 1 .. Len(served) : Register(u, p, b, r)
               /\ ~RegisterLook(u) /\ ~RegisterPersist(u) /\ ~RegisterFence(u)
      BY <2>2, <2>3, <3>4, RegistrationFrames DEF Calm
    <3>5. QED
      BY <3>1, <3>2, <3>3, <3>4
  \* Its entry and its fences are written by registrations of the publisher only.
  <2>4. registered'[thread[t].publisher] = registered[thread[t].publisher]
        /\ Key(t) \notin fences'
    <3> DEFINE Goal == registered'[thread[t].publisher] = registered[thread[t].publisher]
                       /\ Key(t) \notin fences'
    <3>1. Key(t) \notin fences
      BY <2>2 DEF Calm
    <3>2. ASSUME NEW u \in Threads, RegisterFence(u) PROVE Goal
      <4>1. u # t /\ Registering(u)
        BY <1>3, <3>2 DEF RegisterFence, Registering
      <4>2. thread[u].publisher # thread[t].publisher
        BY <2>2, <4>1 DEF Calm
      <4>3. QED
        BY <3>1, <3>2, <4>2 DEF RegisterFence, Key
    <3>3. ASSUME NEW u \in Threads, RegisterInstall(u) PROVE Goal
      <4>1. u # t
        BY <3>3, <1>a, NextFrameValue DEF RegisterInstall, Step, TypeOK, Registering
      <4>2. thread[u].publisher # thread[t].publisher
        BY <2>2, <3>3, <4>1 DEF Calm, RegisterInstall, Registering
      <4>3. QED
        BY <1>a, <3>1, <3>3, <4>2 DEF RegisterInstall, TypeOK
    <3>4. CASE Crash \/ Stopped
      BY <3>4 DEF Crash, Stopped, Down, Closed, Registering
    <3>5. CASE UNCHANGED <<registered, fences>>
      BY <3>1, <3>5
    <3>6. QED
      BY <2>1, <3>2, <3>3, <3>4, <3>5, ZenonT(60)
         DEF Next, Start, Stop, Accept, Disconnect, Step, Register, Mutation, RegisterLook,
             RegisterPersist, MutationLook, MutationDone, vars
  <2>5. QED
    BY <2>1, <2>2, <2>3, <2>4 DEF Calm, Key
<1>4. QED
  BY <1>1, <1>2, <1>3

(***************************************************************************)
(* Theorems                                                                *)
(***************************************************************************)
\* The four parts together are inductive.
THEOREM RegistryInvariant == Spec => []IInv
<1>1. Init => IInv
  <2> SUFFICES ASSUME Init PROVE IInv
    OBVIOUS
  <2>1. /\ \A t \in Threads : thread[t] = Closed
        /\ Closed.pc = "closed"
    BY DEF Init, Closed
  <2>2. TypeOK
    <3>1. Len(served) = 0 /\ served \in Seq(Nat)
      BY DEF Init
    <3>2. thread \in [Threads -> Handlers \cup {Closed, Reading}]
      BY DEF Init
    <3>3. registered \in [Publishers -> Boots \cup {NoBoot}]
      BY DEF Init, NoBoots
    <3>4. stopping \in BOOLEAN /\ repository \in BOOLEAN
      BY DEF Init
    <3>5. /\ epoch \in Nat /\ durable_epoch \in Nat /\ Len(served) <= MaxEpoch
          /\ fences = {} /\ durable_fences = {} /\ fenced_ever = {}
      BY <3>1, RegistryAssumption DEF Init
    <3>6. QED
      BY <3>1, <3>2, <3>3, <3>4, <3>5 DEF TypeOK
  <2>3. Held /\ Fencing /\ Undisturbed
    BY <2>1 DEF Init, Held, Found, Fencing, Undisturbed, Registering
  <2>4. Epochs
    BY <2>1, RegistryAssumption DEF Init, Epochs, Increasing
  <2>5. QED
    BY <2>2, <2>3, <2>4 DEF IInv
<1>2. IInv /\ [Next]_vars => IInv'
  BY TypeStep, EpochStep, FencingStep, UndisturbedStep DEF IInv
<1>3. QED
  BY <1>1, <1>2, PTL DEF Spec

\* The registry is type correct.
THEOREM RegistryTypeCorrect == Spec => []TypeOK
<1>1. IInv => TypeOK
  BY DEF IInv
<1>2. QED
  BY <1>1, RegistryInvariant, PTL

\* However registrations, crashes and restarts interleave, a frame of a boot
\* that was fenced when it arrived never reaches the engine; without a repository
\* a boot is fenced for as long as the coordinator that fenced it runs.
THEOREM FencedBootsStayOut == Spec => []FencedStaysOut
<1>1. IInv => FencedStaysOut
  BY DEF IInv, Fencing, FencedStaysOut
<1>2. QED
  BY <1>1, RegistryInvariant, PTL

\* With a repository a frame addressed to an earlier coordinator never passes
\* validate_binding.
THEOREM StaleFramesAreRefused == Spec => []StaleFrameRefused
<1>1. IInv => StaleFrameRefused
  BY DEF IInv, Epochs, Increasing, StaleFrameRefused
<1>2. QED
  BY <1>1, RegistryInvariant, PTL

\* A registration that no other registration of its publisher overlaps fences
\* exactly the boot it replaces, in memory and, with a repository, on disk.
THEOREM LoneRegistrationFences == Spec => ReplacementFences
<1> DEFINE A == \A t \in Threads, p \in Publishers :
         (/\ thread[t].pc = "install" /\ thread'[t].pc # "install" /\ epoch' # 0
          /\ thread[t].publisher = p /\ thread[t].alone)
           => /\ registered'[p] = thread[t].boot
              /\ <<p, thread[t].boot>> \notin fences'
              /\ registered[p] \in {NoBoot, thread[t].boot}
                   \/ /\ <<p, registered[p]>> \in fences'
                      /\ repository => <<p, registered[p]>> \in durable_fences'
<1>1. IInv /\ [Next]_vars => [A]_vars
  <2> SUFFICES ASSUME IInv, [Next]_vars, NEW t \in Threads,
                      thread[t].pc = "install", thread'[t].pc # "install", epoch' # 0,
                      thread[t].alone
               PROVE  /\ registered'[thread[t].publisher] = thread[t].boot
                      /\ <<thread[t].publisher, thread[t].boot>> \notin fences'
                      /\ \/ registered[thread[t].publisher] \in {NoBoot, thread[t].boot}
                         \/ LET fence == <<thread[t].publisher, registered[thread[t].publisher]>>
                            IN  fence \in fences' /\ (repository => fence \in durable_fences')
    OBVIOUS
  <2>a. TypeOK /\ Fencing /\ Undisturbed
    BY DEF IInv
  <2>1. thread[t] \in Handlers /\ Registering(t)
    BY <2>a, HandlerType DEF Registering
  <2>2. RegisterInstall(t)
    <3>1. CASE UNCHANGED thread
      BY <3>1
    <3>2. CASE Crash \/ Stopped
      BY <3>2 DEF Crash, Stopped, Down
    <3>3. ASSUME NEW u \in Threads, NEW p \in Publishers, NEW b \in Boots,
                 NEW r \in 1 .. Len(served), Register(u, p, b, r)
          PROVE  FALSE
      <4>1. u # t
        BY <3>3 DEF Register, Reading
      <4>2. thread'[t] \in {thread[t], [thread[t] EXCEPT !.alone = FALSE]}
        BY <3>3, <4>1 DEF Register
      <4>3. QED
        BY <2>1, <4>2 DEF Handlers
    <3>4. ASSUME NEW u \in Threads, NEW n, thread' = [thread EXCEPT ![u] = n] PROVE u = t
      BY <2>a, <3>4 DEF TypeOK
    <3>5. Closed.pc = "closed" /\ Reading.pc = "reading"
      BY DEF Closed, Reading
    <3>6. ASSUME NEW u \in Threads, RegisterPersist(u) PROVE FALSE
      BY <2>a, <3>6 DEF RegisterPersist, TypeOK
    <3>7. QED
      BY <3>1, <3>2, <3>3, <3>4, <3>5, <3>6
         DEF Next, Start, Stop, Accept, Disconnect, Step, Mutation, RegisterLook,
             RegisterFence, RegisterInstall, MutationLook, MutationDone, vars
  <2>3. /\ registered' = [registered EXCEPT ![thread[t].publisher] = thread[t].boot]
        /\ fences' = fences /\ durable_fences' = durable_fences
    BY <2>2 DEF RegisterInstall, Step, disk
  <2>4. Calm(t)
    BY <2>a, <2>1 DEF Undisturbed
  <2>5. registered'[thread[t].publisher] = thread[t].boot
    BY <2>a, <2>1, <2>3 DEF TypeOK, Handlers
  <2>6. <<thread[t].publisher, thread[t].boot>> \notin fences'
    BY <2>3, <2>4 DEF Calm, Key
  <2>7. CASE registered[thread[t].publisher] \in {NoBoot, thread[t].boot}
    BY <2>5, <2>6, <2>7
  <2>8. CASE /\ thread[t].replaced = registered[thread[t].publisher]
             /\ thread[t].replaced # NoBoot
    BY <2>a, <2>3, <2>5, <2>6, <2>8 DEF Fencing, Stored
  <2>9. QED
    BY <2>4, <2>7, <2>8 DEF Calm
<1>2. QED
  BY <1>1, RegistryInvariant, PTL DEF Spec, ReplacementFences
===============================================================================
