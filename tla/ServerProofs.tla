---------------------------- MODULE ServerProofs ----------------------------
(***************************************************************************)
(* Server preserves IInv of ServerProperties, for every number of clients, *)
(* descriptors, pool threads and tasks; its safety properties and the      *)
(* refinement of ConnectionLifecycle follow.                               *)
(*                                                                         *)
(* A frame lemma per group of variables names the actions that may change  *)
(* it, so that a conjunct of IInv is proved for the actions that can       *)
(* disturb it and no others.                                               *)
(***************************************************************************)
EXTENDS ServerProperties, FiniteSetTheorems, SequenceTheorems, TLAPS

-----------------------------------------------------------------------------
(* Frames.                                                                 *)

\* The actions that may change a connection object; every other step leaves all
\* of them alone.
LEMMA HeapFrame ==
    ASSUME [Next]_vars
    PROVE  \/ UNCHANGED heapVars
           \/ \E c \in Conns : Connect(c)
           \/ \E c \in Conns, f \in Fds : Accept(c, f)
           \/ HoldNew
           \/ ErrorEvent
           \/ HoldData
           \/ \E t \in Threads : SetShutdown(t) \/ Exclude(t) \/ Close(t)
           \/ \E t \in Workers : CallbackReturns(t)
<1>1. ASSUME NEW t \in Threads, ThreadNext(t)
      PROVE  \/ UNCHANGED heapVars
             \/ \E c \in Conns, f \in Fds : Accept(c, f)
             \/ HoldNew
             \/ ErrorEvent
             \/ HoldData
             \/ SetShutdown(t)
             \/ Exclude(t)
             \/ Close(t)
             \/ t \in Workers /\ CallbackReturns(t)
  <2>1. CASE ListenerNext
    BY <2>1
    DEF ListenerNext, EpollWait, ListenerReturns, RoundEnds, AcceptFails,
        Register, EpollAdd, EpollAddFails, LookupNothing, LookupConnection,
        Hup, RecheckGone, RecheckFound, heapVars
  <2>2. CASE ReaperNext
    BY <2>2
    DEF ReaperNext, ReaperWakes, ReaperLocks, Keep, Reap, JudgeShutdown,
        ReaperAdvances, JudgeIdle, ReaperNotified, ReaperUnlocks, heapVars
  <2>3. CASE t \in Workers /\ WorkerNext(t)
    BY <2>3
    DEF WorkerNext, TakeTask, Acquire, Receive, DeferShutdown, StopServer,
        TerminatedReturns, heapVars
  <2>4. CASE ShutdownNext(t)
    BY <2>4
    DEF ShutdownNext, SearchFinds, SearchMisses, Dequeue, heapVars
  <2>5. CASE FaultNext(t)
    BY <2>5
    DEF FaultNext, UseAfterFree, MapRace, EraseCrash, ReaperMeetsDeleted,
        ReaperMeetsNull, Fault, heapVars
  <2> QED BY <1>1, <2>1, <2>2, <2>3, <2>4, <2>5 DEF ThreadNext
<1>2. CASE PeerNext
  BY <1>2
  DEF PeerNext, PeerSend, PeerClose, SocketError, program, heapVars
<1>3. CASE UNCHANGED vars
  BY <1>3 DEF vars, heapVars
<1> QED BY <1>1, <1>2, <1>3 DEF Next

\* The actions that may change connections_, its lock, running_ or the counter.
LEMMA RegistryFrame ==
    ASSUME [Next]_vars
    PROVE  \/ UNCHANGED serverVars
           \/ Register
           \/ \E f \in Fds : LookupNothing(f)
           \/ RecheckGone
           \/ RecheckFound
           \/ HoldData
           \/ ReaperLocks
           \/ \E f \in Fds : Reap(f)
           \/ ReaperUnlocks
           \/ \E t \in Threads : Dequeue(t)
           \/ \E t \in Workers : Acquire(t) \/ StopServer(t) \/ CallbackReturns(t)
<1>1. ASSUME NEW t \in Threads, ThreadNext(t)
      PROVE  \/ UNCHANGED serverVars
             \/ Register
             \/ \E f \in Fds : LookupNothing(f)
             \/ RecheckGone
             \/ RecheckFound
             \/ HoldData
             \/ ReaperLocks
             \/ \E f \in Fds : Reap(f)
             \/ ReaperUnlocks
             \/ Dequeue(t)
             \/ t \in Workers /\ Acquire(t)
             \/ t \in Workers /\ StopServer(t)
             \/ t \in Workers /\ CallbackReturns(t)
  <2>1. CASE ListenerNext
    BY <2>1
    DEF ListenerNext, EpollWait, ListenerReturns, RoundEnds, AcceptFails,
        Accept, EpollAdd, EpollAddFails, HoldNew, LookupConnection, Hup,
        ErrorEvent, serverVars
  <2>2. CASE ReaperNext
    BY <2>2
    DEF ReaperNext, ReaperWakes, Keep, JudgeShutdown, ReaperAdvances,
        JudgeIdle, ReaperNotified, serverVars
  <2>3. CASE t \in Workers /\ WorkerNext(t)
    BY <2>3
    DEF WorkerNext, TakeTask, Receive, DeferShutdown, TerminatedReturns,
        serverVars
  <2>4. CASE ShutdownNext(t)
    BY <2>4
    DEF ShutdownNext, SetShutdown, SearchFinds, SearchMisses, Exclude, Close,
        serverVars
  <2>5. CASE FaultNext(t)
    BY <2>5
    DEF FaultNext, UseAfterFree, MapRace, EraseCrash, ReaperMeetsDeleted,
        ReaperMeetsNull, Fault, serverVars
  <2> QED BY <1>1, <2>1, <2>2, <2>3, <2>4, <2>5 DEF ThreadNext
<1>2. CASE PeerNext
  BY <1>2
  DEF PeerNext, Connect, PeerSend, PeerClose, SocketError, program, serverVars
<1>3. CASE UNCHANGED vars
  BY <1>3 DEF vars, serverVars
<1> QED BY <1>1, <1>2, <1>3 DEF Next

\* The actions that may change a socket or the epoll set.
LEMMA KernelFrame ==
    ASSUME [Next]_vars
    PROVE  \/ UNCHANGED kernelVars
           \/ \E f \in Fds : PeerSend(f)
           \/ \E f \in Fds : PeerClose(f)
           \/ \E f \in Fds : SocketError(f)
           \/ EpollWait
           \/ \E c \in Conns, f \in Fds : Accept(c, f)
           \/ EpollAdd
           \/ \E f \in Fds : Reap(f)
           \/ \E t \in Threads : Dequeue(t) \/ Close(t)
           \/ \E t \in Workers : Receive(t)
<1>1. ASSUME NEW t \in Threads, ThreadNext(t)
      PROVE  \/ UNCHANGED kernelVars
             \/ EpollWait
             \/ \E c \in Conns, f \in Fds : Accept(c, f)
             \/ EpollAdd
             \/ \E f \in Fds : Reap(f)
             \/ Dequeue(t)
             \/ Close(t)
             \/ t \in Workers /\ Receive(t)
  <2>1. CASE ListenerNext
    BY <2>1
    DEF ListenerNext, ListenerReturns, RoundEnds, AcceptFails, Register,
        EpollAddFails, HoldNew, LookupNothing, LookupConnection, Hup,
        ErrorEvent, RecheckGone, RecheckFound, HoldData, kernelVars
  <2>2. CASE ReaperNext
    BY <2>2
    DEF ReaperNext, ReaperWakes, ReaperLocks, Keep, JudgeShutdown,
        ReaperAdvances, JudgeIdle, ReaperNotified, ReaperUnlocks, kernelVars
  <2>3. CASE t \in Workers /\ WorkerNext(t)
    BY <2>3
    DEF WorkerNext, TakeTask, Acquire, DeferShutdown, StopServer,
        CallbackReturns, TerminatedReturns, kernelVars
  <2>4. CASE ShutdownNext(t)
    BY <2>4
    DEF ShutdownNext, SetShutdown, SearchFinds, SearchMisses, Exclude,
        kernelVars
  <2>5. CASE FaultNext(t)
    BY <2>5
    DEF FaultNext, UseAfterFree, MapRace, EraseCrash, ReaperMeetsDeleted,
        ReaperMeetsNull, Fault, kernelVars
  <2> QED BY <1>1, <2>1, <2>2, <2>3, <2>4, <2>5 DEF ThreadNext
<1>2. CASE PeerNext
  BY <1>2
  DEF PeerNext, Connect, kernelVars
<1>3. CASE UNCHANGED vars
  BY <1>3 DEF vars, kernelVars
<1> QED BY <1>1, <1>2, <1>3 DEF Next

\* The actions that may change the closures, the queue or who runs what.
LEMMA PoolFrame ==
    ASSUME [Next]_vars
    PROVE  \/ UNCHANGED poolVars
           \/ HoldNew
           \/ Hup
           \/ ErrorEvent
           \/ HoldData
           \/ \E t \in Threads : Close(t)
           \/ \E t \in Workers : TakeTask(t)
           \/ \E t \in Workers : DeferShutdown(t)
           \/ \E t \in Workers : CallbackReturns(t)
           \/ \E t \in Workers : TerminatedReturns(t)
<1>1. ASSUME NEW t \in Threads, ThreadNext(t)
      PROVE  \/ UNCHANGED poolVars
             \/ HoldNew
             \/ Hup
             \/ ErrorEvent
             \/ HoldData
             \/ Close(t)
             \/ t \in Workers /\ TakeTask(t)
             \/ t \in Workers /\ DeferShutdown(t)
             \/ t \in Workers /\ CallbackReturns(t)
             \/ t \in Workers /\ TerminatedReturns(t)
  <2>1. CASE ListenerNext
    BY <2>1
    DEF ListenerNext, EpollWait, ListenerReturns, RoundEnds, AcceptFails,
        Accept, Register, EpollAdd, EpollAddFails, LookupNothing,
        LookupConnection, RecheckGone, RecheckFound, poolVars
  <2>2. CASE ReaperNext
    BY <2>2
    DEF ReaperNext, ReaperWakes, ReaperLocks, Keep, Reap, JudgeShutdown,
        ReaperAdvances, JudgeIdle, ReaperNotified, ReaperUnlocks, poolVars
  <2>3. CASE t \in Workers /\ WorkerNext(t)
    BY <2>3
    DEF WorkerNext, Acquire, Receive, StopServer, poolVars
  <2>4. CASE ShutdownNext(t)
    BY <2>4
    DEF ShutdownNext, SetShutdown, SearchFinds, SearchMisses, Dequeue, Exclude,
        poolVars
  <2>5. CASE FaultNext(t)
    BY <2>5
    DEF FaultNext, UseAfterFree, MapRace, EraseCrash, ReaperMeetsDeleted,
        ReaperMeetsNull, Fault, poolVars
  <2> QED BY <1>1, <2>1, <2>2, <2>3, <2>4, <2>5 DEF ThreadNext
<1>2. CASE PeerNext
  BY <1>2
  DEF PeerNext, Connect, PeerSend, PeerClose, SocketError, program, poolVars
<1>3. CASE UNCHANGED vars
  BY <1>3 DEF vars, poolVars
<1> QED BY <1>1, <1>2, <1>3 DEF Next

-----------------------------------------------------------------------------
(* Types.                                                                  *)

\* Add() takes a task that was not in use.
LEMMA NewTaskUnused ==
    ASSUME \E t \in Tasks : task[t] = Unused
    PROVE  NewTask \in Tasks /\ task[NewTask] = Unused
BY DEF NewTask

\* ReadLock() and Add() leave objects and locks well typed.
LEMMA HoldTypes ==
    ASSUME HeapOK, NEW k, NEW c \in Conns, HoldAndAdd(k, c),
           UNCHANGED <<obj, isShutdown, socket>>
    PROVE  HeapOK'
BY NewTaskUnused
DEF HeapOK, HoldAndAdd, Add, ReadLocked, CanReadLock, Mutexes

\* Every step leaves the connection objects well typed.
LEMMA HeapStep == ASSUME IInv, [Next]_vars PROVE HeapOK'
<1> USE DEF HeapOK
<1>0. HeapOK /\ Listener \in Threads BY DEF IInv, TypeOK, Threads
<1>1. CASE UNCHANGED heapVars BY <1>0, <1>1 DEF heapVars
<1>2. ASSUME NEW c \in Conns, Connect(c) PROVE HeapOK'
  BY <1>0, <1>2 DEF Connect
<1>3. ASSUME NEW c \in Conns, NEW f \in Fds, Accept(c, f) PROVE HeapOK'
  BY <1>0, <1>3 DEF Accept
<1>4. CASE HoldNew \/ ErrorEvent \/ HoldData
  <2>1. cur[Listener] \in Conns
    BY <1>0, <1>4 DEF HoldNew, ErrorEvent, HoldData, IInv, PointersOK, Created,
                      WithoutConnection
  <2> QED BY <1>0, <1>4, <2>1, HoldTypes DEF HoldNew, ErrorEvent, HoldData
<1>5. ASSUME NEW t \in Threads, SetShutdown(t) \/ Exclude(t) \/ Close(t)
      PROVE  HeapOK'
  <2>1. CASE SetShutdown(t) BY <1>0, <2>1 DEF SetShutdown
  <2>2. CASE Exclude(t)
    <3>1. Locked(t) \in Mutexes(Threads, Tasks) BY DEF Locked, Mutexes
    <3> QED BY <1>0, <2>2, <3>1 DEF Exclude
  <2>3. CASE Close(t)
    <3>1. Free \in Mutexes(Threads, Tasks) BY DEF Free, Mutexes
    <3> QED BY <1>0, <2>3, <3>1 DEF Close
  <2> QED BY <1>5, <2>1, <2>2, <2>3
<1>6. ASSUME NEW w \in Workers, CallbackReturns(w) PROVE HeapOK'
  BY <1>0, <1>6 DEF CallbackReturns, ReadUnlocked, Mutexes
<1> QED BY HeapFrame, <1>1, <1>2, <1>3, <1>4, <1>5, <1>6

\* Every step leaves the server object well typed.
LEMMA RegistryStep == ASSUME IInv, [Next]_vars PROVE RegistryOK'
<1> USE DEF RegistryOK, Mutexes
<1>0. /\ RegistryOK /\ Listener \in Threads /\ Reaper \in Threads
      /\ cur \in [Threads -> Conns \cup {None}]
  BY DEF IInv, TypeOK, ThreadsOK, Threads
<1>1. CASE UNCHANGED serverVars BY <1>0, <1>1 DEF serverVars
<1>2. CASE Register
  <2>1. cur[Listener] \in Conns
    BY <1>0, <1>2 DEF Register, IInv, PointersOK, Created, WithoutConnection
  <2> QED BY <1>0, <1>2, <2>1 DEF Register
<1>3. ASSUME NEW f \in Fds, LookupNothing(f) PROVE RegistryOK'
  BY <1>0, <1>3 DEF LookupNothing
<1>4. CASE RecheckGone \/ RecheckFound \/ HoldData \/ ReaperLocks \/ ReaperUnlocks
  BY <1>0, <1>4 DEF RecheckGone, RecheckFound, HoldData, ReaperLocks,
                    ReaperUnlocks, Locked, Free
<1>5. ASSUME NEW t \in Threads, Dequeue(t) PROVE RegistryOK'
  BY <1>0, <1>5 DEF Dequeue, Erase
<1>6. ASSUME NEW f \in Fds, Reap(f) PROVE RegistryOK'
  BY <1>0, <1>6 DEF Reap, Erase
<1>7. ASSUME NEW w \in Workers, Acquire(w) \/ StopServer(w) \/ CallbackReturns(w)
      PROVE  RegistryOK'
  <2>1. /\ ReadLocked(poolLock, w) \in Mutexes(Threads, Workers)
        /\ ReadUnlocked(poolLock, w) \in Mutexes(Threads, Workers)
    BY <1>0 DEF ReadLocked, ReadUnlocked
  <2> QED BY <1>0, <1>7, <2>1 DEF Acquire, StopServer, CallbackReturns
<1> QED BY RegistryFrame, <1>1, <1>2, <1>3, <1>4, <1>5, <1>6, <1>7

\* Every step leaves sockets and the epoll set well typed.
LEMMA KernelStep == ASSUME IInv, [Next]_vars PROVE KernelOK'
<1> USE DEF KernelOK, Socket
<1>0. KernelOK BY DEF IInv, TypeOK
<1>1. CASE UNCHANGED kernelVars BY <1>0, <1>1 DEF kernelVars
<1>2. ASSUME NEW f \in Fds, PeerSend(f) PROVE KernelOK'
  <2>1. sends' \in [Conns -> 0 .. MaxSends]
    BY <1>0, <1>2, ServerAssumption DEF PeerSend
  <2> QED BY <1>0, <1>2, <2>1 DEF PeerSend, SocketChange
<1>3. ASSUME NEW f \in Fds, PeerClose(f) \/ SocketError(f) PROVE KernelOK'
  BY <1>0, <1>3 DEF PeerClose, SocketError, SocketChange
<1>4. CASE EpollWait
  BY <1>0, <1>4 DEF EpollWait
<1>5. ASSUME NEW c \in Conns, NEW f \in Fds, Accept(c, f) PROVE KernelOK'
  BY <1>0, <1>5 DEF Accept
<1>6. CASE EpollAdd
  <2>1. socket[cur[Listener]] \in Fds
    BY <1>6 DEF EpollAdd, IInv, PointersOK, Created, WithoutConnection, Threads
  <2> QED BY <1>0, <1>6, <2>1 DEF EpollAdd
<1>7. ASSUME NEW t \in Threads, Dequeue(t) PROVE KernelOK'
  BY <1>0, <1>7 DEF Dequeue, Erase, Unwatch
<1>8. ASSUME NEW t \in Threads, Close(t) PROVE KernelOK'
  BY <1>0, <1>8 DEF Close, Unwatch, Closed
<1>9. ASSUME NEW f \in Fds, Reap(f) PROVE KernelOK'
  BY <1>0, <1>9 DEF Reap, Erase, Unwatch
<1>10. ASSUME NEW w \in Workers, Receive(w) PROVE KernelOK'
  BY <1>0, <1>10 DEF Receive
<1> QED BY KernelFrame, <1>1, <1>2, <1>3, <1>4, <1>5, <1>6, <1>7, <1>8, <1>9, <1>10

\* Add() leaves the pool well typed.
LEMMA AddTypes ==
    ASSUME TasksOK, NEW k \in Locking \cup {"Terminated", "Shutdown"},
           NEW c \in Conns, Add(k, c)
    PROVE  task' \in [Tasks -> Closure \cup {Unused}] /\ queue' \in Seq(Tasks)
BY NewTaskUnused DEF TasksOK, Add, Closure

\* Every step leaves the pool well typed.
LEMMA TasksStep == ASSUME IInv, [Next]_vars PROVE TasksOK'
<1> USE DEF TasksOK
<1>0. TasksOK /\ Listener \in Threads /\ Workers \subseteq Threads
  BY DEF IInv, TypeOK, Threads
<1>1. CASE UNCHANGED poolVars BY <1>0, <1>1 DEF poolVars
<1>2. CASE HoldNew \/ ErrorEvent \/ HoldData \/ Hup
  <2>1. cur[Listener] \in Conns
    BY <1>0, <1>2 DEF HoldNew, ErrorEvent, HoldData, Hup, IInv, PointersOK,
                      Created, WithoutConnection
  <2>2. /\ \E k \in Locking \cup {"Terminated", "Shutdown"} : Add(k, cur[Listener])
        /\ UNCHANGED job
    BY <1>2 DEF HoldNew, ErrorEvent, HoldData, Hup, HoldAndAdd, Locking
  <2> QED BY <1>0, <2>1, <2>2, AddTypes
<1>3. ASSUME NEW w \in Workers, TakeTask(w) PROVE TasksOK'
  <2>1. Head(queue) \in Tasks /\ Tail(queue) \in Seq(Tasks)
    BY <1>0, <1>3 DEF TakeTask
  <2> QED BY <1>0, <1>3, <2>1 DEF TakeTask
<1>4. ASSUME NEW w \in Workers, DeferShutdown(w) PROVE TasksOK'
  <2>1. cur[w] \in Conns
    BY <1>0, <1>4 DEF DeferShutdown, IInv, PointersOK, Created, WithoutConnection
  <2> QED BY <1>0, <1>4, <2>1, AddTypes DEF DeferShutdown
<1>5. ASSUME NEW w \in Workers, CallbackReturns(w) \/ TerminatedReturns(w)
      PROVE  TasksOK'
  BY <1>0, <1>5 DEF CallbackReturns, TerminatedReturns
<1>6. ASSUME NEW t \in Threads, Close(t) PROVE TasksOK'
  BY <1>0, <1>6 DEF Close
<1> QED BY PoolFrame, <1>1, <1>2, <1>3, <1>4, <1>5, <1>6

\* epoll_wait() has finitely many events to choose from, all well typed: what it
\* stores in the array is a sequence of events.
LEMMA AvailableEvents ==
    ASSUME KernelOK
    PROVE  Available \subseteq Event /\ IsFiniteSet(Available)
<1> DEFINE reported == {f \in ready : Mask(sock[f]) # {}}
           clients == {[fd |-> f, mask |-> Mask(sock[f])] : f \in reported}
           listening == [fd : {ServerFd}, mask : IF \E c \in Conns : obj[c] = "connecting"
                                                 THEN {{"IN"}} ELSE {}]
<1>1. clients \subseteq Event BY DEF KernelOK, Mask, Event
<1>2. listening \subseteq Event BY DEF Event
<1>3. IsFiniteSet(clients)
  <2> DEFINE g == [f \in reported |-> [fd |-> f, mask |-> Mask(sock[f])]]
  <2>1. reported \subseteq Fds BY DEF KernelOK
  <2>2. IsFiniteSet(reported) BY <2>1, ServerAssumption, FS_Subset
  <2>3. g \in Surjection(reported, clients) BY DEF Surjection
  <2> QED BY <2>2, <2>3, FS_Surjection
<1>4. IsFiniteSet(listening)
  <2>1. listening \in SUBSET {[fd |-> ServerFd, mask |-> {"IN"}]} OBVIOUS
  <2>2. IsFiniteSet({[fd |-> ServerFd, mask |-> {"IN"}]}) BY FS_Singleton
  <2> QED BY ONLY <2>1, <2>2, FS_Subset
<1>5. Available = listening \cup clients BY DEF Available
<1> HIDE DEF clients, listening
<1> QED BY <1>1, <1>2, <1>3, <1>4, <1>5, FS_Union

\* A thread that goes to a label of its own leaves the labels well typed.
LEMMA GotoLabels ==
    ASSUME ThreadsOK, NEW t \in Threads, NEW l \in Labels(t), Goto(t, l)
    PROVE  /\ pc' \in [Threads -> ShutdownSteps \cup ListenerSteps \cup ReaperSteps
                                    \cup WorkerSteps]
           /\ \A u \in Threads : pc'[u] \in Labels(u)
<1>1. l \in ShutdownSteps \cup ListenerSteps \cup ReaperSteps \cup WorkerSteps
  BY DEF Labels
<1> QED BY <1>1 DEF ThreadsOK, Goto

\* Every step of the listener leaves the locals of the threads well typed.
LEMMA ListenerTypes ==
    ASSUME IInv, ListenerNext, UNCHANGED fault
    PROVE  ThreadsOK'
<1>0. /\ ThreadsOK /\ Listener \in Threads
      /\ Labels(Listener) = ListenerSteps \cup ShutdownSteps
  BY DEF IInv, TypeOK, Threads, Labels
<1>1. ASSUME NEW l \in Labels(Listener), Goto(Listener, l)
      PROVE  /\ pc' \in [Threads -> ShutdownSteps \cup ListenerSteps \cup ReaperSteps
                                      \cup WorkerSteps]
             /\ \A u \in Threads : pc'[u] \in Labels(u)
  BY <1>0, <1>1, GotoLabels
<1>2. CASE EpollWait
  <2> DEFINE n == Cardinality(Available)
             k == IF n < Cardinality(Workers) THEN n ELSE Cardinality(Workers)
  <2>1. n \in Nat /\ Cardinality(Workers) \in Nat /\ Available \subseteq Event
    BY AvailableEvents, FS_CardinalityType, ServerAssumption DEF IInv, TypeOK
  <2>2. events' \in Seq(Event)
    <3>1. k \in Nat /\ events' \in [1 .. k -> Available]
      BY <1>2, <2>1 DEF EpollWait
    <3> HIDE DEF k
    <3>2. events' \in [1 .. k -> Event] BY <2>1, <3>1
    <3> QED BY <3>1, <3>2, SeqDef
  <2>3. Goto(Listener, "dispatch") /\ UNCHANGED <<cur, entry, todo>>
    BY <1>2 DEF EpollWait
  <2> QED BY <1>0, <1>1, <2>2, <2>3 DEF ThreadsOK, ListenerSteps
<1>3. CASE ListenerReturns \/ RoundEnds
  <2>1. Goto(Listener, "epoll_wait") \/ Goto(Listener, "stopped")
    BY <1>3 DEF ListenerReturns, RoundEnds
  <2>2. UNCHANGED localVars BY <1>3 DEF ListenerReturns, RoundEnds
  <2> QED BY <1>0, <1>1, <2>1, <2>2 DEF ThreadsOK, ListenerSteps, localVars
<1>4. CASE AcceptFails \/ \E f \in Fds : LookupNothing(f)
  <2>1. /\ events # <<>> /\ events' = Tail(events)
        /\ UNCHANGED <<pc, cur, entry, todo>>
    BY <1>4 DEF AcceptFails, LookupNothing, NextEventIs
  <2>2. events' \in Seq(Event)
    BY <1>0, <2>1 DEF ThreadsOK
  <2> QED BY <1>0, <2>1, <2>2 DEF ThreadsOK
<1>5. ASSUME NEW c \in Conns, NEW f \in Fds, Accept(c, f) PROVE ThreadsOK'
  <2>1. /\ events' \in Seq(Event) /\ Goto(Listener, "register")
        /\ cur' = [cur EXCEPT ![Listener] = c] /\ UNCHANGED <<entry, todo>>
    BY <1>0, <1>5 DEF Accept, NextEventIs, ThreadsOK
  <2> QED BY <1>0, <1>1, <2>1 DEF ThreadsOK, ListenerSteps
<1>6. CASE Register
  <2>1. Goto(Listener, "epoll_add") /\ events' = <<>> /\ UNCHANGED <<cur, entry, todo>>
    BY <1>6 DEF Register
  <2> QED BY <1>0, <1>1, <2>1 DEF ThreadsOK, ListenerSteps
<1>7. CASE EpollAdd \/ RecheckFound
  <2>1. Goto(Listener, "hold_new") \/ Goto(Listener, "hold_data")
    BY <1>7 DEF EpollAdd, RecheckFound
  <2>2. UNCHANGED localVars BY <1>7 DEF EpollAdd, RecheckFound
  <2> QED BY <1>0, <1>1, <2>1, <2>2 DEF ThreadsOK, ListenerSteps, localVars
<1>8. CASE EpollAddFails \/ HoldNew \/ ErrorEvent \/ RecheckGone \/ HoldData
  <2>1. /\ Goto(Listener, "dispatch")
        /\ cur' = [cur EXCEPT ![Listener] = None] /\ UNCHANGED <<events, todo>>
        /\ entry' = [entry EXCEPT ![Listener] = None] \/ UNCHANGED entry
    BY <1>8 DEF EpollAddFails, HoldNew, ErrorEvent, RecheckGone, HoldData
  <2> QED BY <1>0, <1>1, <2>1 DEF ThreadsOK, ListenerSteps
<1>9. ASSUME NEW f \in Fds, LookupConnection(f) PROVE ThreadsOK'
  <2>1. /\ \E l \in {"hup", "error", "recheck"} : Goto(Listener, l)
        /\ events' \in Seq(Event)
        /\ connections[f] \in Conns /\ cur' = [cur EXCEPT ![Listener] = connections[f]]
        /\ entry' = [entry EXCEPT ![Listener] = f] /\ UNCHANGED todo
    BY <1>0, <1>9 DEF LookupConnection, NextEventIs, ThreadsOK
  <2> QED BY <1>0, <1>1, <2>1 DEF ThreadsOK, ListenerSteps
<1>10. CASE Hup
  <2>1. /\ Goto(Listener, "flag") /\ UNCHANGED <<cur, events, todo>>
        /\ entry' = [entry EXCEPT ![Listener] = None]
    BY <1>10 DEF Hup
  <2> QED BY <1>0, <1>1, <2>1 DEF ThreadsOK, ShutdownSteps
<1> QED BY <1>2, <1>3, <1>4, <1>5, <1>6, <1>7, <1>8, <1>9, <1>10 DEF ListenerNext

\* Every step of Shutdown() leaves the locals of the threads well typed.
LEMMA ShutdownTypes ==
    ASSUME IInv, NEW t \in Threads, ShutdownNext(t), UNCHANGED fault
    PROVE  ThreadsOK'
<1>0. ThreadsOK /\ ShutdownSteps \subseteq Labels(t)
  BY DEF IInv, TypeOK, Labels
<1>1. ASSUME NEW l \in Labels(t), Goto(t, l)
      PROVE  /\ pc' \in [Threads -> ShutdownSteps \cup ListenerSteps \cup ReaperSteps
                                      \cup WorkerSteps]
             /\ \A u \in Threads : pc'[u] \in Labels(u)
  BY <1>0, <1>1, GotoLabels
<1>2. CASE SetShutdown(t) \/ SearchMisses(t) \/ Exclude(t)
  <2>1. /\ \E l \in ShutdownSteps : Goto(t, l)
        /\ UNCHANGED localVars
    BY <1>2 DEF SetShutdown, SearchMisses, Exclude, ShutdownSteps
  <2> QED BY <1>0, <1>1, <2>1 DEF ThreadsOK, localVars
<1>3. ASSUME NEW f \in Fds, SearchFinds(t, f) PROVE ThreadsOK'
  <2>1. /\ \E l \in ShutdownSteps : Goto(t, l)
        /\ entry' = [entry EXCEPT ![t] = f] /\ UNCHANGED <<cur, events, todo>>
    BY <1>3 DEF SearchFinds, ShutdownSteps
  <2> QED BY <1>0, <1>1, <2>1 DEF ThreadsOK
<1>4. CASE Dequeue(t)
  <2>1. /\ \E l \in ShutdownSteps : Goto(t, l)
        /\ entry' = [entry EXCEPT ![t] = None] /\ UNCHANGED <<cur, events, todo>>
    BY <1>4 DEF Dequeue, ShutdownSteps
  <2> QED BY <1>0, <1>1, <2>1 DEF ThreadsOK
<1>5. CASE Close(t)
  <2>1. /\ \E l \in Labels(t) : Goto(t, l)
        /\ cur' = [cur EXCEPT ![t] = None] \/ UNCHANGED cur
        /\ UNCHANGED <<entry, events, todo>>
    BY <1>5, ServerAssumption
    DEF Close, Labels, ListenerSteps, ReaperSteps, WorkerSteps
  <2> QED BY <1>0, <1>1, <2>1 DEF ThreadsOK
<1> QED BY <1>2, <1>3, <1>4, <1>5 DEF ShutdownNext

\* Every step of the reaper leaves the locals of the threads well typed.
LEMMA ReaperTypes ==
    ASSUME IInv, ReaperNext, UNCHANGED fault
    PROVE  ThreadsOK'
<1>0. /\ ThreadsOK /\ Reaper \in Threads
      /\ Labels(Reaper) = ReaperSteps \cup ShutdownSteps
      /\ connections \in [Fds -> Conns \cup {Absent, Null}]
  BY ServerAssumption DEF IInv, TypeOK, RegistryOK, Threads, Labels
<1>1. ASSUME NEW l \in Labels(Reaper), Goto(Reaper, l)
      PROVE  /\ pc' \in [Threads -> ShutdownSteps \cup ListenerSteps \cup ReaperSteps
                                      \cup WorkerSteps]
             /\ \A u \in Threads : pc'[u] \in Labels(u)
  BY <1>0, <1>1, GotoLabels
<1>2. CASE ReaperWakes \/ ReaperUnlocks \/ JudgeIdle
  <2>1. /\ \E l \in {"lock", "sleep", "stopped", "flag"} : Goto(Reaper, l)
        /\ UNCHANGED localVars
    BY <1>2 DEF ReaperWakes, ReaperUnlocks, JudgeIdle
  <2> QED BY <1>0, <1>1, <2>1 DEF ThreadsOK, ReaperSteps, ShutdownSteps, localVars
<1>3. CASE ReaperLocks
  <2>1. Goto(Reaper, "scan") /\ todo' \subseteq Fds /\ UNCHANGED <<cur, entry, events>>
    BY <1>3 DEF ReaperLocks
  <2> QED BY <1>0, <1>1, <2>1 DEF ThreadsOK, ReaperSteps
<1>4. ASSUME NEW f \in Fds, Keep(f) PROVE ThreadsOK'
  <2>1. todo' \subseteq todo /\ UNCHANGED <<pc, cur, entry, events>>
    BY <1>4 DEF Keep
  <2> QED BY <1>0, <2>1 DEF ThreadsOK
<1>5. ASSUME NEW f \in Fds, Reap(f) PROVE ThreadsOK'
  <2>1. /\ Goto(Reaper, "judge") /\ todo' \subseteq todo /\ connections[f] \in Conns
        /\ cur' = [cur EXCEPT ![Reaper] = connections[f]] /\ UNCHANGED <<entry, events>>
    BY <1>5 DEF Reap
  <2> QED BY <1>0, <1>1, <2>1 DEF ThreadsOK, ReaperSteps
<1>6. CASE JudgeShutdown \/ ReaperNotified
  <2>1. /\ Goto(Reaper, "scan") /\ cur' = [cur EXCEPT ![Reaper] = None]
        /\ todo' = todo \/ todo' \subseteq Fds
        /\ UNCHANGED <<entry, events>>
    BY <1>6 DEF JudgeShutdown, ReaperNotified, ReaperAdvances
  <2> QED BY <1>0, <1>1, <2>1 DEF ThreadsOK, ReaperSteps
<1> QED BY <1>2, <1>3, <1>4, <1>5, <1>6 DEF ReaperNext

\* Every step of a pool thread leaves the locals of the threads well typed.
LEMMA WorkerTypes ==
    ASSUME IInv, NEW w \in Workers, WorkerNext(w), UNCHANGED fault
    PROVE  ThreadsOK'
<1>0. /\ ThreadsOK /\ w \in Threads
      /\ Labels(w) = WorkerSteps \cup ShutdownSteps
  BY ServerAssumption DEF IInv, TypeOK, Threads, Labels
<1>1. ASSUME NEW l \in Labels(w), Goto(w, l)
      PROVE  /\ pc' \in [Threads -> ShutdownSteps \cup ListenerSteps \cup ReaperSteps
                                      \cup WorkerSteps]
             /\ \A u \in Threads : pc'[u] \in Labels(u)
  BY <1>0, <1>1, GotoLabels
<1>2. CASE TakeTask(w)
  <2>1. /\ \E l \in Labels(w) : Goto(w, l)
        /\ cur' = [cur EXCEPT ![w] = task[Head(queue)].conn]
        /\ UNCHANGED <<entry, events, todo>>
    BY <1>0, <1>2 DEF TakeTask, FirstStep, WorkerSteps, ShutdownSteps
  <2>2. task[Head(queue)].conn \in Conns \cup {None}
    <3>1. Head(queue) \in Tasks BY <1>2 DEF TakeTask, IInv, TypeOK, TasksOK
    <3> QED BY <3>1 DEF IInv, TypeOK, TasksOK, Closure, Unused
  <2> QED BY <1>0, <1>1, <2>1, <2>2 DEF ThreadsOK
<1>3. CASE Acquire(w) \/ Receive(w) \/ DeferShutdown(w) \/ StopServer(w)
  <2>1. /\ \E l \in WorkerSteps : Goto(w, l)
        /\ UNCHANGED localVars
    BY <1>3 DEF Acquire, Receive, DeferShutdown, StopServer, WorkerSteps
  <2> QED BY <1>0, <1>1, <2>1 DEF ThreadsOK, localVars
<1>4. CASE CallbackReturns(w) \/ TerminatedReturns(w)
  <2>1. /\ \E l \in WorkerSteps : Goto(w, l)
        /\ cur' = [cur EXCEPT ![w] = None] /\ UNCHANGED <<entry, events, todo>>
    BY <1>4 DEF CallbackReturns, TerminatedReturns, WorkerSteps
  <2> QED BY <1>0, <1>1, <2>1 DEF ThreadsOK
<1> QED BY <1>2, <1>3, <1>4 DEF WorkerNext

\* Every step leaves the locals of the threads well typed.
LEMMA ThreadsStep == ASSUME IInv, [Next]_vars PROVE ThreadsOK'
<1>1. ASSUME NEW t \in Threads, FaultNext(t) PROVE ThreadsOK'
  <2>1. /\ fault' \in {"useAfterFree", "nullPointer", "mapRace", "erasedIterator"}
        /\ UNCHANGED <<pc, localVars>>
    BY <1>1 DEF FaultNext, UseAfterFree, MapRace, EraseCrash, ReaperMeetsDeleted,
                ReaperMeetsNull, Fault
  <2> QED BY <2>1 DEF IInv, TypeOK, ThreadsOK, localVars
<1>2. CASE PeerNext /\ UNCHANGED fault
  <2>1. UNCHANGED <<pc, localVars, fault>>
    BY <1>2 DEF PeerNext, Connect, PeerSend, PeerClose, SocketError, program
  <2> QED BY <2>1 DEF IInv, TypeOK, ThreadsOK, localVars
<1>3. CASE UNCHANGED vars
  BY <1>3 DEF IInv, TypeOK, ThreadsOK, vars, localVars
<1> QED BY <1>1, <1>2, <1>3, ListenerTypes, ShutdownTypes, ReaperTypes, WorkerTypes
        DEF Next, ThreadNext

-----------------------------------------------------------------------------
(* Pointers.                                                               *)

\* A step of one thread leaves the label and the locals of the others alone.
LEMMA OthersStay ==
    ASSUME IInv, NEW t \in Threads, ThreadNext(t), NEW u \in Threads, u # t
    PROVE  /\ pc'[u] = pc[u] /\ cur'[u] = cur[u] /\ entry'[u] = entry[u]
           /\ u \in Workers => job'[u] = job[u]
<1> USE DEF Goto, localVars, poolVars
<1>0. ThreadsOK /\ TasksOK /\ Listener \in Threads /\ Reaper \in Threads
  BY DEF IInv, TypeOK, Threads
<1> USE DEF ThreadsOK, TasksOK
<1>1. CASE t = Listener /\ ListenerNext
  BY <1>0, <1>1
  DEF ListenerNext, EpollWait, ListenerReturns, RoundEnds, AcceptFails, Accept,
      Register, EpollAdd, EpollAddFails, HoldNew, LookupNothing, LookupConnection,
      Hup, ErrorEvent, RecheckGone, RecheckFound, HoldData
<1>2. CASE t = Reaper /\ ReaperNext
  BY <1>0, <1>2
  DEF ReaperNext, ReaperWakes, ReaperLocks, Keep, Reap, JudgeShutdown, JudgeIdle,
      ReaperNotified, ReaperAdvances, ReaperUnlocks
<1>3. CASE t \in Workers /\ WorkerNext(t)
  BY <1>0, <1>3
  DEF WorkerNext, TakeTask, Acquire, Receive, DeferShutdown, StopServer,
      CallbackReturns, TerminatedReturns
<1>4. CASE ShutdownNext(t)
  BY <1>0, <1>4
  DEF ShutdownNext, SetShutdown, SearchFinds, SearchMisses, Dequeue, Exclude, Close
<1>5. CASE FaultNext(t)
  BY <1>5 DEF FaultNext, UseAfterFree, MapRace, EraseCrash, ReaperMeetsDeleted,
              ReaperMeetsNull, Fault
<1> QED BY <1>1, <1>2, <1>3, <1>4, <1>5 DEF ThreadNext

\* Peers and undefined behaviour leave the program alone, but for a connection
\* that enters the backlog.
LEMMA ProgramStays ==
    ASSUME PeerNext \/ (\E t \in Threads : FaultNext(t)) \/ UNCHANGED vars
    PROVE  /\ UNCHANGED <<isShutdown, socket, connLock, serverVars, poolVars, pc,
                          localVars>>
           /\ UNCHANGED obj \/ \E c \in Conns : obj[c] = "none"
                                /\ obj' = [obj EXCEPT ![c] = "connecting"]
<1>1. CASE PeerNext
  BY <1>1 DEF PeerNext, Connect, PeerSend, PeerClose, SocketError, program, heapVars
<1>2. ASSUME NEW t \in Threads, FaultNext(t) PROVE UNCHANGED <<heapVars, serverVars, poolVars, pc, localVars>>
  BY <1>2 DEF FaultNext, UseAfterFree, MapRace, EraseCrash, ReaperMeetsDeleted,
              ReaperMeetsNull, Fault
<1>3. CASE UNCHANGED vars BY <1>3 DEF vars, heapVars
<1> QED BY <1>1, <1>2, <1>3 DEF heapVars

\* An object that has been created stays so, and keeps its descriptor.
LEMMA CreatedStays ==
    ASSUME IInv, [Next]_vars, NEW c \in Conns, Created(c)
    PROVE  Created(c)'
<1> USE DEF Created
<1>0. HeapOK BY DEF IInv, TypeOK
<1> USE DEF HeapOK
<1>1. CASE UNCHANGED heapVars BY <1>1 DEF heapVars
<1>2. ASSUME NEW d \in Conns, Connect(d) PROVE Created(c)'
  BY <1>0, <1>2 DEF Connect
<1>3. ASSUME NEW d \in Conns, NEW f \in Fds, Accept(d, f) PROVE Created(c)'
  BY <1>0, <1>3 DEF Accept
<1>4. CASE HoldNew \/ ErrorEvent \/ HoldData
  BY <1>4 DEF HoldNew, ErrorEvent, HoldData
<1>5. ASSUME NEW t \in Threads, SetShutdown(t) \/ Exclude(t) \/ Close(t)
      PROVE  Created(c)'
  BY <1>0, <1>5 DEF SetShutdown, Exclude, Close
<1>6. ASSUME NEW w \in Workers, CallbackReturns(w) PROVE Created(c)'
  BY <1>6 DEF CallbackReturns
<1> QED BY HeapFrame, <1>1, <1>2, <1>3, <1>4, <1>5, <1>6

\* Every step leaves each created object, and no other, with a descriptor.
LEMMA SocketsStep ==
    ASSUME IInv, [Next]_vars, NEW c \in Conns
    PROVE  (IF Created(c) THEN socket[c] \in Fds ELSE ~isShutdown[c])'
<1> USE DEF Created, HeapOK
<1> DEFINE G == IF Created(c) THEN socket[c] \in Fds ELSE ~isShutdown[c]
<1>0. /\ HeapOK
      /\ \A d \in Conns : IF Created(d) THEN socket[d] \in Fds ELSE ~isShutdown[d]
  BY DEF IInv, TypeOK, PointersOK
<1>1. CASE UNCHANGED heapVars BY <1>0, <1>1 DEF heapVars
<1>2. ASSUME NEW d \in Conns, Connect(d) PROVE G'
  BY <1>0, <1>2 DEF Connect
<1>3. ASSUME NEW d \in Conns, NEW f \in Fds, Accept(d, f) PROVE G'
  BY <1>0, <1>3 DEF Accept
<1>4. CASE HoldNew \/ ErrorEvent \/ HoldData
  BY <1>0, <1>4 DEF HoldNew, ErrorEvent, HoldData
<1>5. ASSUME NEW t \in Threads, SetShutdown(t) \/ Exclude(t) \/ Close(t)
      PROVE  G'
  <2>1. Created(cur[t])
    BY <1>5 DEF SetShutdown, Exclude, Close, IInv, PointersOK, WithoutConnection
  <2> QED BY <1>0, <1>5, <2>1 DEF SetShutdown, Exclude, Close
<1>6. ASSUME NEW w \in Workers, CallbackReturns(w) PROVE G'
  BY <1>0, <1>6 DEF CallbackReturns
<1> QED BY HeapFrame, <1>1, <1>2, <1>3, <1>4, <1>5, <1>6

\* Every step leaves the map pointing to created objects.
LEMMA EntriesStep ==
    ASSUME IInv, [Next]_vars, NEW f \in Fds, NEW c \in Conns, connections'[f] = c
    PROVE  Created(c)'
<1>0. /\ connections \in [Fds -> Conns \cup {Absent, Null}]
      /\ \A g \in Fds : connections[g] \in Conns => Created(connections[g])
      /\ Listener \in Threads /\ Absent \notin Conns /\ Null \notin Conns
  BY ServerAssumption DEF IInv, TypeOK, RegistryOK, PointersOK, Threads
<1>1. SUFFICES Created(c)
  BY CreatedStays
<1>2. CASE UNCHANGED serverVars BY <1>0, <1>2 DEF serverVars
<1>3. CASE Register
  <2>1. Created(cur[Listener])
    BY <1>0, <1>3 DEF Register, IInv, PointersOK, WithoutConnection
  <2> QED BY <1>0, <1>3, <2>1 DEF Register
<1>4. ASSUME NEW g \in Fds, LookupNothing(g) PROVE Created(c)
  BY <1>0, <1>4 DEF LookupNothing
<1>5. CASE RecheckGone \/ RecheckFound \/ HoldData \/ ReaperLocks \/ ReaperUnlocks
  BY <1>0, <1>5 DEF RecheckGone, RecheckFound, HoldData, ReaperLocks, ReaperUnlocks
<1>6. ASSUME NEW t \in Threads, Dequeue(t) PROVE Created(c)
  BY <1>0, <1>6 DEF Dequeue, Erase
<1>7. ASSUME NEW g \in Fds, Reap(g) PROVE Created(c)
  BY <1>0, <1>7 DEF Reap, Erase
<1>8. ASSUME NEW w \in Workers, Acquire(w) \/ StopServer(w) \/ CallbackReturns(w)
      PROVE  Created(c)
  BY <1>0, <1>8 DEF Acquire, StopServer, CallbackReturns
<1> QED BY RegistryFrame, <1>2, <1>3, <1>4, <1>5, <1>6, <1>7, <1>8

\* Every step leaves the closures pointing to created objects.
LEMMA TaskPointersStep ==
    ASSUME IInv, [Next]_vars, NEW t \in Tasks, NEW c \in Conns,
           task'[t] # Unused, task'[t].conn = c
    PROVE  Created(c)'
<1>0. /\ TasksOK /\ Listener \in Threads /\ Workers \subseteq Threads
      /\ \A u \in Tasks : task[u] # Unused => Created(task[u].conn)
  BY DEF IInv, TypeOK, PointersOK, Threads
<1>1. SUFFICES Created(c)
  BY CreatedStays
<1>2. CASE UNCHANGED poolVars BY <1>0, <1>2 DEF poolVars
<1>3. ASSUME NEW k, NEW d \in Conns, Add(k, d), Created(d) PROVE Created(c)
  BY <1>0, <1>3, NewTaskUnused DEF Add, TasksOK
<1>4. CASE HoldNew \/ ErrorEvent \/ HoldData \/ Hup
  <2>1. Created(cur[Listener])
    BY <1>0, <1>4 DEF HoldNew, ErrorEvent, HoldData, Hup, IInv, PointersOK,
                      WithoutConnection
  <2>2. \E k \in Locking \cup {"Terminated"} : Add(k, cur[Listener])
    BY <1>4 DEF HoldNew, ErrorEvent, HoldData, Hup, HoldAndAdd, Locking
  <2> QED BY <1>3, <2>1, <2>2 DEF Created
<1>5. ASSUME NEW w \in Workers, DeferShutdown(w) PROVE Created(c)
  <2>1. Created(cur[w])
    BY <1>0, <1>5 DEF DeferShutdown, IInv, PointersOK, WithoutConnection
  <2> QED BY <1>3, <1>5, <2>1 DEF DeferShutdown, Created
<1>6. ASSUME NEW w \in Workers,
             TakeTask(w) \/ CallbackReturns(w) \/ TerminatedReturns(w)
      PROVE  Created(c)
  BY <1>0, <1>6 DEF TakeTask, CallbackReturns, TerminatedReturns, TasksOK
<1>7. ASSUME NEW u \in Threads, Close(u) PROVE Created(c)
  BY <1>0, <1>7 DEF Close, TasksOK
<1> QED BY PoolFrame, <1>2, <1>4, <1>5, <1>6, <1>7

\* Every step leaves the locals in use pointing to created objects.
LEMMA LocalPointersStep ==
    ASSUME IInv, [Next]_vars, NEW u \in Threads, pc'[u] \notin WithoutConnection
    PROVE  Created(cur[u])'
<1>0. /\ ThreadsOK /\ TasksOK /\ Listener \in Threads /\ Reaper \in Threads
      /\ Workers \subseteq Threads
      /\ pc[u] \notin WithoutConnection => Created(cur[u])
      /\ \A f \in Fds : connections[f] \in Conns => Created(connections[f])
  BY DEF IInv, TypeOK, PointersOK, Threads
<1>1. ASSUME NEW c \in Conns, Created(c), cur'[u] = c PROVE Created(cur[u])'
  BY <1>1, CreatedStays DEF Created
<1>2. CASE pc'[u] = pc[u] /\ cur'[u] = cur[u]
  BY <1>0, <1>1, <1>2 DEF Created
<1>3. CASE ListenerNext /\ u = Listener
  <2>1. ASSUME NEW c \in Conns, NEW f \in Fds, Accept(c, f) PROVE Created(cur[u])'
    BY <1>0, <1>3, <2>1 DEF Accept, Created, ThreadsOK, IInv, TypeOK, HeapOK
  <2>2. ASSUME NEW f \in Fds, LookupConnection(f) PROVE Created(cur[u])'
    BY <1>0, <1>1, <1>3, <2>2 DEF LookupConnection, Created, ThreadsOK
  <2>3. CASE Register \/ EpollAdd \/ Hup \/ RecheckFound
    <3>1. pc[u] \notin WithoutConnection /\ cur'[u] = cur[u]
      BY <1>3, <2>3 DEF Register, EpollAdd, Hup, RecheckFound, WithoutConnection,
                        localVars
    <3> QED BY <1>0, <1>1, <3>1 DEF Created
  <2>4. CASE \/ EpollWait \/ ListenerReturns \/ RoundEnds \/ AcceptFails
             \/ EpollAddFails \/ HoldNew \/ ErrorEvent \/ RecheckGone \/ HoldData
             \/ \E f \in Fds : LookupNothing(f)
    <3>1. pc'[u] \in WithoutConnection
      BY <1>0, <1>3, <2>4
      DEF EpollWait, ListenerReturns, RoundEnds, AcceptFails, EpollAddFails, HoldNew,
          ErrorEvent, RecheckGone, HoldData, LookupNothing, NextEventIs, Goto,
          WithoutConnection, ThreadsOK
    <3> QED BY <3>1
  <2> QED BY <1>3, <2>1, <2>2, <2>3, <2>4 DEF ListenerNext
<1>4. CASE ReaperNext /\ u = Reaper
  <2>1. ASSUME NEW f \in Fds, Reap(f) PROVE Created(cur[u])'
    BY <1>0, <1>1, <1>4, <2>1 DEF Reap, Created, ThreadsOK
  <2>2. CASE JudgeIdle
    <3>1. pc[u] \notin WithoutConnection /\ cur'[u] = cur[u]
      BY <1>4, <2>2 DEF JudgeIdle, WithoutConnection, localVars
    <3> QED BY <1>0, <1>1, <3>1 DEF Created
  <2>3. CASE \/ ReaperWakes \/ ReaperLocks \/ JudgeShutdown \/ ReaperNotified
             \/ ReaperUnlocks \/ \E f \in Fds : Keep(f)
    <3>1. pc'[u] \in WithoutConnection
      BY <1>0, <1>4, <2>3
      DEF ReaperWakes, ReaperLocks, JudgeShutdown, ReaperNotified, ReaperUnlocks,
          ReaperAdvances, Keep, Goto, WithoutConnection, ThreadsOK
    <3> QED BY <3>1
  <2> QED BY <1>4, <2>1, <2>2, <2>3 DEF ReaperNext
<1>5. CASE u \in Workers /\ WorkerNext(u)
  <2>1. CASE TakeTask(u)
    <3> DEFINE t == Head(queue)
    <3>1. t \in Tasks /\ task[t] # Unused
      BY <1>0, <2>1 DEF TakeTask, IInv, QueueOK, TasksOK
    <3>2. Created(task[t].conn) BY <3>1 DEF IInv, PointersOK
    <3>3. cur'[u] = task[t].conn BY <1>0, <2>1 DEF TakeTask, ThreadsOK
    <3> QED BY <1>1, <3>2, <3>3 DEF Created
  <2>2. CASE Acquire(u) \/ Receive(u) \/ DeferShutdown(u) \/ StopServer(u)
    <3>1. pc[u] \notin WithoutConnection /\ cur'[u] = cur[u]
      BY <2>2 DEF Acquire, Receive, DeferShutdown, StopServer, WithoutConnection,
                  localVars
    <3> QED BY <1>0, <1>1, <3>1 DEF Created
  <2>3. CASE CallbackReturns(u) \/ TerminatedReturns(u)
    <3>1. pc'[u] \in WithoutConnection
      BY <1>0, <2>3
      DEF CallbackReturns, TerminatedReturns, Goto, WithoutConnection, ThreadsOK
    <3> QED BY <3>1
  <2> QED BY <1>5, <2>1, <2>2, <2>3 DEF WorkerNext
<1>6. CASE ShutdownNext(u)
  <2>1. CASE Close(u) /\ u # Reaper
    <3>1. pc'[u] \in WithoutConnection
      BY <1>0, <2>1 DEF Close, Goto, WithoutConnection, ThreadsOK
    <3> QED BY <3>1
  <2>2. CASE \/ SetShutdown(u) \/ SearchMisses(u) \/ Dequeue(u) \/ Exclude(u)
             \/ Close(u) /\ u = Reaper
             \/ \E f \in Fds : SearchFinds(u, f)
    <3>1. pc[u] \notin WithoutConnection /\ cur'[u] = cur[u]
      BY <2>2 DEF SetShutdown, SearchMisses, Dequeue, Exclude, Close, SearchFinds,
                  WithoutConnection, localVars
    <3> QED BY <1>0, <1>1, <3>1 DEF Created
  <2> QED BY <1>6, <2>1, <2>2 DEF ShutdownNext
<1>7. CASE PeerNext \/ (\E t \in Threads : FaultNext(t)) \/ UNCHANGED vars
  BY <1>2, <1>7, ProgramStays DEF localVars
<1>8. ASSUME NEW t \in Threads, ThreadNext(t), t # u PROVE Created(cur[u])'
  BY <1>2, <1>8, OthersStay
<1> QED BY <1>3, <1>4, <1>5, <1>6, <1>7, <1>8 DEF Next, ThreadNext

\* Every step preserves PointersOK.
LEMMA PointersStep == ASSUME IInv, [Next]_vars PROVE PointersOK'
<1>1. RegistryOK' /\ TasksOK' BY RegistryStep, TasksStep
<1>2. \A c \in Conns : (IF Created(c) THEN socket[c] \in Fds ELSE ~isShutdown[c])'
  BY SocketsStep
<1>3. ASSUME NEW f \in Fds, connections'[f] \in Conns PROVE Created(connections[f])'
  <2> DEFINE c == connections'[f]
  <2>1. PICK d \in Conns : d = connections'[f] BY <1>3
  <2>2. Created(d)' BY <2>1, EntriesStep
  <2> QED BY <2>1, <2>2 DEF Created
<1>4. ASSUME NEW t \in Tasks, task'[t] # Unused PROVE Created(task[t].conn)'
  <2>1. task'[t].conn \in Conns BY <1>1, <1>4 DEF TasksOK, Closure
  <2>2. PICK d \in Conns : d = task'[t].conn BY <2>1
  <2>3. Created(d)' BY <1>4, <2>2, TaskPointersStep
  <2> QED BY <2>2, <2>3 DEF Created
<1>5. ASSUME NEW t \in Threads, pc'[t] \notin WithoutConnection
      PROVE  Created(cur[t])'
  BY <1>5, LocalPointersStep
<1> QED BY <1>2, <1>3, <1>4, <1>5 DEF PointersOK

-----------------------------------------------------------------------------
(* The pool.                                                               *)

\* Add() preserves QueueOK.
LEMMA AddQueues ==
    ASSUME IInv, NEW k, NEW c \in Conns, Add(k, c), UNCHANGED job,
           k \in Locking \cup {"Terminated", "Shutdown"}
    PROVE  QueueOK'
<1>1. /\ TasksOK /\ QueueOK /\ JobsOK /\ NewTask \in Tasks /\ task[NewTask] = Unused
      /\ None \notin Tasks
  BY NewTaskUnused, ServerAssumption DEF IInv, TypeOK, Add
<1> DEFINE t == NewTask
<1>2. /\ \A i \in 1 .. Len(queue) : queue[i] # t /\ queue[i] \in Tasks
      /\ \A w \in Workers : job[w] # t
  BY <1>1 DEF QueueOK, JobsOK, JobOK, TasksOK
<1>3. /\ queue' = Append(queue, t)
      /\ task' = [task EXCEPT ![t] = [kind |-> k, conn |-> c]]
      /\ [kind |-> k, conn |-> c] # Unused
  BY DEF Add, Unused, Locking
<1> HIDE DEF t
<1>4. /\ Len(queue') = Len(queue) + 1 /\ Len(queue) \in Nat
      /\ \A i \in 1 .. Len(queue') : queue'[i] = IF i = Len(queue') THEN t ELSE queue[i]
  BY <1>1, <1>3 DEF TasksOK, t
<1>5. \A i \in 1 .. Len(queue') : task'[queue'[i]] # Unused
  BY <1>1, <1>2, <1>3, <1>4 DEF QueueOK, TasksOK, t
<1>6. \A i, j \in 1 .. Len(queue') : queue'[i] = queue'[j] => i = j
  BY <1>1, <1>2, <1>4 DEF QueueOK
<1>7. \A w \in Workers, i \in 1 .. Len(queue') : queue'[i] # job'[w]
  BY <1>1, <1>2, <1>4 DEF QueueOK
<1> QED BY <1>1, <1>5, <1>6, <1>7 DEF QueueOK

\* Every step preserves QueueOK.
LEMMA QueueStep == ASSUME IInv, [Next]_vars PROVE QueueOK'
<1>0. /\ TasksOK /\ QueueOK /\ JobsOK /\ Listener \in Threads /\ Workers \subseteq Threads
      /\ None \notin Tasks
  BY ServerAssumption DEF IInv, TypeOK, Threads
<1>1. CASE UNCHANGED poolVars BY <1>0, <1>1 DEF poolVars, QueueOK
<1>2. CASE HoldNew \/ ErrorEvent \/ HoldData \/ Hup
  <2>1. cur[Listener] \in Conns
    BY <1>0, <1>2 DEF HoldNew, ErrorEvent, HoldData, Hup, IInv, PointersOK,
                      Created, WithoutConnection
  <2>2. /\ \E k \in Locking \cup {"Terminated", "Shutdown"} : Add(k, cur[Listener])
        /\ UNCHANGED job
    BY <1>2 DEF HoldNew, ErrorEvent, HoldData, Hup, HoldAndAdd, Locking
  <2> QED BY <2>1, <2>2, AddQueues
<1>3. ASSUME NEW w \in Workers, DeferShutdown(w) PROVE QueueOK'
  <2>1. cur[w] \in Conns
    BY <1>0, <1>3 DEF DeferShutdown, IInv, PointersOK, Created, WithoutConnection
  <2> QED BY <1>3, <2>1, AddQueues DEF DeferShutdown
<1>4. ASSUME NEW w \in Workers, TakeTask(w) PROVE QueueOK'
  <2>1. /\ queue \in Seq(Tasks) /\ queue # <<>> /\ Len(queue) \in Nat \ {0}
        /\ Head(queue) = queue[1] /\ queue' = Tail(queue)
        /\ job' = [job EXCEPT ![w] = Head(queue)] /\ task' = task
    BY <1>0, <1>4 DEF TakeTask, TasksOK
  <2>2. /\ Len(queue') = Len(queue) - 1
        /\ \A i \in 1 .. Len(queue') : queue'[i] = queue[i + 1] /\ i + 1 \in 1 .. Len(queue)
    BY <2>1
  <2>3. \A i \in 1 .. Len(queue') : queue'[i] # Head(queue)
    BY <1>0, <2>1, <2>2 DEF QueueOK
  <2>4. \A u \in Workers : job[u] # Head(queue)
    BY <1>0, <2>1 DEF QueueOK
  <2>5. \A i \in 1 .. Len(queue') : task'[queue'[i]] # Unused
    BY <1>0, <2>1, <2>2 DEF QueueOK
  <2>6. \A i, j \in 1 .. Len(queue') : queue'[i] = queue'[j] => i = j
    BY <1>0, <2>1, <2>2 DEF QueueOK
  <2>7. \A u \in Workers, i \in 1 .. Len(queue') : queue'[i] # job'[u]
    BY <1>0, <2>1, <2>2, <2>3 DEF QueueOK, TasksOK
  <2>8. \A v, u \in Workers : job'[v] = job'[u] => v = u \/ job'[v] = None
    BY <1>0, <2>1, <2>4 DEF QueueOK, TasksOK
  <2> QED BY <2>5, <2>6, <2>7, <2>8 DEF QueueOK
<1>5. ASSUME NEW w \in Workers, pc[w] # "free",
             task' = [task EXCEPT ![job[w]] = Unused],
             job' = [job EXCEPT ![w] = None], queue' = queue
      PROVE  QueueOK'
  <2>1. job[w] \in Tasks BY <1>0, <1>5 DEF JobsOK, JobOK
  <2>2. \A i \in 1 .. Len(queue) : queue[i] # job[w] /\ queue[i] \in Tasks
    BY <1>0 DEF QueueOK, TasksOK
  <2>3. \A i \in 1 .. Len(queue') : task'[queue'[i]] # Unused
    BY <1>0, <1>5, <2>2 DEF QueueOK, TasksOK
  <2>4. \A u \in Workers, i \in 1 .. Len(queue') : queue'[i] # job'[u]
    BY <1>0, <1>5, <2>2 DEF QueueOK, TasksOK
  <2>5. \A v, u \in Workers : job'[v] = job'[u] => v = u \/ job'[v] = None
    BY <1>0, <1>5 DEF QueueOK, TasksOK
  <2> QED BY <1>0, <1>5, <2>3, <2>4, <2>5 DEF QueueOK
<1>6. ASSUME NEW w \in Workers, CallbackReturns(w) \/ TerminatedReturns(w)
      PROVE  QueueOK'
  BY <1>5, <1>6 DEF CallbackReturns, TerminatedReturns
<1>7. ASSUME NEW t \in Threads, Close(t) PROVE QueueOK'
  <2>1. CASE t \in {Listener, Reaper}
    BY <1>0, <1>7, <2>1 DEF Close, QueueOK
  <2>2. CASE t \notin {Listener, Reaper}
    <3>1. t \in Workers BY <2>2 DEF Threads
    <3> QED BY <1>5, <1>7, <2>2, <3>1 DEF Close
  <2> QED BY <2>1, <2>2
<1> QED BY PoolFrame, <1>1, <1>2, <1>3, <1>4, <1>6, <1>7

\* What one thread does leaves the task of another worker alone.
LEMMA JobStays ==
    ASSUME IInv, [Next]_vars, NEW w \in Workers, pc[w] # "free", job'[w] = job[w]
    PROVE  task'[job[w]] = task[job[w]]
<1>0. /\ TasksOK /\ QueueOK /\ JobsOK /\ None \notin Tasks
      /\ job[w] \in Tasks /\ task[job[w]] # Unused
  BY ServerAssumption DEF IInv, TypeOK, JobsOK, JobOK
<1>1. CASE UNCHANGED poolVars BY <1>1 DEF poolVars
<1>2. ASSUME NEW k, NEW c, Add(k, c) PROVE task'[job[w]] = task[job[w]]
  BY <1>0, <1>2, NewTaskUnused DEF Add, TasksOK
<1>3. CASE HoldNew \/ ErrorEvent \/ HoldData \/ Hup
  BY <1>2, <1>3 DEF HoldNew, ErrorEvent, HoldData, Hup, HoldAndAdd
<1>4. ASSUME NEW u \in Workers, DeferShutdown(u) PROVE task'[job[w]] = task[job[w]]
  BY <1>2, <1>4 DEF DeferShutdown
<1>5. ASSUME NEW u \in Workers, TakeTask(u) PROVE task'[job[w]] = task[job[w]]
  BY <1>5 DEF TakeTask
<1>6. ASSUME NEW u \in Workers, task' = [task EXCEPT ![job[u]] = Unused],
             job' = [job EXCEPT ![u] = None]
      PROVE  task'[job[w]] = task[job[w]]
  <2>1. u # w BY <1>0, <1>6 DEF TasksOK
  <2>2. job[u] # job[w] BY <1>0, <2>1 DEF QueueOK
  <2> QED BY <1>0, <1>6, <2>2 DEF TasksOK
<1>7. ASSUME NEW u \in Workers, CallbackReturns(u) \/ TerminatedReturns(u)
      PROVE  task'[job[w]] = task[job[w]]
  BY <1>6, <1>7 DEF CallbackReturns, TerminatedReturns
<1>8. ASSUME NEW t \in Threads, Close(t) PROVE task'[job[w]] = task[job[w]]
  <2>1. CASE t \in {Listener, Reaper} BY <1>8, <2>1 DEF Close
  <2>2. CASE t \notin {Listener, Reaper}
    <3>1. t \in Workers BY <2>2 DEF Threads
    <3> QED BY <1>6, <1>8, <2>2, <3>1 DEF Close
  <2> QED BY <2>1, <2>2
<1> QED BY PoolFrame, <1>1, <1>3, <1>4, <1>5, <1>7, <1>8

\* Every step preserves JobOK of every worker.
LEMMA JobsStep == ASSUME IInv, [Next]_vars, NEW w \in Workers PROVE JobOK(w)'
<1>0. /\ TasksOK /\ ThreadsOK /\ JobOK(w) /\ w \in Threads
      /\ w # Listener /\ w # Reaper
  BY ServerAssumption DEF IInv, TypeOK, JobsOK, Threads
<1>1. CASE pc'[w] = pc[w] /\ cur'[w] = cur[w] /\ job'[w] = job[w]
  <2>1. CASE pc[w] = "free" BY <1>0, <1>1, <2>1 DEF JobOK
  <2>2. CASE pc[w] # "free"
    <3>1. task'[job[w]] = task[job[w]] BY <1>1, <2>2, JobStays
    <3> QED BY <1>0, <1>1, <2>2, <3>1 DEF JobOK, JobFits
  <2> QED BY <2>1, <2>2
<1>2. ASSUME NEW t \in Threads, ThreadNext(t), t # w PROVE JobOK(w)'
  BY <1>0, <1>1, <1>2, OthersStay
<1>3. CASE PeerNext \/ (\E t \in Threads : FaultNext(t)) \/ UNCHANGED vars
  BY <1>1, <1>3, ProgramStays DEF localVars, poolVars
<1>4. CASE TakeTask(w)
  <2> DEFINE t == Head(queue)
  <2>1. t \in Tasks /\ task[t] # Unused
    BY <1>0, <1>4 DEF TakeTask, IInv, QueueOK, TasksOK
  <2>2. /\ job'[w] = t /\ task' = task /\ cur'[w] = task[t].conn
        /\ pc'[w] = FirstStep(task[t].kind)
    BY <1>0, <1>4 DEF TakeTask, TasksOK, ThreadsOK, Goto
  <2>3. task[t].kind \in Locking \cup {"Terminated", "Shutdown"}
    BY <1>0, <2>1 DEF TasksOK, Closure
  <2> HIDE DEF t
  <2> QED BY <2>1, <2>2, <2>3
          DEF JobOK, JobFits, FirstStep, Locking, ShutdownSteps
<1>5. CASE Acquire(w) \/ Receive(w) \/ DeferShutdown(w) \/ StopServer(w)
  <2>1. /\ pc[w] \in {"acquire", "receive", "calls"}
        /\ pc'[w] \in {"receive", "calls", "return"}
        /\ cur'[w] = cur[w] /\ job'[w] = job[w]
    BY <1>0, <1>5
    DEF Acquire, Receive, DeferShutdown, StopServer, Goto, ThreadsOK, localVars,
        poolVars
  <2>2. task'[job[w]] = task[job[w]]
    BY <1>5, <2>1, JobStays
  <2> QED BY <1>0, <2>1, <2>2 DEF JobOK, JobFits, ShutdownSteps
<1>6. CASE CallbackReturns(w) \/ TerminatedReturns(w)
  BY <1>0, <1>6 DEF CallbackReturns, TerminatedReturns, JobOK, Goto, ThreadsOK,
                    TasksOK
<1>7. CASE Close(w)
  BY <1>0, <1>7 DEF Close, JobOK, Goto, ThreadsOK, TasksOK
<1>8. CASE \/ SetShutdown(w) \/ SearchMisses(w) \/ Dequeue(w) \/ Exclude(w)
           \/ \E f \in Fds : SearchFinds(w, f)
  <2>1. /\ pc[w] \in ShutdownSteps /\ pc'[w] \in ShutdownSteps
        /\ cur'[w] = cur[w] /\ UNCHANGED poolVars
    BY <1>0, <1>8
    DEF SetShutdown, SearchMisses, Dequeue, Exclude, SearchFinds, Goto, ThreadsOK,
        ShutdownSteps, localVars
  <2> QED BY <1>0, <2>1 DEF JobOK, JobFits, ShutdownSteps, poolVars
<1> QED BY <1>0, <1>2, <1>3, <1>4, <1>5, <1>6, <1>7, <1>8
        DEF Next, ThreadNext, WorkerNext, ShutdownNext

-----------------------------------------------------------------------------
(* Holds.                                                                  *)

\* HoldsMatchHandlers of one connection.
HoldOK(c) == connLock[c].readers = Handlers(c)
             /\ (Handlers(c) # {} => obj[c] = "live")

\* Add() makes the new task a handler of its connection if it is run by
\* LockCallAndUnlock(), and of no other.
LEMMA AddHandlers ==
    ASSUME IInv, NEW k \in Locking \cup {"Terminated", "Shutdown"},
           NEW d \in Conns, Add(k, d), NEW c \in Conns
    PROVE  /\ k \in Locking /\ c = d => Handlers(c)' = Handlers(c) \cup {NewTask}
           /\ k \notin Locking \/ c # d => Handlers(c)' = Handlers(c)
<1>1. /\ NewTask \in Tasks /\ task[NewTask] = Unused
      /\ task' = [task EXCEPT ![NewTask] = [kind |-> k, conn |-> d]]
      /\ task \in [Tasks -> Closure \cup {Unused}]
  BY NewTaskUnused DEF Add, IInv, TypeOK, TasksOK
<1>2. NewTask \notin Handlers(c)
  BY <1>1 DEF Handlers, Unused, Locking
<1>3. \A t \in Tasks : t # NewTask => task'[t] = task[t]
  BY <1>1
<1>4. task'[NewTask].kind = k /\ task'[NewTask].conn = d
  BY <1>1
<1> QED BY <1>1, <1>2, <1>3, <1>4 DEF Handlers

\* A task that ends is no longer a handler of anything.
LEMMA EndHandlers ==
    ASSUME IInv, NEW w \in Workers, task' = [task EXCEPT ![job[w]] = Unused],
           NEW c \in Conns
    PROVE  Handlers(c)' = Handlers(c) \ {job[w]}
<1>1. task \in [Tasks -> Closure \cup {Unused}] BY DEF IInv, TypeOK, TasksOK
<1>2. \A t \in Tasks : IF t = job[w] THEN task'[t] = Unused ELSE task'[t] = task[t]
  BY <1>1
<1>3. Unused.kind \notin Locking BY DEF Unused, Locking
<1> QED BY <1>2, <1>3 DEF Handlers

\* Every step preserves HoldsMatchHandlers, connection by connection.
LEMMA HoldsStep == ASSUME IInv, [Next]_vars, NEW c \in Conns PROVE HoldOK(c)'
<1>0. /\ HeapOK /\ TasksOK /\ JobsOK /\ HoldOK(c) /\ Listener \in Threads
      /\ Workers \subseteq Threads
  BY DEF IInv, TypeOK, HoldsMatchHandlers, HoldOK, Threads
<1>1. CASE /\ Handlers(c)' = Handlers(c) /\ connLock'[c].readers = connLock[c].readers
           /\ obj[c] = "live" => obj'[c] = "live"
  BY <1>0, <1>1 DEF HoldOK
<1>2. ASSUME task' = task PROVE Handlers(c)' = Handlers(c)
  BY <1>2 DEF Handlers
<1>3. CASE UNCHANGED heapVars /\ UNCHANGED poolVars
  BY <1>1, <1>2, <1>3 DEF heapVars, poolVars
<1>4. ASSUME NEW d \in Conns, Connect(d) PROVE HoldOK(c)'
  BY <1>0, <1>1, <1>2, <1>4 DEF Connect, HeapOK, poolVars
<1>5. ASSUME NEW d \in Conns, NEW f \in Fds, Accept(d, f) PROVE HoldOK(c)'
  BY <1>0, <1>1, <1>2, <1>5 DEF Accept, HeapOK, poolVars
<1>6. CASE HoldNew \/ ErrorEvent \/ HoldData
  <2>1. cur[Listener] \in Conns
    BY <1>0, <1>6 DEF HoldNew, ErrorEvent, HoldData, IInv, PointersOK, Created,
                      WithoutConnection
  <2> DEFINE d == cur[Listener]
  <2>2. PICK k \in Locking : HoldAndAdd(k, d) /\ UNCHANGED <<obj, isShutdown, socket>>
    BY <1>6 DEF HoldNew, ErrorEvent, HoldData, Locking
  <2>3. /\ obj[d] = "live" /\ Add(k, d)
        /\ connLock' = [connLock EXCEPT ![d] = ReadLocked(@, NewTask)]
    BY <2>2 DEF HoldAndAdd
  <2>4. /\ c = d => Handlers(c)' = Handlers(c) \cup {NewTask}
        /\ c # d => Handlers(c)' = Handlers(c)
    BY <2>1, <2>3, AddHandlers
  <2>5. /\ c = d => connLock'[c].readers = connLock[c].readers \cup {NewTask}
        /\ c # d => connLock'[c] = connLock[c]
    BY <1>0, <2>1, <2>3 DEF ReadLocked, HeapOK
  <2> HIDE DEF d
  <2> QED BY <1>0, <2>2, <2>3, <2>4, <2>5 DEF HoldOK
<1>7. CASE Hup \/ \E w \in Workers : DeferShutdown(w)
  <2>1. PICK t \in Threads, k \in {"Terminated", "Shutdown"} :
            Add(k, cur[t]) /\ UNCHANGED heapVars /\ pc[t] \notin WithoutConnection
    BY <1>0, <1>7 DEF Hup, DeferShutdown, WithoutConnection
  <2>2. cur[t] \in Conns BY <2>1 DEF IInv, PointersOK, Created
  <2>3. Handlers(c)' = Handlers(c) BY <2>1, <2>2, AddHandlers DEF Locking
  <2> QED BY <1>1, <2>1, <2>3 DEF heapVars
<1>8. ASSUME NEW w \in Workers, TakeTask(w) PROVE HoldOK(c)'
  BY <1>1, <1>2, <1>8 DEF TakeTask, heapVars
<1>9. ASSUME NEW t \in Threads, SetShutdown(t) PROVE HoldOK(c)'
  BY <1>1, <1>2, <1>9 DEF SetShutdown, poolVars
<1>10. ASSUME NEW t \in Threads, Exclude(t) PROVE HoldOK(c)'
  <2>1. connLock'[c].readers = connLock[c].readers
    BY <1>0, <1>10 DEF Exclude, CanLock, Free, Locked, HeapOK
  <2> QED BY <1>1, <1>2, <1>10, <2>1 DEF Exclude, poolVars
<1>11. ASSUME NEW w \in Workers, CallbackReturns(w) PROVE HoldOK(c)'
  <2>1. Handlers(c)' = Handlers(c) \ {job[w]}
    BY <1>11, EndHandlers DEF CallbackReturns
  <2>2. job[w] \in Tasks /\ cur[w] = task[job[w]].conn
    BY <1>0, <1>11 DEF CallbackReturns, JobsOK, JobOK
  <2>3. cur[w] # c => job[w] \notin Handlers(c) BY <2>2 DEF Handlers
  <2>4. cur[w] = c => connLock'[c].readers = connLock[c].readers \ {job[w]}
    BY <1>0, <1>11 DEF CallbackReturns, ReadUnlocked, HeapOK
  <2>5. cur[w] # c => connLock'[c] = connLock[c]
    BY <1>0, <1>11 DEF CallbackReturns, HeapOK
  <2> QED BY <1>0, <1>11, <2>1, <2>3, <2>4, <2>5 DEF HoldOK, CallbackReturns
<1>12. ASSUME NEW w \in Workers, pc[w] # "free",
              task' = [task EXCEPT ![job[w]] = Unused],
              task[job[w]].kind \notin Locking
       PROVE  Handlers(c)' = Handlers(c)
  <2>1. job[w] \notin Handlers(c) BY <1>12 DEF Handlers
  <2> QED BY <1>12, <2>1, EndHandlers
<1>13. ASSUME NEW w \in Workers, TerminatedReturns(w) PROVE HoldOK(c)'
  <2>1. task[job[w]].kind \notin Locking
    BY <1>0, <1>13 DEF TerminatedReturns, JobsOK, JobOK, JobFits, Locking
  <2> QED BY <1>1, <1>12, <1>13, <2>1 DEF TerminatedReturns, heapVars
<1>14. ASSUME NEW t \in Threads, Close(t) PROVE HoldOK(c)'
  <2>1. pc[t] = "close" /\ connLock[cur[t]] = Locked(t) /\ cur[t] \in Conns
    BY <1>14 DEF Close, IInv, ShutdownOK, PointersOK, Created, WithoutConnection
  <2>2. Handlers(c)' = Handlers(c)
    <3>1. CASE t \in {Listener, Reaper} BY <1>2, <1>14, <3>1 DEF Close
    <3>2. CASE t \notin {Listener, Reaper}
      <4>1. t \in Workers BY <3>2 DEF Threads
      <4>2. task[job[t]].kind \notin Locking
        BY <1>0, <2>1, <4>1 DEF JobsOK, JobOK, JobFits, Locking, ShutdownSteps
      <4> QED BY <1>12, <1>14, <2>1, <3>2, <4>1, <4>2 DEF Close
    <3> QED BY <3>1, <3>2
  <2>3. c = cur[t] => Handlers(c) = {}
    BY <2>1 DEF Locked, IInv, HoldsMatchHandlers
  <2>4. /\ c = cur[t] => connLock'[c].readers = {}
        /\ c # cur[t] => connLock'[c] = connLock[c] /\ obj'[c] = obj[c]
    BY <1>0, <1>14, <2>1 DEF Close, Free, HeapOK
  <2> QED BY <1>0, <2>2, <2>3, <2>4 DEF HoldOK
<1> QED BY HeapFrame, PoolFrame, <1>3, <1>4, <1>5, <1>6, <1>7, <1>8, <1>9, <1>10,
           <1>11, <1>13, <1>14

-----------------------------------------------------------------------------
(* Shutdown().                                                             *)

\* is_shutdown_ never goes back to false.
LEMMA FlagStays ==
    ASSUME IInv, [Next]_vars, NEW c \in Conns, isShutdown[c]
    PROVE  isShutdown'[c]
<1>0. HeapOK BY DEF IInv, TypeOK
<1>1. ASSUME NEW t \in Threads, SetShutdown(t) \/ Exclude(t) \/ Close(t)
      PROVE  isShutdown'[c]
  BY <1>0, <1>1 DEF SetShutdown, Exclude, Close, HeapOK
<1> QED BY <1>1, HeapFrame DEF heapVars, Connect, Accept, HoldNew, ErrorEvent, HoldData,
           CallbackReturns

\* While a thread is past Lock(), nobody else touches the lock or the object.
LEMMA ExclusionStays ==
    ASSUME IInv, [Next]_vars, NEW u \in Threads, pc[u] = "close", pc'[u] = "close"
    PROVE  connLock'[cur[u]] = Locked(u) /\ obj'[cur[u]] = "live"
<1> DEFINE c == cur[u]
<1>0. /\ HeapOK /\ ThreadsOK /\ JobsOK /\ c \in Conns /\ connLock[c] = Locked(u)
      /\ obj[c] = "live" /\ Handlers(c) = {} /\ Listener \in Threads
  BY DEF IInv, TypeOK, ShutdownOK, PointersOK, Created, WithoutConnection,
         HoldsMatchHandlers, Locked, Threads
<1> HIDE DEF c
<1>1. SUFFICES connLock'[c] = connLock[c] /\ obj'[c] = obj[c]
  BY <1>0 DEF c
<1>2. CASE UNCHANGED heapVars BY <1>2 DEF heapVars
<1>3. ASSUME NEW d \in Conns, Connect(d) PROVE connLock'[c] = connLock[c] /\ obj'[c] = obj[c]
  BY <1>0, <1>3 DEF Connect, HeapOK
<1>4. ASSUME NEW d \in Conns, NEW f \in Fds, Accept(d, f)
      PROVE  connLock'[c] = connLock[c] /\ obj'[c] = obj[c]
  BY <1>0, <1>4 DEF Accept, HeapOK
<1>5. CASE HoldNew \/ ErrorEvent \/ HoldData
  <2>1. PICK k : HoldAndAdd(k, cur[Listener]) /\ UNCHANGED <<obj, isShutdown, socket>>
    BY <1>5 DEF HoldNew, ErrorEvent, HoldData
  <2>2. cur[Listener] # c BY <1>0, <2>1 DEF HoldAndAdd, CanReadLock, Locked
  <2> QED BY <1>0, <2>1, <2>2 DEF HoldAndAdd, HeapOK
<1>6. ASSUME NEW t \in Threads, SetShutdown(t) PROVE connLock'[c] = connLock[c] /\ obj'[c] = obj[c]
  BY <1>6 DEF SetShutdown
<1>7. ASSUME NEW t \in Threads, Exclude(t) PROVE connLock'[c] = connLock[c] /\ obj'[c] = obj[c]
  <2>1. cur[t] # c BY <1>0, <1>7 DEF Exclude, CanLock, Free, Locked
  <2> QED BY <1>0, <1>7, <2>1 DEF Exclude, HeapOK
<1>8. ASSUME NEW t \in Threads, Close(t) PROVE connLock'[c] = connLock[c] /\ obj'[c] = obj[c]
  <2>1. t # u BY <1>0, <1>8 DEF Close, Goto, ThreadsOK
  <2>2. connLock[cur[t]] = Locked(t) BY <1>8 DEF Close, IInv, ShutdownOK
  <2>3. cur[t] # c BY <1>0, <2>1, <2>2 DEF Locked
  <2> QED BY <1>0, <1>8, <2>3 DEF Close, HeapOK
<1>9. ASSUME NEW w \in Workers, CallbackReturns(w)
      PROVE  connLock'[c] = connLock[c] /\ obj'[c] = obj[c]
  <2>1. /\ job[w] \in Tasks /\ cur[w] = task[job[w]].conn
        /\ task[job[w]].kind \in Locking
    <3>1. pc[w] \in {"calls", "return"} /\ JobOK(w)
      BY <1>0, <1>9 DEF CallbackReturns, JobsOK
    <3> QED BY <3>1 DEF JobOK, JobFits
  <2>2. cur[w] # c BY <1>0, <2>1 DEF Handlers
  <2> QED BY <1>0, <1>9, <2>2 DEF CallbackReturns, HeapOK
<1> QED BY HeapFrame, <1>2, <1>3, <1>4, <1>5, <1>6, <1>7, <1>8, <1>9

\* ShutdownOK of one thread.
ShutdownThreadOK(t) ==
    /\ pc[t] \in {"search", "dequeue", "exclusive", "close"} => isShutdown[cur[t]]
    /\ pc[t] = "close" => connLock[cur[t]] = Locked(t) /\ obj[cur[t]] = "live"
    /\ pc[t] = "dequeue" => entry[t] \in Fds

\* Every step preserves ShutdownOK, thread by thread.
LEMMA ShutdownStep ==
    ASSUME IInv, [Next]_vars, NEW u \in Threads PROVE ShutdownThreadOK(u)'
<1> USE DEF ShutdownThreadOK
<1>0. /\ HeapOK /\ ThreadsOK /\ ShutdownThreadOK(u)
      /\ pc[u] \notin WithoutConnection => cur[u] \in Conns
      /\ Listener \in Threads /\ Reaper \in Threads /\ Workers \subseteq Threads
      /\ Listener # Reaper /\ Listener \notin Workers /\ Reaper \notin Workers
  BY ServerAssumption
  DEF IInv, TypeOK, ShutdownOK, PointersOK, Created, Threads
<1>1. CASE pc'[u] = pc[u] /\ cur'[u] = cur[u] /\ entry'[u] = entry[u]
  BY <1>0, <1>1, FlagStays, ExclusionStays DEF WithoutConnection
<1>2. ASSUME NEW t \in Threads, ThreadNext(t), t # u PROVE ShutdownThreadOK(u)'
  BY <1>1, <1>2, OthersStay
<1>3. CASE PeerNext \/ (\E t \in Threads : FaultNext(t)) \/ UNCHANGED vars
  BY <1>1, <1>3, ProgramStays DEF localVars
<1>4. CASE pc'[u] \notin {"search", "dequeue", "exclusive", "close"}
  BY <1>4
<1>5. CASE u = Listener /\ ListenerNext
  <2>1. pc'[u] \notin {"search", "dequeue", "exclusive", "close"}
    BY <1>0, <1>5
    DEF ListenerNext, EpollWait, ListenerReturns, RoundEnds, AcceptFails, Accept,
        Register, EpollAdd, EpollAddFails, HoldNew, LookupNothing, LookupConnection,
        Hup, ErrorEvent, RecheckGone, RecheckFound, HoldData, NextEventIs, Goto, ThreadsOK
  <2> QED BY <1>4, <2>1
<1>6. CASE u = Reaper /\ ReaperNext
  <2>1. pc'[u] \notin {"search", "dequeue", "exclusive", "close"}
    BY <1>0, <1>6
    DEF ReaperNext, ReaperWakes, ReaperLocks, Keep, Reap, JudgeShutdown, JudgeIdle,
        ReaperNotified, ReaperAdvances, ReaperUnlocks, Goto, ThreadsOK
  <2> QED BY <1>4, <2>1
<1>7. CASE u \in Workers /\ WorkerNext(u)
  <2>1. pc'[u] \notin {"search", "dequeue", "exclusive", "close"}
    BY <1>0, <1>7
    DEF WorkerNext, TakeTask, FirstStep, Acquire, Receive, DeferShutdown, StopServer,
        CallbackReturns, TerminatedReturns, Goto, ThreadsOK
  <2> QED BY <1>4, <2>1
<1>8. CASE ShutdownNext(u)
  <2>1. CASE SetShutdown(u)
    BY <1>0, <2>1
    DEF SetShutdown, Goto, ThreadsOK, HeapOK, WithoutConnection, localVars
  <2>2. ASSUME NEW f \in Fds, SearchFinds(u, f) PROVE ShutdownThreadOK(u)'
    BY <1>0, <2>2 DEF SearchFinds, Goto, ThreadsOK, heapVars
  <2>3. CASE SearchMisses(u) \/ Dequeue(u)
    BY <1>0, <2>3 DEF SearchMisses, Dequeue, Goto, ThreadsOK, heapVars, localVars
  <2>4. CASE Exclude(u)
    BY <1>0, <2>4
    DEF Exclude, Goto, ThreadsOK, HeapOK, WithoutConnection, localVars
  <2>5. CASE Close(u)
    <3>1. pc'[u] \notin {"search", "dequeue", "exclusive", "close"}
      BY <1>0, <2>5 DEF Close, Goto, ThreadsOK
    <3> QED BY <1>4, <3>1
  <2> QED BY <1>8, <2>1, <2>2, <2>3, <2>4, <2>5 DEF ShutdownNext
<1> QED BY <1>2, <1>3, <1>5, <1>6, <1>7, <1>8 DEF Next, ThreadNext

-----------------------------------------------------------------------------
(* The theorems.                                                           *)

\* The inductive invariant holds of a server that has just started ...
LEMMA InitInvariant == Init => IInv
<1> SUFFICES ASSUME Init PROVE IInv OBVIOUS
<1> USE ServerAssumption DEF Init
<1>1. HeapOK BY DEF HeapOK, Free, Mutexes
<1>2. RegistryOK BY DEF RegistryOK, Free, Mutexes
<1>3. KernelOK BY DEF KernelOK, Closed, Socket
<1>4. TasksOK BY DEF TasksOK
<1>5. ThreadsOK
  BY DEF ThreadsOK, Labels, Threads, ShutdownSteps, ListenerSteps, ReaperSteps,
         WorkerSteps
<1>6. PointersOK BY DEF PointersOK, Created, WithoutConnection, Threads
<1>7. QueueOK BY DEF QueueOK
<1>8. JobsOK BY DEF JobsOK, JobOK, Threads
<1>9. HoldsMatchHandlers
  BY DEF HoldsMatchHandlers, Handlers, Free, Unused, Locking
<1>10. ShutdownOK BY DEF ShutdownOK, Threads
<1> QED BY <1>1, <1>2, <1>3, <1>4, <1>5, <1>6, <1>7, <1>8, <1>9, <1>10
        DEF IInv, TypeOK

\* ... and every step of every thread preserves it.
LEMMA StepInvariant == IInv /\ [Next]_vars => IInv'
<1> SUFFICES ASSUME IInv, [Next]_vars PROVE IInv' OBVIOUS
<1>1. TypeOK'
  BY HeapStep, RegistryStep, KernelStep, TasksStep, ThreadsStep DEF TypeOK
<1>2. PointersOK' /\ QueueOK' BY PointersStep, QueueStep
<1>3. JobsOK' BY JobsStep DEF JobsOK
<1>4. HoldsMatchHandlers' BY HoldsStep DEF HoldsMatchHandlers, HoldOK
<1>5. ShutdownOK' BY ShutdownStep DEF ShutdownOK, ShutdownThreadOK
<1> QED BY <1>1, <1>2, <1>3, <1>4, <1>5 DEF IInv

\* The invariant that all the others follow from holds of every server.
THEOREM InductiveInvariant == Spec => []IInv
BY InitInvariant, StepInvariant, PTL DEF Spec

\* Every variable keeps its type, however many clients, descriptors, threads
\* and tasks there are.
THEOREM TypeCorrect == Spec => []TypeOK
<1>1. IInv => TypeOK BY DEF IInv
<1> QED BY <1>1, InductiveInvariant, PTL

\* LockCallAndUnlock(), the ReadLock() before it and Shutdown()'s Lock(): a
\* connection is read-locked by exactly the callbacks queued or running for it,
\* and they are gone before it is deleted.
THEOREM CallbacksHoldTheirConnection == Spec => []HoldsMatchHandlers
<1>1. IInv => HoldsMatchHandlers BY DEF IInv
<1> QED BY <1>1, InductiveInvariant, PTL

\* UNIXSocketConnection::Shutdown(): the thread about to close and delete a
\* connection is the only one there, and no callback is inside.
THEOREM ClosingIsExclusive == Spec => []CloseIsExclusive
<1>1. IInv => CloseIsExclusive
  <2> SUFFICES ASSUME IInv, NEW t \in Threads, pc[t] = "close"
               PROVE  /\ obj[cur[t]] = "live" /\ isShutdown[cur[t]]
                      /\ Handlers(cur[t]) = {}
                      /\ \A u \in Threads \ {t} : pc[u] = "close" => cur[u] # cur[t]
    BY DEF CloseIsExclusive
  <2>1. \A u \in Threads : pc[u] = "close" => connLock[cur[u]] = Locked(u)
    BY DEF IInv, ShutdownOK
  <2>2. /\ obj[cur[t]] = "live" /\ isShutdown[cur[t]] /\ cur[t] \in Conns
    BY DEF IInv, ShutdownOK, PointersOK, Created, WithoutConnection
  <2>3. Handlers(cur[t]) = {}
    <3>1. connLock[cur[t]] = Locked(t) BY <2>1
    <3>2. connLock[cur[t]].readers = {} BY <3>1 DEF Locked
    <3> QED BY <2>2, <3>2 DEF IInv, HoldsMatchHandlers
  <2>4. ASSUME NEW u \in Threads \ {t}, pc[u] = "close" PROVE cur[u] # cur[t]
    <3>1. connLock[cur[t]] = Locked(t) /\ connLock[cur[u]] = Locked(u)
      BY <2>1, <2>4
    <3>2. Locked(t).writer = {t} /\ Locked(u).writer = {u} BY DEF Locked
    <3> QED BY <2>4, <3>1, <3>2
  <2> QED BY <2>2, <2>3, <2>4
<1> QED BY <1>1, InductiveInvariant, PTL

-----------------------------------------------------------------------------
(* Server implements ConnectionLifecycle.                                  *)

\* A server that has just started is an initial state of ConnectionLifecycle.
LEMMA InitLifecycle == Init => Lifecycle!Init
BY DEF Init, Lifecycle!Init, Phase, Handlers, Unused, Locking

\* A step of ConnectionLifecycle, or a stutter, in the terms of Server.
Steps == [Lifecycle!Next]_<<[c \in Conns |-> Phase(c)], [c \in Conns |-> Handlers(c)]>>

\* Every step is a step of ConnectionLifecycle or changes nothing it can see.
LEMMA StepLifecycle == IInv /\ [Next]_vars => Steps
<1> SUFFICES ASSUME IInv, [Next]_vars PROVE Steps OBVIOUS
<1> DEFINE phase == [c \in Conns |-> Phase(c)]
           holds == [c \in Conns |-> Handlers(c)]
<1>0. /\ HeapOK /\ TasksOK /\ JobsOK /\ Listener \in Threads /\ Workers \subseteq Threads
      /\ HoldsMatchHandlers
  BY DEF IInv, TypeOK, Threads
<1>1. ASSUME UNCHANGED phase, UNCHANGED holds PROVE Steps
  BY <1>1 DEF Steps
<1>2. ASSUME task' = task PROVE UNCHANGED holds
  BY <1>2 DEF Handlers
<1>3. ASSUME UNCHANGED <<obj, isShutdown>> PROVE UNCHANGED phase
  BY <1>3 DEF Phase
<1>4. CASE UNCHANGED heapVars /\ UNCHANGED poolVars
  BY <1>1, <1>2, <1>3, <1>4 DEF heapVars, poolVars
<1>5. ASSUME NEW d \in Conns, Connect(d) PROVE Steps
  <2>1. \A c \in Conns : Phase(c)' = Phase(c)
    BY <1>0, <1>5 DEF Connect, Phase, HeapOK
  <2> QED BY <1>1, <1>2, <1>5, <2>1 DEF Connect, poolVars
<1>6. ASSUME NEW d \in Conns, NEW f \in Fds, Accept(d, f) PROVE Steps
  <2>1. ~isShutdown[d]
    BY <1>6 DEF Accept, IInv, PointersOK, Created
  <2>2. Phase(d) = "absent" /\ Phase(d)' = "open"
    BY <1>0, <1>6, <2>1 DEF Accept, Phase, HeapOK
  <2>3. \A c \in Conns : c # d => Phase(c)' = Phase(c)
    BY <1>0, <1>6 DEF Accept, Phase, HeapOK
  <2>4. UNCHANGED holds BY <1>2, <1>6 DEF Accept, poolVars
  <2>5. Lifecycle!Open(d)
    BY <2>2, <2>3, <2>4 DEF Lifecycle!Open
  <2> QED BY <2>5 DEF Steps, Lifecycle!Next
<1>7. CASE HoldNew \/ ErrorEvent \/ HoldData
  <2>1. PICK d \in Conns : d = cur[Listener]
    BY <1>0, <1>7 DEF HoldNew, ErrorEvent, HoldData, IInv, PointersOK, Created,
                      WithoutConnection
  <2>2. PICK k \in Locking : HoldAndAdd(k, d) /\ UNCHANGED <<obj, isShutdown, socket>>
    BY <1>7, <2>1 DEF HoldNew, ErrorEvent, HoldData, Locking
  <2>3. obj[d] = "live" /\ Add(k, d) BY <2>2 DEF HoldAndAdd
  <2>4. NewTask \in Tasks /\ task[NewTask] = Unused
    BY <2>3, NewTaskUnused DEF Add
  <2>5. \A c \in Conns : NewTask \notin Handlers(c)
    BY <2>4 DEF Handlers, Unused, Locking
  <2>6. \A c \in Conns : Handlers(c)' = IF c = d THEN Handlers(c) \cup {NewTask}
                                        ELSE Handlers(c)
    BY <2>1, <2>3, AddHandlers
  <2>7. UNCHANGED phase BY <1>3, <2>2
  <2>8. Phase(d) \in {"open", "shutDown"} BY <2>3 DEF Phase
  <2>9. Lifecycle!Hold(d, NewTask)
    BY <2>1, <2>4, <2>5, <2>6, <2>7, <2>8 DEF Lifecycle!Hold, Lifecycle!Exists
  <2> QED BY <2>1, <2>4, <2>9 DEF Steps, Lifecycle!Next
<1>8. CASE Hup \/ \E w \in Workers : DeferShutdown(w)
  <2>1. PICK t \in Threads, k \in {"Terminated", "Shutdown"} :
            Add(k, cur[t]) /\ UNCHANGED heapVars /\ pc[t] \notin WithoutConnection
    BY <1>0, <1>8 DEF Hup, DeferShutdown, WithoutConnection
  <2>2. cur[t] \in Conns BY <2>1 DEF IInv, PointersOK, Created
  <2>3. \A c \in Conns : Handlers(c)' = Handlers(c)
    BY <2>1, <2>2, AddHandlers DEF Locking
  <2> QED BY <1>1, <1>3, <2>1, <2>3 DEF heapVars
<1>9. ASSUME NEW w \in Workers, TakeTask(w) PROVE Steps
  BY <1>1, <1>2, <1>3, <1>9 DEF TakeTask, heapVars
<1>10. ASSUME NEW t \in Threads, SetShutdown(t) PROVE Steps
  <2>1. PICK d \in Conns : d = cur[t] /\ obj[d] = "live"
    BY <1>10 DEF SetShutdown, IInv, PointersOK, Created, WithoutConnection
  <2>2. UNCHANGED holds BY <1>2, <1>10 DEF SetShutdown, poolVars
  <2>3. \A c \in Conns : c # d => Phase(c)' = Phase(c)
    BY <1>0, <1>10, <2>1 DEF SetShutdown, Phase, HeapOK
  <2>4. Phase(d)' = "shutDown"
    BY <1>0, <1>10, <2>1 DEF SetShutdown, Phase, HeapOK
  <2>5. Phase(d) \in {"open", "shutDown"}
    BY <2>1 DEF Phase
  <2>6. CASE Phase(d) = "open"
    <3>1. Lifecycle!ShutDown(d)
      BY <2>1, <2>2, <2>3, <2>4, <2>6 DEF Lifecycle!ShutDown
    <3> QED BY <2>1, <3>1 DEF Steps, Lifecycle!Next
  <2>7. CASE Phase(d) = "shutDown"
    BY <1>1, <2>2, <2>3, <2>4, <2>7
  <2> QED BY <2>5, <2>6, <2>7
<1>11. ASSUME NEW t \in Threads, Exclude(t) PROVE Steps
  BY <1>1, <1>2, <1>3, <1>11 DEF Exclude, poolVars
<1>12. ASSUME NEW w \in Workers, CallbackReturns(w) PROVE Steps
  <2>1. PICK d \in Conns, t \in Tasks :
            d = cur[w] /\ t = job[w] /\ d = task[t].conn /\ task[t].kind \in Locking
    <3>1. pc[w] \in {"calls", "return"} /\ JobOK(w)
      BY <1>0, <1>12 DEF CallbackReturns, JobsOK
    <3>2. cur[w] \in Conns
      BY <1>0, <3>1 DEF IInv, PointersOK, Created, WithoutConnection
    <3> QED BY <3>1, <3>2 DEF JobOK, JobFits
  <2>2. \A c \in Conns : Handlers(c)' = Handlers(c) \ {t}
    BY <1>12, <2>1, EndHandlers DEF CallbackReturns
  <2>3. t \in Handlers(d) /\ \A c \in Conns : c # d => t \notin Handlers(c)
    BY <2>1 DEF Handlers
  <2>4. UNCHANGED phase BY <1>3, <1>12 DEF CallbackReturns
  <2>5. t \in holds[d] /\ holds' = [holds EXCEPT ![d] = @ \ {t}]
    BY <2>2, <2>3
  <2>6. Lifecycle!Release(d, t)
    BY <2>4, <2>5 DEF Lifecycle!Release
  <2> QED BY <2>1, <2>6 DEF Steps, Lifecycle!Next
<1>13. ASSUME NEW w \in Workers, task' = [task EXCEPT ![job[w]] = Unused],
              task[job[w]].kind \notin Locking
       PROVE  UNCHANGED holds
  <2>1. \A c \in Conns : job[w] \notin Handlers(c) BY <1>13 DEF Handlers
  <2>2. \A c \in Conns : Handlers(c)' = Handlers(c) BY <1>13, <2>1, EndHandlers
  <2> QED BY <2>2
<1>14. ASSUME NEW w \in Workers, TerminatedReturns(w) PROVE Steps
  <2>1. task[job[w]].kind \notin Locking
    BY <1>0, <1>14 DEF TerminatedReturns, JobsOK, JobOK, JobFits, Locking
  <2> QED BY <1>1, <1>3, <1>13, <1>14, <2>1 DEF TerminatedReturns, heapVars
<1>15. ASSUME NEW t \in Threads, Close(t) PROVE Steps
  <2>1. PICK d \in Conns : /\ d = cur[t] /\ pc[t] = "close"
                           /\ connLock[d] = Locked(t)
                           /\ obj[d] = "live" /\ isShutdown[d]
    BY <1>15 DEF Close, IInv, ShutdownOK, PointersOK, Created, WithoutConnection
  <2>2. UNCHANGED holds
    <3>1. CASE t \in {Listener, Reaper} BY <1>2, <1>15, <3>1 DEF Close
    <3>2. CASE t \notin {Listener, Reaper}
      <4>1. t \in Workers BY <3>2 DEF Threads
      <4>2. task[job[t]].kind \notin Locking
        BY <1>0, <2>1, <4>1 DEF JobsOK, JobOK, JobFits, Locking, ShutdownSteps
      <4> QED BY <1>13, <1>15, <3>2, <4>1, <4>2 DEF Close
    <3> QED BY <3>1, <3>2
  <2>3. Handlers(d) = {} BY <1>0, <2>1 DEF HoldsMatchHandlers, Locked
  <2>4. Phase(d) = "shutDown" BY <2>1 DEF Phase
  <2>5. Phase(d)' = "destroyed"
    BY <1>0, <1>15, <2>1 DEF Close, Phase, HeapOK
  <2>6. \A c \in Conns : c # d => Phase(c)' = Phase(c)
    BY <1>0, <1>15, <2>1 DEF Close, Phase, HeapOK
  <2>7. Lifecycle!Destroy(d)
    BY <2>1, <2>2, <2>3, <2>4, <2>5, <2>6 DEF Lifecycle!Destroy
  <2> QED BY <2>1, <2>7 DEF Steps, Lifecycle!Next
<1> QED BY HeapFrame, PoolFrame, <1>4, <1>5, <1>6, <1>7, <1>8, <1>9, <1>10, <1>11,
           <1>12, <1>14, <1>15

\* The server does what connection.h and server.h promise of a connection's
\* life: opened once, held by callbacks only while it exists, shut down for
\* good, destroyed once, after that, and held by nobody.
THEOREM ServerImplementsLifecycle == Spec => ImplementsLifecycle
<1>1. IInv /\ [Next]_vars
        => [Lifecycle!Next]_<<[c \in Conns |-> Phase(c)], [c \in Conns |-> Handlers(c)]>>
  BY StepLifecycle DEF Steps
<1> QED BY <1>1, InitLifecycle, InductiveInvariant, PTL
        DEF Spec, ImplementsLifecycle, Lifecycle!Spec
=============================================================================
