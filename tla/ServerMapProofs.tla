--------------------------- MODULE ServerMapProofs ---------------------------
(***************************************************************************)
(* Theorems about connections_, its lock and the events of module Server:  *)
(* what holds of every server, and what holds of one in which no search of *)
(* the map loses its way.                                                  *)
(***************************************************************************)
EXTENDS ServerProofs

\* A live connection has a descriptor of its own.
SocketsOK ==
    \A c \in Conns : obj[c] = "live" => socket[c] \in Fds /\ sock[socket[c]].owner = c

\* A connection is filed under the descriptor it was created with.
EntriesOK == \A f \in Fds : connections[f] \in Conns => socket[connections[f]] = f

\* Where Listen() and the reaper are inside connections_lock_, and the callbacks.
Inside(t) == \/ t = Listener /\ pc[t] = "hold_data"
             \/ t = Reaper /\ pc[t] \notin {"sleep", "lock", "stopped"}
Readers == {w \in Workers : pc[w] \in {"receive", "calls", "return"}}

PoolLockOK ==
    /\ \A t \in {Listener, Reaper} : Inside(t) => poolLock = Locked(t)
    /\ \A t \in poolLock.writer : Inside(t)
    /\ poolLock.readers = Readers

\* The reaper has erased the connection it is working on.
ReaperOK ==
    pc[Reaper] \in {"judge", "notify"} \cup ShutdownSteps =>
        /\ pc[Reaper] # "dequeue"
        /\ \A f \in Fds : connections[f] # cur[Reaper]

MapInv == SocketsOK /\ EntriesOK /\ PoolLockOK /\ ReaperOK

-----------------------------------------------------------------------------
(* A server in which every search of the map finds what is there.          *)

\* Nobody but the listener, which has just made it, knows of connection c.
Fresh(c) ==
    /\ obj[c] = "live"
    /\ \A f \in Fds : connections[f] # c
    /\ \A t \in Tasks : task[t].conn # c
    /\ \A t \in Threads \ {Listener} : pc[t] \notin WithoutConnection => cur[t] # c

\* A connection that has been dequeued, or deleted, is filed nowhere, and what
\* is dequeued is its own entry.
UnfiledOK ==
    /\ \A t \in Threads : pc[t] \in {"exclusive", "close"}
          => \A f \in Fds : connections[f] # cur[t]
    /\ \A c \in Conns : obj[c] = "deleted" => \A f \in Fds : connections[f] # c
    /\ \A t \in Threads : pc[t] = "dequeue" => entry[t] = socket[cur[t]]

\* Between the two look-ups the entry may go, but no other takes its place.
RecheckOK ==
    /\ pc[Listener] = "register" => Fresh(cur[Listener])
    /\ pc[Listener] \in {"recheck", "hold_data"}
          => entry[Listener] \in Fds /\ connections[entry[Listener]] \in {Absent, cur[Listener]}
    /\ pc[Listener] = "hold_data" => connections[entry[Listener]] = cur[Listener]

FiledInv == UnfiledOK /\ RecheckOK

-----------------------------------------------------------------------------
(* Descriptors and entries.                                                *)

\* A step that neither makes a connection nor closes one leaves every descriptor
\* with the connection it belongs to.
LEMMA OwnersFrame ==
    ASSUME IInv, [Next]_vars
    PROVE  \/ UNCHANGED <<obj, socket>> /\ \A f \in Fds : sock'[f].owner = sock[f].owner
           \/ \E c \in Conns : Connect(c)
           \/ \E c \in Conns, f \in Fds : Accept(c, f)
           \/ \E t \in Threads : Close(t)
<1>0. KernelOK BY DEF IInv, TypeOK
<1>1. \/ UNCHANGED <<obj, socket>>
      \/ \E c \in Conns : Connect(c)
      \/ \E c \in Conns, f \in Fds : Accept(c, f)
      \/ \E t \in Threads : Close(t)
  BY HeapFrame DEF heapVars, HoldNew, ErrorEvent, HoldData, SetShutdown, Exclude,
                   CallbackReturns
<1>2. \/ \A f \in Fds : sock'[f].owner = sock[f].owner
      \/ \E c \in Conns, f \in Fds : Accept(c, f)
      \/ \E t \in Threads : Close(t)
  <2>1. CASE \E f \in Fds : PeerSend(f) \/ PeerClose(f) \/ SocketError(f)
    BY <1>0, <2>1 DEF KernelOK, Socket, PeerSend, PeerClose, SocketError, SocketChange
  <2>2. CASE \E w \in Workers : Receive(w)
    BY <1>0, <2>2 DEF KernelOK, Socket, Receive
  <2>3. CASE UNCHANGED sock BY <2>3
  <2> QED BY KernelFrame, <2>1, <2>2, <2>3
          DEF kernelVars, EpollWait, EpollAdd, Reap, Dequeue
<1> QED BY <1>1, <1>2

\* The steps that may change the map.
LEMMA EntriesFrame ==
    ASSUME [Next]_vars
    PROVE  \/ UNCHANGED connections
           \/ Register
           \/ \E f \in Fds : LookupNothing(f) \/ Reap(f)
           \/ \E t \in Threads : Dequeue(t)
BY RegistryFrame
DEF serverVars, RecheckGone, RecheckFound, HoldData, ReaperLocks, ReaperUnlocks, Acquire,
    StopServer, CallbackReturns

\* accept() gives a connection a closed descriptor, close() comes with `delete'.
LEMMA OwnersStep ==
    ASSUME IInv, SocketsOK, [Next]_vars
    PROVE  SocketsOK'
<1>0. HeapOK /\ KernelOK BY DEF IInv, TypeOK
<1>1. CASE UNCHANGED <<obj, socket>> /\ \A f \in Fds : sock'[f].owner = sock[f].owner
  BY <1>1 DEF SocketsOK
<1>2. ASSUME NEW c \in Conns, Connect(c) PROVE SocketsOK'
  BY <1>0, <1>2 DEF Connect, kernelVars, SocketsOK, HeapOK
<1>3. ASSUME NEW c \in Conns, NEW f \in Fds, Accept(c, f) PROVE SocketsOK'
  <2>1. \A d \in Conns \ {c} : obj'[d] = "live" => obj[d] = "live" /\ socket'[d] = socket[d]
    BY <1>0, <1>3 DEF Accept, HeapOK
  <2>2. \A d \in Conns : obj[d] = "live" => socket[d] # f
    BY <1>3, ServerAssumption DEF Accept, SocketsOK, Closed
  <2>3. \A g \in Fds : g # f => sock'[g] = sock[g] BY <1>0, <1>3 DEF Accept, KernelOK
  <2>4. socket'[c] = f /\ sock'[f].owner = c
    BY <1>0, <1>3 DEF Accept, HeapOK, KernelOK, Socket
  <2> QED BY <2>1, <2>2, <2>3, <2>4 DEF SocketsOK
<1>4. ASSUME NEW t \in Threads, Close(t) PROVE SocketsOK'
  <2>1. /\ cur[t] \in Conns /\ obj[cur[t]] = "live" /\ socket' = socket
        /\ sock' = [sock EXCEPT ![socket[cur[t]]] = Closed]
        /\ obj' = [obj EXCEPT ![cur[t]] = "deleted"]
    BY <1>4 DEF Close, IInv, ShutdownOK, PointersOK, Created, WithoutConnection
  <2>2. \A d \in Conns : obj'[d] = "live" => d # cur[t] /\ obj[d] = "live"
    BY <1>0, <2>1 DEF HeapOK
  <2>3. \A d \in Conns : obj'[d] = "live" => socket[d] # socket[cur[t]]
    BY <2>1, <2>2 DEF SocketsOK
  <2> QED BY <1>0, <2>1, <2>2, <2>3 DEF SocketsOK, KernelOK
<1> QED BY OwnersFrame, <1>1, <1>2, <1>3, <1>4

\* Listen() files a connection under its descriptor; nobody else adds one.
LEMMA FilingStep ==
    ASSUME IInv, EntriesOK, [Next]_vars
    PROVE  EntriesOK'
<1>0. HeapOK /\ RegistryOK /\ Listener \in Threads BY DEF IInv, TypeOK, Threads
<1>1. \/ Register
      \/ \A f \in Fds : connections'[f] \in Conns => connections'[f] = connections[f]
  <2>1. ASSUME NEW f \in Fds, LookupNothing(f)
        PROVE  \A g \in Fds : connections'[g] \in Conns => connections'[g] = connections[g]
    BY <1>0, <2>1, ServerAssumption DEF LookupNothing, RegistryOK
  <2>2. ASSUME NEW e, Erase(e)
        PROVE  \A g \in Fds : connections'[g] \in Conns => connections'[g] = connections[g]
    BY <1>0, <2>2, ServerAssumption DEF Erase, RegistryOK
  <2> QED BY EntriesFrame, <2>1, <2>2 DEF Reap, Dequeue
<1>2. \A c \in Conns : Created(c) => socket'[c] = socket[c]
  BY <1>0, HeapFrame DEF heapVars, Connect, Accept, HoldNew, ErrorEvent, HoldData, SetShutdown,
                   Exclude, Close, CallbackReturns, Created, HeapOK
<1>3. \A f \in Fds : connections[f] \in Conns => Created(connections[f])
  BY DEF IInv, PointersOK
<1>4. Register => Created(cur[Listener])
  BY <1>0 DEF Register, IInv, PointersOK, WithoutConnection
<1>5. CASE Register
  <2>1. \A f \in Fds : \/ connections'[f] = connections[f]
                       \/ connections'[f] = cur[Listener] /\ f = socket[cur[Listener]]
    BY <1>0, <1>5 DEF Register, RegistryOK
  <2> QED BY <1>2, <1>3, <1>4, <1>5, <2>1 DEF EntriesOK, Created
<1> QED BY <1>1, <1>2, <1>3, <1>5 DEF EntriesOK, Created

-----------------------------------------------------------------------------
(* Who is inside connections_lock_.                                        *)

Reading == {"receive", "calls", "return"}

\* A step of t enters the lock, leaves it, or changes neither the lock nor
\* whether t is inside.
LEMMA LockCases ==
    ASSUME IInv, NEW t \in Threads, ThreadNext(t)
    PROVE  \/ /\ poolLock' = poolLock
              /\ t \in {Listener, Reaper} => (Inside(t)' <=> Inside(t))
              /\ t \in Workers => (pc'[t] \in Reading <=> pc[t] \in Reading)
           \/ t = Listener /\ (RecheckFound \/ HoldData)
           \/ t = Reaper /\ (ReaperLocks \/ ReaperUnlocks)
           \/ t \in Workers /\ (Acquire(t) \/ CallbackReturns(t))
<1>0. TypeOK BY DEF IInv
<1> USE ServerAssumption
    DEF TypeOK, ThreadsOK, Goto, Inside, Reading, serverVars, Labels
<1>1. CASE t = Listener /\ ListenerNext
  BY <1>0, <1>1
  DEF ListenerNext, EpollWait, ListenerReturns, RoundEnds, AcceptFails, Accept,
      Register, EpollAdd, EpollAddFails, HoldNew, LookupNothing, LookupConnection,
      Hup, ErrorEvent, RecheckGone, NextEventIs
<1>2. CASE t = Reaper /\ ReaperNext
  BY <1>0, <1>2
  DEF ReaperNext, ReaperWakes, Keep, Reap, JudgeShutdown, JudgeIdle,
      ReaperNotified, ReaperAdvances
<1>3. CASE t \in Workers /\ WorkerNext(t)
  BY <1>0, <1>3
  DEF WorkerNext, TakeTask, FirstStep, Receive, DeferShutdown, StopServer, TerminatedReturns
<1>4. CASE ShutdownNext(t)
  BY <1>0, <1>4
  DEF ShutdownNext, SetShutdown, SearchFinds, SearchMisses, Dequeue, Exclude, Close, Threads
<1>5. CASE FaultNext(t)
  BY <1>5 DEF FaultNext, UseAfterFree, MapRace, EraseCrash, ReaperMeetsDeleted,
              ReaperMeetsNull, Fault
<1> QED BY <1>1, <1>2, <1>3, <1>4, <1>5 DEF ThreadNext

\* The values of connections_lock_.
LEMMA PoolLockValues ==
    ASSUME IInv
    PROVE  /\ \A t : Locked(t).writer = {t} /\ Locked(t).readers = {}
           /\ Free.writer = {} /\ Free.readers = {}
           /\ \A t : Locked(t) # Free
           /\ \A t : ReadLocked(poolLock, t).writer = poolLock.writer
                     /\ ReadLocked(poolLock, t).readers = poolLock.readers \cup {t}
           /\ \A t : ReadUnlocked(poolLock, t).writer = poolLock.writer
                     /\ ReadUnlocked(poolLock, t).readers = poolLock.readers \ {t}
<1>1. \A t : Locked(t).writer = {t} /\ Locked(t).readers = {} BY DEF Locked
<1>2. Free.writer = {} /\ Free.readers = {} BY DEF Free
<1>3. \A t : Locked(t) # Free BY <1>1, <1>2
<1> QED BY <1>1, <1>2, <1>3 DEF ReadLocked, ReadUnlocked

\* The lock is where the labels of the threads say.
LEMMA PoolLockStep ==
    ASSUME IInv, PoolLockOK, [Next]_vars
    PROVE  PoolLockOK'
<1>0. TypeOK /\ Listener \in Threads /\ Reaper \in Threads /\ Workers \subseteq Threads
  BY DEF IInv, Threads
<1>1. CASE UNCHANGED <<poolLock, pc>>
  BY <1>1 DEF PoolLockOK, Inside, Readers
<1>2. ASSUME NEW t \in Threads, ThreadNext(t) PROVE PoolLockOK'
  <2>1. /\ \A u \in Threads \ {t} : pc'[u] = pc[u]
        /\ \A u \in {Listener, Reaper} \ {t} : Inside(u)' <=> Inside(u)
        /\ \A u \in Workers \ {t} : u \in Readers' <=> u \in Readers
    BY <1>0, <1>2, OthersStay DEF Inside, Readers
  <2>a. /\ \A w \in Workers : w \in Readers <=> pc[w] \in Reading
        /\ \A w \in Workers : w \in Readers' <=> pc'[w] \in Reading
        /\ Readers \subseteq Workers /\ Readers' \subseteq Workers
    BY DEF Readers, Reading
  <2>b. \A u \in poolLock.writer : u \in {Listener, Reaper} BY DEF PoolLockOK, Inside
  <2>2. CASE /\ poolLock' = poolLock
             /\ t \in {Listener, Reaper} => (Inside(t)' <=> Inside(t))
             /\ t \in Workers => (pc'[t] \in Reading <=> pc[t] \in Reading)
    <3>1. Readers' = Readers BY <2>1, <2>2, <2>a
    <3>2. \A u \in {Listener, Reaper} : Inside(u)' <=> Inside(u) BY <2>1, <2>2
    <3> QED BY <2>2, <2>b, <3>1, <3>2 DEF PoolLockOK
  <2>3. CASE t = Listener /\ (RecheckFound \/ HoldData)
    <3>1. /\ Readers' = Readers
          /\ Inside(Reaper)' <=> Inside(Reaper)
      BY <2>1, <2>3, <2>a, ServerAssumption
    <3>2. CASE RecheckFound
      <4>1. /\ poolLock = Free /\ poolLock' = Locked(Listener)
            /\ Inside(Listener)'
        BY <1>0, <3>2 DEF RecheckFound, CanLock, Goto, Inside, TypeOK, ThreadsOK
      <4>2. ~Inside(Reaper) /\ Readers = {}
        BY <4>1, PoolLockValues DEF PoolLockOK
      <4> QED BY <3>1, <4>1, <4>2, PoolLockValues DEF PoolLockOK
    <3>3. CASE HoldData
      <4>1. /\ Inside(Listener) /\ poolLock' = Free /\ ~Inside(Listener)'
        BY <1>0, <3>3, ServerAssumption
        DEF HoldData, Goto, Inside, TypeOK, ThreadsOK
      <4>2. poolLock = Locked(Listener) BY <4>1 DEF PoolLockOK
      <4>3. ~Inside(Reaper) /\ Readers = {}
        BY <4>2, PoolLockValues, ServerAssumption DEF PoolLockOK
      <4> QED BY <3>1, <4>1, <4>3, PoolLockValues DEF PoolLockOK
    <3> QED BY <2>3, <3>2, <3>3
  <2>4. CASE t = Reaper /\ (ReaperLocks \/ ReaperUnlocks)
    <3>1. /\ Readers' = Readers
          /\ Inside(Listener)' <=> Inside(Listener)
      BY <2>1, <2>4, <2>a, ServerAssumption
    <3>2. CASE ReaperLocks
      <4>1. /\ poolLock = Free /\ poolLock' = Locked(Reaper)
            /\ Inside(Reaper)'
        BY <1>0, <3>2 DEF ReaperLocks, CanLock, Goto, Inside, TypeOK, ThreadsOK
      <4>2. ~Inside(Listener) /\ Readers = {}
        BY <4>1, PoolLockValues DEF PoolLockOK
      <4>3. /\ poolLock'.writer = {Reaper} /\ poolLock'.readers = {}
            /\ Readers' = {} /\ ~Inside(Listener)'
        BY <3>1, <4>1, <4>2, PoolLockValues
      <4> QED BY <4>1, <4>3 DEF PoolLockOK
    <3>3. CASE ReaperUnlocks
      <4>1. /\ Inside(Reaper) /\ poolLock' = Free /\ ~Inside(Reaper)'
        BY <1>0, <3>3, ServerAssumption
        DEF ReaperUnlocks, Goto, Inside, TypeOK, ThreadsOK
      <4>2. poolLock = Locked(Reaper) BY <4>1 DEF PoolLockOK
      <4>3. ~Inside(Listener) /\ Readers = {}
        BY <4>2, PoolLockValues, ServerAssumption DEF PoolLockOK
      <4> QED BY <3>1, <4>1, <4>3, PoolLockValues DEF PoolLockOK
    <3> QED BY <2>4, <3>2, <3>3
  <2>5. CASE t \in Workers /\ (Acquire(t) \/ CallbackReturns(t))
    <3>1. \A u \in {Listener, Reaper} : Inside(u)' <=> Inside(u)
      BY <2>1, <2>5, ServerAssumption
    <3>2. CASE Acquire(t)
      <4>1. /\ poolLock.writer = {} /\ poolLock' = ReadLocked(poolLock, t)
            /\ pc'[t] \in Reading
        BY <1>0, <3>2 DEF Acquire, CanReadLock, Goto, Reading, TypeOK, ThreadsOK
      <4>2. \A u \in {Listener, Reaper} : ~Inside(u)
        BY <4>1, PoolLockValues DEF PoolLockOK
      <4>3. Readers' = Readers \cup {t} BY <2>1, <2>5, <2>a, <4>1
      <4> QED BY <3>1, <4>1, <4>2, <4>3, PoolLockValues DEF PoolLockOK
    <3>3. CASE CallbackReturns(t)
      <4>1. /\ pc[t] \in Reading /\ poolLock' = ReadUnlocked(poolLock, t)
            /\ pc'[t] \notin Reading
        BY <1>0, <3>3 DEF CallbackReturns, Goto, Reading, TypeOK, ThreadsOK
      <4>2. t \in poolLock.readers BY <2>5, <2>a, <4>1 DEF PoolLockOK
      <4>3. \A u \in {Listener, Reaper} : ~Inside(u)
        BY <4>2, PoolLockValues DEF PoolLockOK
      <4>4. Readers' = Readers \ {t} BY <2>1, <2>5, <2>a, <4>1
      <4> QED BY <2>b, <3>1, <4>1, <4>3, <4>4, PoolLockValues DEF PoolLockOK
    <3> QED BY <2>5, <3>2, <3>3
  <2> QED BY <1>2, LockCases, <2>2, <2>3, <2>4, <2>5
<1>3. CASE PeerNext \/ UNCHANGED vars
  BY <1>1, <1>3, ProgramStays DEF serverVars
<1> QED BY <1>2, <1>3 DEF Next

\* Once erased, the connection the reaper works on stays out of the map: the
\* lock is the reaper's, and Shutdown() finds nothing to dequeue.
LEMMA ReaperStep ==
    ASSUME IInv, EntriesOK, PoolLockOK, ReaperOK, [Next]_vars
    PROVE  ReaperOK'
<1>0. TypeOK /\ Listener \in Threads /\ Reaper \in Threads BY DEF IInv, Threads
<1> DEFINE Working == {"judge", "notify"} \cup ShutdownSteps
<1>1. CASE pc[Reaper] \in Working /\ pc'[Reaper] \in Working /\ pc'[Reaper] # "dequeue"
           /\ cur'[Reaper] = cur[Reaper]
  <2>1. poolLock # Free /\ cur[Reaper] \in Conns
    <3>1. Inside(Reaper) BY <1>1 DEF Inside, ShutdownSteps
    <3>2. Created(cur[Reaper])
      BY <1>0, <1>1 DEF IInv, PointersOK, WithoutConnection, ShutdownSteps
    <3> QED BY <3>1, <3>2, PoolLockValues DEF PoolLockOK, Created
  <2>2. \A f \in Fds : connections'[f] \in {connections[f], Null, Absent}
    <3>1. ~Register /\ \A t \in Threads : ~Dequeue(t)
      BY <2>1 DEF Register, Dequeue, CanLock
    <3>2. ASSUME NEW e \in Fds, LookupNothing(e) \/ Reap(e)
          PROVE  \A f \in Fds : connections'[f] \in {connections[f], Null, Absent}
      BY <1>0, <3>2 DEF LookupNothing, Reap, Erase, TypeOK, RegistryOK
    <3> QED BY EntriesFrame, <3>1, <3>2
  <2> QED BY <1>1, <2>1, <2>2, ServerAssumption DEF ReaperOK
<1>2. CASE pc'[Reaper] \notin Working BY <1>2 DEF ReaperOK
<1>3. ASSUME ThreadNext(Reaper) PROVE ReaperOK'
  <2>1. ASSUME NEW f \in Fds, Reap(f) PROVE ReaperOK'
    <3>1. PICK c \in Conns :
             /\ c = connections[f] /\ cur'[Reaper] = c /\ pc'[Reaper] = "judge"
             /\ connections' = [connections EXCEPT ![f] = Absent]
      BY <1>0, <2>1 DEF Reap, Erase, Goto, TypeOK, ThreadsOK
    <3>2. \A g \in Fds : connections[g] = c => g = f BY <3>1 DEF EntriesOK
    <3> QED BY <1>0, <3>1, <3>2, ServerAssumption DEF ReaperOK, TypeOK, RegistryOK
  <2>2. CASE ReaperNext /\ \A f \in Fds : ~Reap(f)
    BY <1>0, <1>1, <1>2, <2>2
    DEF ReaperNext, ReaperWakes, ReaperLocks, Keep, JudgeShutdown, JudgeIdle, ReaperNotified,
        ReaperAdvances, ReaperUnlocks, Goto, TypeOK, ThreadsOK, localVars, ShutdownSteps
  <2>3. CASE ShutdownNext(Reaper)
    <3>1. \A f \in Fds : ~SearchFinds(Reaper, f)
      BY DEF SearchFinds, ReaperOK, ShutdownSteps
    <3>2. ~Dequeue(Reaper) BY DEF Dequeue, ReaperOK, ShutdownSteps
    <3> QED BY <1>0, <1>1, <2>3, <3>1, <3>2
            DEF ShutdownNext, SetShutdown, SearchMisses, Exclude, Close, Goto, TypeOK,
                ThreadsOK, localVars, ShutdownSteps
  <2>4. CASE FaultNext(Reaper)
    BY <1>1, <1>2, <2>4
    DEF FaultNext, UseAfterFree, MapRace, EraseCrash, ReaperMeetsDeleted, ReaperMeetsNull,
        Fault, localVars, ReaperOK
  <2> QED BY <1>3, <2>1, <2>2, <2>3, <2>4, ServerAssumption DEF ThreadNext
<1>4. CASE UNCHANGED <<pc, cur>>
  BY <1>1, <1>2, <1>4 DEF ReaperOK
<1>5. ASSUME NEW t \in Threads, t # Reaper, ThreadNext(t) PROVE ReaperOK'
  <2>1. pc'[Reaper] = pc[Reaper] /\ cur'[Reaper] = cur[Reaper]
    BY <1>0, <1>5, OthersStay
  <2> QED BY <1>1, <1>2, <2>1 DEF ReaperOK
<1> QED BY <1>3, <1>4, <1>5, ProgramStays DEF Next, localVars

-----------------------------------------------------------------------------
\* The map of an empty server is consistent.
LEMMA InitMap == Init => MapInv
<1> SUFFICES ASSUME Init PROVE MapInv OBVIOUS
<1> USE ServerAssumption DEF Init
<1>1. SocketsOK /\ EntriesOK BY DEF SocketsOK, EntriesOK
<1>2. /\ pc[Listener] = "epoll_wait" /\ pc[Reaper] = "sleep"
      /\ \A w \in Workers : pc[w] = "free"
  BY DEF Threads
<1>3. PoolLockOK BY <1>2 DEF PoolLockOK, Inside, Readers, Free
<1>4. ReaperOK BY <1>2 DEF ReaperOK, ShutdownSteps
<1> QED BY <1>1, <1>3, <1>4 DEF MapInv

\* Every step of a thread keeps the map and the file descriptors in agreement.
LEMMA StepMap == IInv /\ MapInv /\ [Next]_vars => MapInv'
BY OwnersStep, FilingStep, PoolLockStep, ReaperStep DEF MapInv

\* Every server keeps descriptors, entries and the lock of the map in order.
THEOREM MapInvariant == Spec => []MapInv
BY InitMap, StepMap, InductiveInvariant, PTL DEF Spec

\* Listen() and DequeueConnection(): an event of a descriptor that a live
\* connection is filed under belongs to that connection, however often
\* descriptors are closed and reused and whatever an erroneous search misses.
THEOREM EventsReachTheirConnection == Spec => []EntriesMatchSockets
<1>1. MapInv => EntriesMatchSockets
  BY DEF MapInv, SocketsOK, EntriesOK, EntriesMatchSockets
<1> QED BY <1>1, MapInvariant, PTL

\* connections_lock_ is not recursive: no thread that asks for it, the reaper
\* inside conn->Shutdown() among them, is inside it already.
THEOREM NobodyLocksTwice == Spec => []NoSelfDeadlock
<1>1. IInv /\ MapInv => NoSelfDeadlock
  <2> SUFFICES ASSUME IInv, MapInv, NEW t \in Threads,
                      pc[t] \in {"register", "recheck", "lock", "dequeue", "acquire"}
               PROVE  ~Holds(poolLock, t)
    BY DEF NoSelfDeadlock
  <2>1. t \notin poolLock.readers
    BY DEF MapInv, PoolLockOK, Readers
  <2>2. ~Inside(t)
    <3>1. pc[t] \in Labels(t) BY DEF IInv, TypeOK, ThreadsOK
    <3>2. CASE t = Reaper
      BY <3>1, <3>2, ServerAssumption
      DEF MapInv, ReaperOK, Inside, Labels, ReaperSteps, ShutdownSteps
    <3>3. CASE t # Reaper BY <3>3 DEF Inside
    <3> QED BY <3>2, <3>3
  <2> QED BY <2>1, <2>2 DEF MapInv, PoolLockOK, Holds
<1> QED BY <1>1, InductiveInvariant, MapInvariant, PTL

-----------------------------------------------------------------------------
(* Events and entries.                                                     *)

\* What a step does to the array of events.
LEMMA EventsFrame ==
    ASSUME [Next]_vars
    PROVE  \/ UNCHANGED events
           \/ EpollWait
           \/ Register
           \/ events # <<>> /\ events' = Tail(events) /\ pc[Listener] = "dispatch"
<1>1. CASE \E t \in Threads : ThreadNext(t)
  BY <1>1
  DEF ThreadNext, ListenerNext, ListenerReturns, RoundEnds, AcceptFails, Accept, NextEventIs,
      EpollAdd, EpollAddFails, HoldNew, LookupNothing, LookupConnection, Hup, ErrorEvent,
      RecheckGone, RecheckFound, HoldData, ReaperNext, ReaperWakes, ReaperLocks, Keep, Reap,
      JudgeShutdown, JudgeIdle, ReaperNotified, ReaperAdvances, ReaperUnlocks, WorkerNext,
      TakeTask, Acquire, Receive, DeferShutdown, StopServer, CallbackReturns,
      TerminatedReturns, ShutdownNext, SetShutdown, SearchFinds, SearchMisses, Dequeue,
      Exclude, Close, FaultNext, UseAfterFree, MapRace, EraseCrash, ReaperMeetsDeleted,
      ReaperMeetsNull, Fault, localVars
<1>2. CASE PeerNext \/ UNCHANGED vars
  BY <1>2, ProgramStays DEF localVars
<1> QED BY <1>1, <1>2 DEF Next

\* What is left of a round when its first event is taken.
LEMMA TailEvents ==
    ASSUME events \in Seq(Event), events # <<>>
    PROVE  /\ 1 \in DOMAIN events /\ Head(events) = events[1]
           /\ \A i \in DOMAIN Tail(events) : /\ i \in Nat /\ i + 1 \in DOMAIN events
                                             /\ Tail(events)[i] = events[i + 1]
                                             /\ i + 1 # 1
OBVIOUS

\* epoll_wait() stores an event per descriptor, each of one that is ready.
LEMMA WaitEvents ==
    ASSUME IInv, EpollWait
    PROVE  /\ \A i, j \in DOMAIN events' : events'[i].fd = events'[j].fd => i = j
           /\ \A i \in DOMAIN events' :
                 \/ events'[i].fd = ServerFd /\ events'[i].mask = {"IN"}
                 \/ events'[i].fd \in ready /\ events'[i].mask = Mask(sock[events'[i].fd])
<1>1. PICK k : /\ events' \in [1 .. k -> Available]
               /\ \A i, j \in 1 .. k : events'[i] = events'[j] => i = j
  BY DEF EpollWait
<1>2. \A e \in Available :
          \/ e.fd = ServerFd /\ e.mask = {"IN"}
          \/ e.fd \in ready /\ e.mask = Mask(sock[e.fd]) /\ e.fd # ServerFd
  BY ServerAssumption DEF Available, IInv, TypeOK, KernelOK
<1>3. \A e \in Available : e = [fd |-> e.fd, mask |-> e.mask]
  BY DEF Available
<1>4. \A e, d \in Available : e.fd = d.fd => e = d
  BY <1>2, <1>3
<1> QED BY <1>1, <1>2, <1>4

\* A created connection keeps its descriptor.
LEMMA SocketStays ==
    ASSUME IInv, [Next]_vars, NEW c, Created(c)
    PROVE  socket'[c] = socket[c]
<1>0. HeapOK BY DEF IInv, TypeOK
<1> QED BY <1>0, HeapFrame
        DEF heapVars, Connect, Accept, HoldNew, ErrorEvent, HoldData, SetShutdown,
            Exclude, Close, CallbackReturns, Created, HeapOK

\* What happens to one entry in a step: only Listen() fills it, at `register' with
\* the new connection and at `dispatch' with 0, and only Dequeue() and Reap(), one
\* with the lock free and the other inside it, empty it.
LEMMA EntryChanges ==
    ASSUME IInv, [Next]_vars, NEW f \in Fds
    PROVE  \/ connections'[f] = connections[f]
           \/ /\ Register /\ f = socket[cur[Listener]]
              /\ connections'[f] = cur[Listener] /\ cur[Listener] \in Conns
           \/ pc[Listener] = "dispatch" /\ connections'[f] = Null
           \/ /\ connections'[f] = Absent
              /\ poolLock = Free \/ pc[Reaper] = "scan"
<1>0. RegistryOK BY DEF IInv, TypeOK
<1>1. CASE Register
  <2>1. cur[Listener] \in Conns
    BY <1>1 DEF Register, IInv, PointersOK, Created, WithoutConnection, Threads
  <2> QED BY <1>0, <1>1, <2>1 DEF Register, RegistryOK
<1>2. ASSUME NEW g \in Fds, LookupNothing(g)
      PROVE  \/ connections'[f] = connections[f]
             \/ pc[Listener] = "dispatch" /\ connections'[f] = Null
  BY <1>0, <1>2 DEF LookupNothing, NextEventIs, RegistryOK
<1>3. ASSUME NEW g \in Fds, Reap(g)
      PROVE  \/ connections'[f] = connections[f]
             \/ connections'[f] = Absent /\ pc[Reaper] = "scan"
  BY <1>0, <1>3 DEF Reap, Erase, RegistryOK
<1>4. ASSUME NEW t \in Threads, Dequeue(t)
      PROVE  \/ connections'[f] = connections[f]
             \/ connections'[f] = Absent /\ poolLock = Free
  BY <1>0, <1>4 DEF Dequeue, Erase, CanLock, RegistryOK
<1> QED BY EntriesFrame, <1>1, <1>2, <1>3, <1>4

\* A connection that accept() has just made is known to the listener alone ...
LEMMA AcceptedIsFresh ==
    ASSUME IInv, NEW c \in Conns, NEW f \in Fds, Accept(c, f)
    PROVE  cur'[Listener] = c /\ Fresh(c)'
<1>0. TypeOK /\ PointersOK /\ Listener \in Threads BY DEF IInv, Threads
<1>1. ~Created(c) BY <1>0 DEF Accept, Created
<1>2. /\ obj'[c] = "live" /\ cur'[Listener] = c /\ connections' = connections
      /\ task' = task
      /\ \A t \in Threads \ {Listener} : pc'[t] = pc[t] /\ cur'[t] = cur[t]
  BY <1>0 DEF Accept, Goto, serverVars, poolVars, TypeOK, HeapOK, ThreadsOK
<1>3. \A t \in Tasks : task[t].conn # c
  BY <1>0, <1>1, ServerAssumption DEF PointersOK, Unused
<1> QED BY <1>0, <1>1, <1>2, <1>3 DEF Fresh, PointersOK

\* ... and stays so while the listener waits for the lock to file it.
LEMMA FreshStays ==
    ASSUME IInv, [Next]_vars, NEW c \in Conns, Fresh(c), pc[Listener] = "register",
           ~ThreadNext(Listener)
    PROVE  Fresh(c)'
<1>0. TypeOK /\ Listener \in Threads /\ Reaper \in Threads /\ Workers \subseteq Threads
  BY DEF IInv, Threads
<1>1. ASSUME NEW t \in Threads, t # Listener, ThreadNext(t) PROVE Fresh(c)'
  <2>1. /\ \A u \in Threads \ {t} : pc'[u] = pc[u] /\ cur'[u] = cur[u]
        /\ pc'[Listener] = "register"
    BY <1>0, <1>1, OthersStay
  <2>2. /\ ~HoldNew /\ ~Hup /\ ~ErrorEvent /\ ~HoldData
        /\ \A d \in Conns, f \in Fds : ~Accept(d, f)
    BY DEF HoldNew, Hup, ErrorEvent, HoldData, Accept, NextEventIs
  <2>3. obj'[c] = "live"
    <3>1. ASSUME NEW u \in Threads, Close(u) PROVE cur[u] # c
      BY <3>1 DEF Close, Fresh, WithoutConnection
    <3>2. ASSUME NEW u \in Threads, SetShutdown(u) \/ Exclude(u) \/ Close(u)
          PROVE  obj'[c] = "live"
      BY <1>0, <3>1, <3>2 DEF SetShutdown, Exclude, Close, Fresh, TypeOK, HeapOK
    <3>3. ASSUME NEW d \in Conns, Connect(d) PROVE obj'[c] = "live"
      BY <1>0, <3>3 DEF Connect, Fresh, TypeOK, HeapOK
    <3> QED BY HeapFrame, <2>2, <3>2, <3>3 DEF heapVars, CallbackReturns, Fresh
  <2>4. \A f \in Fds : connections'[f] # c
    <3>1. ~Register
      BY <1>0, <2>1 DEF Register, Goto, TypeOK, ThreadsOK
    <3> QED BY <3>1, EntryChanges, ServerAssumption DEF Fresh
  <2>5. \A u \in Tasks : task'[u].conn # c
    <3>1. ASSUME NEW w \in Workers, DeferShutdown(w) PROVE \A u \in Tasks : task'[u].conn # c
      <4>1. cur[w] # c /\ cur[w] \in Conns
        BY <1>0, <3>1, ServerAssumption
        DEF DeferShutdown, Fresh, WithoutConnection, IInv, PointersOK, Created
      <4> QED BY <1>0, <3>1, <4>1, NewTaskUnused DEF DeferShutdown, Add, Fresh, TypeOK, TasksOK
    <3>2. ASSUME NEW u, task' = [task EXCEPT ![u] = Unused]
          PROVE  \A v \in Tasks : task'[v].conn # c
      <4>1. \A v \in Tasks : task'[v] = task[v] \/ task'[v].conn = None
        BY <1>0, <3>2 DEF TypeOK, TasksOK, Unused
      <4> QED BY <4>1, ServerAssumption DEF Fresh
    <3>3. CASE UNCHANGED task BY <3>3 DEF Fresh
    <3> QED BY PoolFrame, <2>2, <3>1, <3>2, <3>3
            DEF poolVars, Close, TakeTask, CallbackReturns, TerminatedReturns
  <2>6. pc'[t] \notin WithoutConnection => cur'[t] # c
    <3>1. CASE t = Reaper /\ ReaperNext
      <4>1. ASSUME NEW f \in Fds, Reap(f) PROVE cur'[t] # c
        BY <1>0, <3>1, <4>1 DEF Reap, Fresh, TypeOK, ThreadsOK
      <4>2. CASE JudgeIdle
        BY <1>1, <3>1, <4>2 DEF JudgeIdle, Fresh, WithoutConnection, localVars
      <4>3. CASE \/ ReaperWakes \/ ReaperLocks \/ JudgeShutdown \/ ReaperNotified
                 \/ ReaperUnlocks \/ \E f \in Fds : Keep(f)
        BY <1>0, <3>1, <4>3
        DEF ReaperWakes, ReaperLocks, JudgeShutdown, ReaperNotified, ReaperUnlocks,
            ReaperAdvances, Keep, Goto, WithoutConnection, TypeOK, ThreadsOK
      <4> QED BY <3>1, <4>1, <4>2, <4>3 DEF ReaperNext
    <3>2. CASE t \in Workers /\ WorkerNext(t)
      <4>1. CASE TakeTask(t)
        <5>1. Head(queue) \in Tasks
          BY <1>0, <4>1 DEF TakeTask, TypeOK, TasksOK
        <5> QED BY <1>0, <4>1, <5>1 DEF TakeTask, Fresh, TypeOK, ThreadsOK
      <4>2. CASE Acquire(t) \/ Receive(t) \/ DeferShutdown(t) \/ StopServer(t)
        BY <1>1, <4>2
        DEF Acquire, Receive, DeferShutdown, StopServer, Fresh, WithoutConnection, localVars
      <4>3. CASE CallbackReturns(t) \/ TerminatedReturns(t)
        BY <1>0, <4>3
        DEF CallbackReturns, TerminatedReturns, Goto, WithoutConnection, TypeOK, ThreadsOK
      <4> QED BY <3>2, <4>1, <4>2, <4>3 DEF WorkerNext
    <3>3. CASE ShutdownNext(t)
      <4>1. pc[t] \in ShutdownSteps
        BY <3>3 DEF ShutdownNext, SetShutdown, SearchFinds, SearchMisses, Dequeue, Exclude,
                    Close, ShutdownSteps
      <4>2. cur[t] # c
        BY <1>1, <4>1 DEF Fresh, WithoutConnection, ShutdownSteps
      <4>3. cur'[t] \in {cur[t], None}
        BY <1>0, <3>3 DEF ShutdownNext, SetShutdown, SearchFinds, SearchMisses, Dequeue,
                          Exclude, Close, localVars, TypeOK, ThreadsOK
      <4> QED BY <4>2, <4>3, ServerAssumption
    <3>4. CASE FaultNext(t)
      BY <1>1, <3>4, ProgramStays DEF localVars, Fresh
    <3> QED BY <1>1, <3>1, <3>2, <3>3, <3>4 DEF ThreadNext
  <2> QED BY <2>1, <2>3, <2>4, <2>5, <2>6 DEF Fresh
<1>2. CASE PeerNext \/ UNCHANGED vars
  <2>1. UNCHANGED <<connections, task, pc, cur>> /\ obj'[c] = "live"
    BY <1>0, <1>2, ProgramStays DEF serverVars, poolVars, localVars, Fresh, TypeOK, HeapOK
  <2> QED BY <2>1 DEF Fresh
<1> QED BY <1>1, <1>2 DEF Next

\* What is filed nowhere is not filed again, but for what `register' has just made.
LEMMA UnfiledStays ==
    ASSUME IInv, [Next]_vars, NEW c \in Conns, \A f \in Fds : connections[f] # c,
           Register => cur[Listener] # c
    PROVE  \A f \in Fds : connections'[f] # c
BY EntryChanges, ServerAssumption

\* Shutdown() takes its connection out of the map before it closes and deletes it.
LEMMA UnfiledStep ==
    ASSUME "missedEntry" \notin UndefinedBehaviour, IInv, MapInv, FiledInv, [Next]_vars
    PROVE  UnfiledOK'
<1>0. /\ TypeOK /\ UnfiledOK /\ EntriesOK /\ Listener \in Threads
      /\ Register => Fresh(cur[Listener])
  BY DEF IInv, MapInv, FiledInv, RecheckOK, Register, Threads
<1>1. ASSUME NEW t \in Threads, pc'[t] \in {"exclusive", "close"}
      PROVE  \A f \in Fds : connections'[f] # cur'[t]
  <2>1. CASE pc'[t] = pc[t] /\ cur'[t] = cur[t] /\ ~(t = Listener /\ Register)
    <3>1. cur[t] \in Conns BY <1>1, <2>1 DEF IInv, PointersOK, Created, WithoutConnection
    <3>2. Register => cur[Listener] # cur[t]
      BY <1>0, <1>1, <2>1 DEF Fresh, WithoutConnection
    <3> QED BY <1>0, <1>1, <2>1, <3>1, <3>2, UnfiledStays DEF UnfiledOK
  <2>2. CASE ShutdownNext(t)
    <3>1. CASE SearchMisses(t)
      BY <1>0, <3>1 DEF SearchMisses, serverVars, localVars
    <3>2. CASE Dequeue(t)
      <4>1. /\ entry[t] \in Fds /\ entry[t] = socket[cur[t]] /\ cur[t] \in Conns
            /\ cur' = cur /\ connections' = [connections EXCEPT ![entry[t]] = Absent]
        BY <1>0, <3>2 DEF Dequeue, Erase, UnfiledOK, IInv, ShutdownOK, PointersOK, Created,
                          WithoutConnection
      <4>2. \A f \in Fds : connections[f] = cur[t] => f = entry[t]
        BY <1>0, <4>1 DEF EntriesOK
      <4> QED BY <1>0, <4>1, <4>2, ServerAssumption DEF TypeOK, RegistryOK
    <3>3. CASE Exclude(t)
      BY <1>0, <3>3 DEF Exclude, UnfiledOK, serverVars, localVars
    <3>4. CASE SetShutdown(t) \/ Close(t) \/ \E f \in Fds : SearchFinds(t, f)
      BY <1>0, <1>1, <3>4 DEF SetShutdown, Close, SearchFinds, Goto, TypeOK, ThreadsOK
    <3> QED BY <2>2, <3>1, <3>2, <3>3, <3>4 DEF ShutdownNext
  <2>3. CASE t = Listener /\ ListenerNext
    BY <1>0, <1>1, <2>3
    DEF ListenerNext, EpollWait, ListenerReturns, RoundEnds, AcceptFails, Accept, NextEventIs,
        Register, EpollAdd, EpollAddFails, HoldNew, LookupNothing, LookupConnection, Hup,
        ErrorEvent, RecheckGone, RecheckFound, HoldData, Goto, TypeOK, ThreadsOK
  <2>4. CASE t = Reaper /\ ReaperNext
    BY <1>0, <1>1, <2>1, <2>4, ServerAssumption
    DEF ReaperNext, ReaperWakes, ReaperLocks, Keep, Reap, JudgeShutdown, JudgeIdle,
        ReaperNotified, ReaperAdvances, ReaperUnlocks, Goto, TypeOK, ThreadsOK
  <2>5. CASE t \in Workers /\ WorkerNext(t)
    BY <1>0, <1>1, <2>5
    DEF WorkerNext, TakeTask, FirstStep, Acquire, Receive, DeferShutdown, StopServer,
        CallbackReturns, TerminatedReturns, Goto, TypeOK, ThreadsOK
  <2>6. CASE PeerNext \/ (\E u \in Threads : FaultNext(u)) \/ UNCHANGED vars
    <3>1. UNCHANGED <<pc, cur>> BY <2>6, ProgramStays DEF localVars
    <3>2. ~Register BY <1>0, <3>1 DEF Register, Goto, TypeOK, ThreadsOK
    <3> QED BY <2>1, <3>1, <3>2
  <2>7. ASSUME NEW u \in Threads, ThreadNext(u), u # t
        PROVE  \A f \in Fds : connections'[f] # cur'[t]
    <3>1. pc'[t] = pc[t] /\ cur'[t] = cur[t] BY <2>7, OthersStay
    <3>2. t = Listener => ~Register
      BY <1>0, <3>1 DEF Register, Goto, TypeOK, ThreadsOK
    <3> QED BY <2>1, <3>1, <3>2
  <2> QED BY <2>2, <2>3, <2>4, <2>5, <2>6, <2>7 DEF Next, ThreadNext
<1>2. ASSUME NEW c \in Conns, obj'[c] = "deleted" PROVE \A f \in Fds : connections'[f] # c
  <2>1. CASE obj[c] = "deleted"
    BY <1>0, <2>1, UnfiledStays DEF UnfiledOK, Fresh
  <2>2. CASE obj[c] # "deleted"
    <3>1. PICK t \in Threads : Close(t) /\ cur[t] = c
      <4>1. ASSUME NEW t \in Threads, SetShutdown(t) \/ Exclude(t) \/ Close(t)
            PROVE  Close(t) /\ cur[t] = c
        BY <1>0, <1>2, <2>2, <4>1 DEF SetShutdown, Exclude, Close, TypeOK, HeapOK
      <4>2. ASSUME NEW d \in Conns, NEW f \in Fds, Accept(d, f) PROVE FALSE
        BY <1>0, <1>2, <2>2, <4>2 DEF Accept, TypeOK, HeapOK
      <4>3. ASSUME NEW d \in Conns, Connect(d) PROVE FALSE
        BY <1>0, <1>2, <2>2, <4>3 DEF Connect, TypeOK, HeapOK
      <4> QED BY HeapFrame, <1>2, <2>2, <4>1, <4>2, <4>3
              DEF heapVars, HoldNew, ErrorEvent, HoldData, CallbackReturns
    <3> QED BY <1>0, <3>1 DEF Close, serverVars, UnfiledOK
  <2> QED BY <2>1, <2>2
<1>3. ASSUME NEW t \in Threads, pc'[t] = "dequeue" PROVE entry'[t] = socket'[cur'[t]]
  <2>1. ASSUME pc'[t] = pc[t], cur'[t] = cur[t], entry'[t] = entry[t]
        PROVE  entry'[t] = socket'[cur'[t]]
    <3>1. Created(cur[t]) BY <1>3, <2>1 DEF IInv, PointersOK, WithoutConnection
    <3> QED BY <1>0, <1>3, <2>1, <3>1, SocketStays DEF UnfiledOK
  <2>2. CASE ShutdownNext(t)
    <3>1. ASSUME NEW f \in Fds, SearchFinds(t, f) PROVE entry'[t] = socket'[cur'[t]]
      <4>1. /\ cur' = cur /\ socket' = socket /\ entry'[t] = f /\ connections[f] = cur[t]
            /\ cur[t] \in Conns
        BY <1>0, <3>1 DEF SearchFinds, heapVars, TypeOK, ThreadsOK, IInv, PointersOK, Created,
                          WithoutConnection
      <4> QED BY <1>0, <4>1 DEF EntriesOK
    <3>2. CASE ~\E f \in Fds : SearchFinds(t, f)
      BY <1>0, <1>3, <2>2, <3>2
      DEF ShutdownNext, SetShutdown, SearchMisses, Dequeue, Exclude, Close, Goto, TypeOK,
          ThreadsOK
    <3> QED BY <3>1, <3>2
  <2>3. CASE t = Listener /\ ListenerNext
    BY <1>0, <1>3, <2>3
    DEF ListenerNext, EpollWait, ListenerReturns, RoundEnds, AcceptFails, Accept, NextEventIs,
        Register, EpollAdd, EpollAddFails, HoldNew, LookupNothing, LookupConnection, Hup,
        ErrorEvent, RecheckGone, RecheckFound, HoldData, Goto, TypeOK, ThreadsOK
  <2>4. CASE t = Reaper /\ ReaperNext
    BY <1>0, <1>3, <2>4, ServerAssumption
    DEF ReaperNext, ReaperWakes, ReaperLocks, Keep, Reap, JudgeShutdown, JudgeIdle,
        ReaperNotified, ReaperAdvances, ReaperUnlocks, Goto, TypeOK, ThreadsOK
  <2>5. CASE t \in Workers /\ WorkerNext(t)
    BY <1>0, <1>3, <2>5
    DEF WorkerNext, TakeTask, FirstStep, Acquire, Receive, DeferShutdown, StopServer,
        CallbackReturns, TerminatedReturns, Goto, TypeOK, ThreadsOK
  <2>6. CASE PeerNext \/ (\E u \in Threads : FaultNext(u)) \/ UNCHANGED vars
    BY <2>1, <2>6, ProgramStays DEF localVars
  <2>7. ASSUME NEW u \in Threads, ThreadNext(u), u # t PROVE entry'[t] = socket'[cur'[t]]
    BY <2>1, <2>7, OthersStay
  <2> QED BY <2>2, <2>3, <2>4, <2>5, <2>6, <2>7 DEF Next, ThreadNext
<1> QED BY <1>1, <1>2, <1>3 DEF UnfiledOK

\* The listener's entry is its connection's own from the first look-up to the
\* second, or gone; and it is there while the listener is inside the lock.
LEMMA RecheckStep ==
    ASSUME IInv, MapInv, RecheckOK, [Next]_vars
    PROVE  RecheckOK'
<1> DEFINE L == Listener
<1>0. TypeOK /\ L \in Threads /\ PoolLockOK BY DEF IInv, MapInv, Threads
<1>1. ASSUME pc'[L] = "register" PROVE Fresh(cur[L])'
  <2>1. CASE ~ThreadNext(L)
    <3>1. pc'[L] = pc[L] /\ cur'[L] = cur[L]
      BY <1>0, <2>1, OthersStay, ProgramStays DEF Next, localVars
    <3>2. cur[L] \in Conns BY <1>0, <1>1, <3>1 DEF IInv, PointersOK, Created, WithoutConnection
    <3> QED BY <1>1, <2>1, <3>1, <3>2, FreshStays DEF RecheckOK, Fresh
  <2>2. CASE ListenerNext
    <3>1. \E c \in Conns, f \in Fds : Accept(c, f)
      BY <1>0, <1>1, <2>2
      DEF ListenerNext, EpollWait, ListenerReturns, RoundEnds, AcceptFails, NextEventIs,
          Register, EpollAdd, EpollAddFails, HoldNew, LookupNothing, LookupConnection, Hup,
          ErrorEvent, RecheckGone, RecheckFound, HoldData, Goto, TypeOK, ThreadsOK
    <3> QED BY <3>1, AcceptedIsFresh DEF Fresh
  <2>3. CASE ShutdownNext(L)
    BY <1>0, <1>1, <2>3, ServerAssumption
    DEF ShutdownNext, SetShutdown, SearchFinds, SearchMisses, Dequeue, Exclude, Close, Goto,
        TypeOK, ThreadsOK
  <2>4. CASE FaultNext(L)
    BY <1>0, <1>1, <2>4, ProgramStays
    DEF localVars, serverVars, poolVars, RecheckOK, Fresh, FaultNext, UseAfterFree, MapRace,
        EraseCrash, ReaperMeetsDeleted, ReaperMeetsNull, Fault, heapVars
  <2> QED BY <2>1, <2>2, <2>3, <2>4, ServerAssumption DEF ThreadNext
<1>2. ASSUME pc'[L] \in {"recheck", "hold_data"}
      PROVE  /\ entry'[L] \in Fds
             /\ connections'[entry'[L]] \in {Absent, cur'[L]}
             /\ pc'[L] = "hold_data" => connections'[entry'[L]] = cur'[L]
  <2>1. CASE pc'[L] = pc[L] /\ cur'[L] = cur[L] /\ entry'[L] = entry[L]
    <3>1. ~Register /\ pc[L] # "dispatch" BY <1>2, <2>1 DEF Register
    <3>2. \/ connections'[entry[L]] = connections[entry[L]]
          \/ /\ connections'[entry[L]] = Absent
             /\ poolLock = Free \/ pc[Reaper] = "scan"
      BY <1>2, <2>1, <3>1, EntryChanges DEF RecheckOK
    <3>3. pc[L] = "hold_data" => poolLock # Free /\ pc[Reaper] # "scan"
      <4>1. pc[L] = "hold_data" => poolLock = Locked(L) BY <1>0 DEF PoolLockOK, Inside
      <4>2. pc[Reaper] = "scan" => poolLock = Locked(Reaper) BY <1>0 DEF PoolLockOK, Inside
      <4> QED BY <4>1, <4>2, PoolLockValues, ServerAssumption
    <3> QED BY <1>2, <2>1, <3>2, <3>3 DEF RecheckOK
  <2>2. CASE ListenerNext
    <3>1. ASSUME NEW f \in Fds, LookupConnection(f)
          PROVE  /\ entry'[L] = f /\ cur'[L] = connections[f] /\ connections' = connections
                 /\ pc'[L] # "hold_data"
      BY <1>0, <3>1 DEF LookupConnection, Goto, serverVars, TypeOK, ThreadsOK
    <3>2. CASE RecheckFound
      <4>1. /\ pc[L] = "recheck" /\ connections[entry[L]] # Absent
            /\ UNCHANGED <<connections, cur, entry>>
        BY <3>2 DEF RecheckFound, localVars
      <4> QED BY <4>1 DEF RecheckOK
    <3>3. CASE ~RecheckFound /\ \A f \in Fds : ~LookupConnection(f)
      BY <1>0, <1>2, <2>2, <3>3
      DEF ListenerNext, EpollWait, ListenerReturns, RoundEnds, AcceptFails, Accept,
          NextEventIs, Register, EpollAdd, EpollAddFails, HoldNew, LookupNothing, Hup,
          ErrorEvent, RecheckGone, HoldData, Goto, TypeOK, ThreadsOK
    <3> QED BY <3>1, <3>2, <3>3
  <2>3. CASE ShutdownNext(L)
    BY <1>0, <1>2, <2>3, ServerAssumption
    DEF ShutdownNext, SetShutdown, SearchFinds, SearchMisses, Dequeue, Exclude, Close, Goto,
        TypeOK, ThreadsOK
  <2>4. CASE PeerNext \/ (\E t \in Threads : FaultNext(t)) \/ UNCHANGED vars
    BY <2>1, <2>4, ProgramStays DEF localVars
  <2>5. ASSUME NEW t \in Threads, ThreadNext(t), t # L
        PROVE  pc'[L] = pc[L] /\ cur'[L] = cur[L] /\ entry'[L] = entry[L]
    BY <1>0, <2>5, OthersStay
  <2> QED BY <2>1, <2>2, <2>3, <2>4, <2>5, ServerAssumption DEF Next, ThreadNext
<1> QED BY <1>1, <1>2 DEF RecheckOK

\* An empty server has nothing to dequeue and nothing to look up.
LEMMA InitFiled == Init => FiledInv
<1> SUFFICES ASSUME Init PROVE FiledInv OBVIOUS
<1>1. \A t \in Threads : pc[t] \in {"epoll_wait", "sleep", "free"} BY DEF Init
<1>2. Listener \in Threads BY DEF Threads
<1>3. UnfiledOK BY <1>1 DEF Init, UnfiledOK
<1>4. RecheckOK BY <1>1, <1>2 DEF RecheckOK
<1> QED BY <1>3, <1>4 DEF FiledInv

\* What is out of the map stays out, unless a search of a changing map loses its way.
THEOREM FiledInvariant ==
    ASSUME "missedEntry" \notin UndefinedBehaviour
    PROVE  Spec => []FiledInv
<1>1. IInv /\ MapInv /\ FiledInv /\ [Next]_vars => FiledInv'
  BY UnfiledStep, RecheckStep DEF FiledInv
<1> QED BY <1>1, InitFiled, InductiveInvariant, MapInvariant, PTL DEF Spec

\* server.cc:390-402: the connection that Listen() finds again inside the lock is
\* the one it looked up without it, and it exists, whoever shut down what in
\* between, as often as descriptors are reused: ReadLock() is never called on
\* a deleted connection.  Callbacks may defer shutdowns, connections may be idle.
THEOREM RecheckFindsTheLiving ==
    ASSUME "missedEntry" \notin UndefinedBehaviour
    PROVE  Spec => []RecheckedIsLive
<1>1. IInv /\ FiledInv => RecheckedIsLive
  <2> SUFFICES ASSUME IInv, FiledInv, pc[Listener] = "hold_data"
               PROVE  /\ connections[entry[Listener]] = cur[Listener]
                      /\ obj[cur[Listener]] = "live"
    BY DEF RecheckedIsLive
  <2>1. entry[Listener] \in Fds /\ connections[entry[Listener]] = cur[Listener]
    BY DEF FiledInv, RecheckOK
  <2>2. Created(cur[Listener])
    BY DEF IInv, PointersOK, WithoutConnection, Threads
  <2> QED BY <2>1, <2>2 DEF Created, FiledInv, UnfiledOK
<1> QED BY <1>1, FiledInvariant, InductiveInvariant, PTL
=============================================================================
