--------------------------- MODULE ServerDataProofs --------------------------
(***************************************************************************)
(* No packet of a client is forgotten by a server with one pool thread     *)
(* whose sockets do not fail.  epoll_wait() then returns one event at a    *)
(* time, and Register has nothing to wipe from the array of events.  What  *)
(* callbacks do, idle connections, other calls that fail and undefined     *)
(* behaviour make no difference.                                           *)
(***************************************************************************)
EXTENDS ServerMapProofs

OneThread == Cardinality(Workers) = 1 /\ "socket" \notin Failures

\* The one event of a round is dispatched before anything else happens; it says
\* of its socket what is true, as long as that is monitored.  The listener looks
\* up its connection where it is filed.
OneEventOK ==
    /\ events # <<>> => Len(events) = 1 /\ pc[Listener] = "dispatch"
    /\ \A f \in Fds : ~sock[f].err
    /\ \A i \in DOMAIN events :
          /\ "ERR" \notin events[i].mask
          /\ "HUP" \in events[i].mask /\ events[i].fd \in watched => sock[events[i].fd].hup
    /\ \A f \in watched : sock[f].owner \in Conns
    /\ pc[Listener] = "register" => socket[cur[Listener]] \notin watched
    /\ pc[Listener] = "recheck" => entry[Listener] = socket[cur[Listener]]

-----------------------------------------------------------------------------
(* One event at a time.                                                    *)

\* epoll_wait() is given room for one event.
LEMMA OneEvent ==
    ASSUME OneThread, IInv, EpollWait
    PROVE  Len(events') = 1 /\ pc'[Listener] = "dispatch"
<1> DEFINE n == Cardinality(Available)
           k == IF n < Cardinality(Workers) THEN n ELSE Cardinality(Workers)
<1>1. n \in Nat BY AvailableEvents, FS_CardinalityType DEF IInv, TypeOK
<1>2. k = 1 BY <1>1 DEF EpollWait, OneThread
<1>3. events' \in [1 .. k -> Available] BY DEF EpollWait
<1>4. Len(events') = 1
  <2> HIDE DEF k
  <2> QED BY <1>2, <1>3
<1> QED BY <1>4 DEF EpollWait, Goto, IInv, TypeOK, ThreadsOK, Threads

\* A step that finds an event in the array and leaves it there leaves the
\* listener before it.
LEMMA DispatchStays ==
    ASSUME IInv, OneEventOK, [Next]_vars, events # <<>>, UNCHANGED events
    PROVE  pc'[Listener] = "dispatch" /\ cur'[Listener] = cur[Listener]
<1>0. TypeOK /\ Listener \in Threads /\ pc[Listener] = "dispatch"
  BY DEF IInv, Threads, OneEventOK
<1>1. CASE ThreadNext(Listener)
  <2>1. events' # Tail(events)
    BY <1>0, TailEvents DEF OneEventOK, TypeOK, ThreadsOK
  <2>2. ~ListenerNext
    BY <1>0, <2>1
    DEF ListenerNext, EpollWait, ListenerReturns, RoundEnds, AcceptFails, Accept, NextEventIs,
        Register, EpollAdd, EpollAddFails, HoldNew, LookupNothing, LookupConnection, Hup,
        ErrorEvent, RecheckGone, RecheckFound, HoldData
  <2>3. ~ShutdownNext(Listener)
    BY <1>0 DEF ShutdownNext, SetShutdown, SearchFinds, SearchMisses, Dequeue, Exclude, Close
  <2> QED BY <1>0, <1>1, <2>2, <2>3, ProgramStays, ServerAssumption DEF ThreadNext, localVars
<1>2. ASSUME NEW t \in Threads, t # Listener, ThreadNext(t)
      PROVE  pc'[Listener] = "dispatch" /\ cur'[Listener] = cur[Listener]
  BY <1>0, <1>2, OthersStay
<1> QED BY <1>0, <1>1, <1>2, ProgramStays DEF Next, localVars

\* A monitored socket stays as it is but for what its peer does to it and what
\* Receive() takes from it.
LEMMA MonitoredStays ==
    ASSUME OneThread, IInv, OneEventOK, [Next]_vars, NEW f \in Fds, f \in watched'
    PROVE  /\ f \in watched => /\ sock'[f].owner = sock[f].owner
                               /\ sock[f].hup => sock'[f].hup
           /\ f \notin watched => /\ EpollAdd /\ f = socket[cur[Listener]]
                                  /\ sock[f].owner = cur[Listener]
           /\ f \notin ready' /\ sock'[f].unread => f \in watched /\ sock[f].unread
<1>0. KernelOK BY DEF IInv, TypeOK
<1> USE DEF KernelOK, Socket
<1>1. CASE UNCHANGED kernelVars BY <1>0, <1>1 DEF kernelVars
<1>2. ASSUME NEW g \in Fds, PeerSend(g) \/ PeerClose(g) \/ SocketError(g)
      PROVE  /\ f \in watched
             /\ sock'[f].owner = sock[f].owner
             /\ sock[f].hup => sock'[f].hup
             /\ f \notin ready' => sock'[f] = sock[f]
  BY <1>0, <1>2 DEF PeerSend, PeerClose, SocketError, SocketChange
<1>3. CASE EpollWait BY <1>3 DEF EpollWait
<1>4. ASSUME NEW c \in Conns, NEW g \in Fds, Accept(c, g)
      PROVE  f \in watched /\ sock'[f] = sock[f]
  <2>1. f \in watched /\ sock[f].owner \in Conns BY <1>4 DEF Accept, OneEventOK
  <2>2. f # g BY <1>4, <2>1, ServerAssumption DEF Accept, Closed
  <2> QED BY <1>0, <1>4, <2>1, <2>2 DEF Accept
<1>5. CASE EpollAdd
  <2>1. sock'[f].unread => Mask(sock[f]) # {} BY <1>5 DEF EpollAdd, Mask
  <2>2. watched' = watched \cup {socket[cur[Listener]]} /\ sock' = sock
    BY <1>5 DEF EpollAdd
  <2>3. f = socket[cur[Listener]] => sock[f].owner = cur[Listener] BY <1>5 DEF EpollAdd
  <2>4. f \notin ready' /\ sock'[f].unread => f # socket[cur[Listener]]
    BY <1>5, <2>1 DEF EpollAdd
  <2> QED BY <1>5, <2>2, <2>3, <2>4
<1>6. ASSUME NEW g \in Fds, Reap(g) PROVE f \in watched /\ UNCHANGED sock
  BY <1>6 DEF Reap, Erase, Unwatch
<1>7. ASSUME NEW t \in Threads, Dequeue(t) PROVE f \in watched /\ UNCHANGED sock
  BY <1>7 DEF Dequeue, Erase, Unwatch
<1>8. ASSUME NEW t \in Threads, Close(t) PROVE f \in watched /\ sock'[f] = sock[f]
  BY <1>0, <1>8 DEF Close, Unwatch
<1>9. ASSUME NEW w \in Workers, Receive(w)
      PROVE  f \in watched /\ sock'[f].owner = sock[f].owner /\ sock'[f].hup = sock[f].hup
             /\ (sock'[f].unread => sock[f].unread)
  BY <1>0, <1>9 DEF Receive
<1> QED BY KernelFrame, <1>1, <1>2, <1>3, <1>4, <1>5, <1>6, <1>7, <1>8, <1>9

\* OneEventOK is preserved by every step.
LEMMA OneEventStep ==
    ASSUME OneThread, IInv, MapInv, OneEventOK, [Next]_vars
    PROVE  OneEventOK'
<1> DEFINE L == Listener
<1>0. TypeOK /\ L \in Threads /\ EntriesOK BY DEF IInv, Threads, MapInv
<1>1. events' # <<>> => Len(events') = 1 /\ pc'[L] = "dispatch"
  <2>1. CASE UNCHANGED events BY <2>1, DispatchStays DEF OneEventOK
  <2>2. CASE EpollWait BY <2>2, OneEvent
  <2>3. CASE Register BY <2>3 DEF Register
  <2>4. CASE events # <<>> /\ events' = Tail(events)
    BY <1>0, <2>4 DEF OneEventOK, TypeOK, ThreadsOK
  <2> QED BY EventsFrame, <2>1, <2>2, <2>3, <2>4
<1>2. ASSUME NEW f \in Fds PROVE ~sock'[f].err
  <2> USE DEF KernelOK, Socket
  <2>0. KernelOK /\ ~sock[f].err BY <1>0 DEF TypeOK, OneEventOK
  <2>1. ASSUME NEW g \in Fds, PeerSend(g) \/ PeerClose(g) PROVE ~sock'[f].err
    BY <2>0, <2>1 DEF PeerSend, PeerClose, SocketChange
  <2>2. ASSUME NEW g \in Fds, SocketError(g) PROVE FALSE BY <2>2 DEF SocketError, OneThread
  <2>3. ASSUME NEW c \in Conns, NEW g \in Fds, Accept(c, g) PROVE ~sock'[f].err
    BY <2>0, <2>3 DEF Accept
  <2>4. ASSUME NEW t \in Threads, Close(t) PROVE ~sock'[f].err
    BY <2>0, <2>4 DEF Close, Closed
  <2>5. ASSUME NEW w \in Workers, Receive(w) PROVE ~sock'[f].err
    BY <2>0, <2>5 DEF Receive
  <2>6. CASE UNCHANGED sock BY <2>0, <2>6
  <2> QED BY KernelFrame, <2>1, <2>2, <2>3, <2>4, <2>5, <2>6
          DEF kernelVars, EpollWait, EpollAdd, Reap, Dequeue
<1>a. watched' \subseteq Fds BY StepInvariant DEF IInv, TypeOK, KernelOK
<1>3. ASSUME NEW i \in DOMAIN events'
      PROVE  /\ "ERR" \notin events'[i].mask
             /\ "HUP" \in events'[i].mask /\ events'[i].fd \in watched' => sock'[events'[i].fd].hup
  <2>1. CASE UNCHANGED events
    <3>1. pc[L] # "epoll_add" BY <1>3, <2>1 DEF OneEventOK
    <3>2. ASSUME NEW f \in Fds, f \in watched'
          PROVE  f \in watched /\ (sock[f].hup => sock'[f].hup)
      BY <3>1, <3>2, MonitoredStays DEF EpollAdd
    <3> QED BY <1>a, <1>3, <2>1, <3>2 DEF OneEventOK
  <2>2. CASE EpollWait
    <3>1. UNCHANGED <<sock, watched>> BY <2>2 DEF EpollWait
    <3>2. \A f \in Fds : "ERR" \notin Mask(sock[f]) /\ ("HUP" \in Mask(sock[f]) => sock[f].hup)
      BY DEF OneEventOK, Mask
    <3>3. ready \subseteq Fds BY <1>0 DEF TypeOK, KernelOK
    <3> QED BY <1>3, <2>2, <3>1, <3>2, <3>3, WaitEvents
  <2>3. CASE Register BY <1>3, <2>3 DEF Register
  <2>4. CASE events # <<>> /\ events' = Tail(events)
    BY <1>0, <1>3, <2>4 DEF OneEventOK, TypeOK, ThreadsOK
  <2> QED BY EventsFrame, <2>1, <2>2, <2>3, <2>4
<1>4. ASSUME NEW f \in Fds, f \in watched' PROVE sock'[f].owner \in Conns
  <2>1. f \notin watched => cur[L] \in Conns
    BY <1>0, <1>4, MonitoredStays DEF EpollAdd, IInv, PointersOK, Created, WithoutConnection
  <2>2. CASE f \in watched BY <1>4, <2>2, MonitoredStays DEF OneEventOK
  <2>3. CASE f \notin watched
    BY <1>4, <2>1, <2>3, MonitoredStays DEF EpollAdd
  <2> QED BY <2>2, <2>3
<1>5. /\ pc'[L] = "register" => socket'[cur'[L]] \notin watched'
      /\ pc'[L] = "recheck" => entry'[L] = socket'[cur'[L]]
  <2>1. ASSUME pc'[L] = pc[L], cur'[L] = cur[L], entry'[L] = entry[L]
        PROVE  /\ pc'[L] = "register" => socket'[cur'[L]] \notin watched'
               /\ pc'[L] = "recheck" => entry'[L] = socket'[cur'[L]]
    <3>1. CASE pc[L] \in {"register", "recheck"}
      <4>1. Created(cur[L]) BY <1>0, <3>1 DEF IInv, PointersOK, WithoutConnection
      <4>2. socket'[cur[L]] = socket[cur[L]] /\ socket[cur[L]] \in Fds
        BY <4>1, SocketStays DEF IInv, PointersOK, Created
      <4>3. pc[L] = "register" => socket[cur[L]] \notin watched'
        BY <4>2, MonitoredStays DEF OneEventOK, EpollAdd
      <4> QED BY <2>1, <4>2, <4>3 DEF OneEventOK
    <3> QED BY <2>1, <3>1
  <2>2. CASE ThreadNext(L)
    <3>1. ASSUME NEW c \in Conns, NEW f \in Fds, Accept(c, f)
          PROVE  pc'[L] = "register" /\ socket'[cur'[L]] \notin watched'
      <4>1. /\ pc'[L] = "register" /\ cur'[L] = c /\ socket'[c] = f /\ watched' = watched
            /\ sock[f] = Closed
        BY <1>0, <3>1 DEF Accept, Goto, TypeOK, HeapOK, ThreadsOK
      <4>2. f \notin watched BY <4>1, ServerAssumption DEF OneEventOK, Closed
      <4> QED BY <4>1, <4>2
    <3>2. ASSUME NEW f \in Fds, LookupConnection(f)
          PROVE  pc'[L] # "register" /\ entry'[L] = socket'[cur'[L]]
      <4>1. /\ pc'[L] \in {"hup", "error", "recheck"} /\ cur'[L] = connections[f] /\ entry'[L] = f
            /\ socket' = socket /\ connections[f] \in Conns
        BY <1>0, <3>2 DEF LookupConnection, heapVars, Goto, TypeOK, ThreadsOK
      <4> QED BY <1>0, <4>1 DEF EntriesOK
    <3>3. CASE /\ \A c \in Conns, f \in Fds : ~Accept(c, f)
               /\ \A f \in Fds : ~LookupConnection(f)
               /\ ListenerNext \/ ShutdownNext(L)
      BY <1>0, <2>1, <3>3, ServerAssumption
      DEF ListenerNext, EpollWait, ListenerReturns, RoundEnds, AcceptFails, Register, EpollAdd,
          EpollAddFails, HoldNew, LookupNothing, Hup, ErrorEvent, RecheckGone, RecheckFound,
          HoldData, ShutdownNext, SetShutdown, SearchFinds, SearchMisses, Dequeue, Exclude,
          Close, Goto, TypeOK, ThreadsOK, localVars
    <3>4. CASE FaultNext(L) BY <1>0, <2>1, <3>4, ProgramStays DEF localVars
    <3> QED BY <2>2, <3>1, <3>2, <3>3, <3>4, ServerAssumption DEF ThreadNext
  <2>3. ASSUME NEW t \in Threads, ThreadNext(t), t # L
        PROVE  pc'[L] = pc[L] /\ cur'[L] = cur[L] /\ entry'[L] = entry[L]
    BY <1>0, <2>3, OthersStay
  <2> QED BY <2>1, <2>2, <2>3, ProgramStays DEF Next, localVars
<1> QED BY <1>1, <1>2, <1>a, <1>3, <1>4, <1>5 DEF OneEventOK

-----------------------------------------------------------------------------
(* No data forgotten.                                                      *)

\* An open connection that is monitored and mapped has a packet to read ...
Waiting(f) == LET c == sock[f].owner
              IN  f \in watched /\ sock[f].unread /\ ~sock[f].hup
                  /\ connections[f] = c /\ ~isShutdown[c]

\* ... and DataReady() is on its way.
Reported(f) == \E i \in DOMAIN events : events[i].fd = f /\ "IN" \in events[i].mask
Underway(f) == f \in ready \/ Reported(f) \/ DataReadyPending(sock[f].owner)

\* What NoDataForgotten says of a server that has not failed.
LEMMA Forgotten ==
    ASSUME IInv
    PROVE  NoDataForgotten <=> (fault = "none" /\ pc[Listener] # "stopped" =>
                                   \A f \in Fds : Waiting(f) => Underway(f))
<1>1. watched \subseteq Fds BY DEF IInv, TypeOK, KernelOK
<1> QED BY <1>1 DEF NoDataForgotten, Waiting, Underway, Reported

\* A packet that waits has been waiting, or its socket has just become ready.
LEMMA WaitingBefore ==
    ASSUME OneThread, IInv, MapInv, OneEventOK, [Next]_vars, NEW f \in Fds, Waiting(f)',
           f \notin ready'
    PROVE  Waiting(f) /\ socket[sock[f].owner] = f /\ sock'[f].owner = sock[f].owner
<1>0. TypeOK /\ Listener \in Threads /\ EntriesOK BY DEF IInv, Threads, MapInv
<1> DEFINE c == sock'[f].owner
<1>1. /\ f \in watched' /\ sock'[f].unread /\ ~sock'[f].hup /\ connections'[f] = c
      /\ ~isShutdown'[c]
  BY DEF Waiting
<1> HIDE DEF c
<1>2. f \in watched /\ sock[f].unread BY <1>1, MonitoredStays
<1>3. sock[f].owner = c /\ c \in Conns
  BY <1>2, <1>1, MonitoredStays DEF OneEventOK, c
<1>4. ~sock[f].hup
  <2>1. sock[f].hup => sock'[f].hup BY <1>1, <1>2, MonitoredStays
  <2> QED BY <1>1, <2>1
<1>5. connections[f] = c
  <2>1. CASE Register
    <3>1. socket[cur[Listener]] # f BY <1>2, <2>1 DEF Register, OneEventOK
    <3> QED BY <1>0, <1>1, <2>1, <3>1 DEF Register, TypeOK, RegistryOK
  <2>2. ASSUME NEW g \in Fds, LookupNothing(g) PROVE connections[f] = c
    BY <1>0, <1>1, <1>3, <2>2, ServerAssumption DEF LookupNothing, TypeOK, RegistryOK
  <2>3. ASSUME NEW e, Erase(e) PROVE connections[f] = c
    BY <1>0, <1>1, <1>3, <2>3, ServerAssumption DEF Erase, TypeOK, RegistryOK
  <2> QED BY EntriesFrame, <1>1, <2>1, <2>2, <2>3 DEF Reap, Dequeue
<1>6. ~isShutdown[c] BY <1>1, <1>3, FlagStays
<1> QED BY <1>0, <1>2, <1>3, <1>4, <1>5, <1>6 DEF Waiting, EntriesOK, c

\* What epoll has on its ready list it reports.
LEMMA ReadyStays ==
    ASSUME IInv, [Next]_vars, NEW f \in Fds, f \in ready, f \in watched', sock[f].unread
    PROVE  f \in ready' \/ Reported(f)'
<1>1. CASE EpollWait
  <2>1. f \in ready' \/ \E i \in DOMAIN events' : events'[i].fd = f
    BY <1>1 DEF EpollWait
  <2>2. \A i \in DOMAIN events' : events'[i].fd = f => "IN" \in events'[i].mask
    BY <1>1, WaitEvents, ServerAssumption DEF Mask
  <2> QED BY <2>1, <2>2 DEF Reported
<1>2. CASE ready \subseteq ready' BY <1>2
<1>3. ASSUME NEW g, Unwatch(g) PROVE f \in ready' BY <1>3 DEF Unwatch
<1> QED BY KernelFrame, <1>1, <1>2, <1>3
        DEF kernelVars, PeerSend, PeerClose, SocketError, SocketChange, Accept, EpollAdd, Reap,
            Dequeue, Erase, Close, Receive

\* The listener handles the event that reports data of an open connection.
LEMMA ReportedStays ==
    ASSUME OneThread, IInv, MapInv, OneEventOK, [Next]_vars, NEW f \in Fds, Waiting(f),
           Reported(f)
    PROVE  \/ Reported(f)'
           \/ pc'[Listener] = "recheck" /\ cur'[Listener] = sock[f].owner
<1>0. TypeOK /\ Listener \in Threads BY DEF IInv, Threads
<1>1. /\ events # <<>> /\ Len(events) = 1 /\ pc[Listener] = "dispatch"
      /\ Head(events).fd = f /\ sock[f].owner \in Conns
      /\ "HUP" \notin Head(events).mask /\ "ERR" \notin Head(events).mask
  <2>1. PICK i \in DOMAIN events : events[i].fd = f BY DEF Reported
  <2>2. events # <<>> /\ Len(events) = 1 BY <1>0, <2>1 DEF OneEventOK, TypeOK, ThreadsOK
  <2>3. i = 1 /\ Head(events) = events[1] BY <1>0, <2>1, <2>2 DEF TypeOK, ThreadsOK
  <2> QED BY <2>1, <2>2, <2>3 DEF OneEventOK, Waiting
<1>2. CASE UNCHANGED events BY <1>2 DEF Reported
<1>3. CASE ThreadNext(Listener)
  <2>1. ~NextEventIs(ServerFd) BY <1>1, ServerAssumption DEF NextEventIs
  <2>2. \A g \in Fds : ~LookupNothing(g)
    BY <1>1, ServerAssumption DEF LookupNothing, NextEventIs, Waiting
  <2>3. ASSUME NEW g \in Fds, LookupConnection(g)
        PROVE  pc'[Listener] = "recheck" /\ cur'[Listener] = sock[f].owner
    BY <1>0, <1>1, <2>3
    DEF LookupConnection, NextEventIs, Waiting, Goto, TypeOK, ThreadsOK
  <2>4. CASE /\ \A g \in Fds : ~LookupConnection(g)
             /\ ListenerNext \/ ShutdownNext(Listener)
    BY <1>1, <1>2, <2>1, <2>2, <2>4
    DEF ListenerNext, EpollWait, ListenerReturns, RoundEnds, AcceptFails, Accept,
        Register, EpollAdd, EpollAddFails, HoldNew, Hup, ErrorEvent, RecheckGone, RecheckFound,
        HoldData, ShutdownNext, SetShutdown, SearchFinds, SearchMisses, Dequeue, Exclude, Close
  <2>5. CASE FaultNext(Listener) BY <1>0, <1>2, <2>5, ProgramStays DEF localVars
  <2> QED BY <1>2, <1>3, <2>3, <2>4, <2>5, ServerAssumption DEF ThreadNext
<1>4. ASSUME NEW t \in Threads, t # Listener, ThreadNext(t) PROVE UNCHANGED events
  BY <1>0, <1>1, <1>4, EventsFrame, ServerAssumption
  DEF ThreadNext, ReaperNext, ReaperWakes, ReaperLocks, Keep, Reap,
      JudgeShutdown, JudgeIdle, ReaperNotified, ReaperAdvances, ReaperUnlocks, WorkerNext,
      TakeTask, Acquire, Receive, DeferShutdown, StopServer, CallbackReturns,
      TerminatedReturns, ShutdownNext, SetShutdown, SearchFinds, SearchMisses, Dequeue,
      Exclude, Close, FaultNext, UseAfterFree, MapRace, EraseCrash, ReaperMeetsDeleted,
      ReaperMeetsNull, Fault, localVars
<1> QED BY <1>2, <1>3, <1>4, ProgramStays DEF Next, localVars

\* A closure that has yet to read stays until it has.
LEMMA ClosureStays ==
    ASSUME IInv, [Next]_vars, NEW f \in Fds, NEW c \in Conns, socket[c] = f, sock'[f].unread,
           NEW t \in Tasks, task[t] = [kind |-> "DataReady", conn |-> c],
           \A w \in Workers : job[w] = t => pc[w] \in {"acquire", "receive"}
    PROVE  /\ task'[t] = task[t]
           /\ \A w \in Workers : job'[w] = t => pc'[w] \in {"acquire", "receive"}
<1>0. /\ TypeOK /\ t # None /\ task[t] # Unused /\ task[t].kind = "DataReady"
      /\ Workers \subseteq Threads
  BY ServerAssumption DEF IInv, Unused, Threads
<1>1. task'[t] = task[t]
  <2>1. ASSUME NEW k, NEW d, Add(k, d) PROVE task'[t] = task[t]
    BY <1>0, <2>1, NewTaskUnused DEF Add, TypeOK, TasksOK
  <2>2. ASSUME NEW w \in Workers, pc[w] \notin {"acquire", "receive"},
               task' = [task EXCEPT ![job[w]] = Unused]
        PROVE  task'[t] = task[t]
    BY <1>0, <2>2 DEF TypeOK, TasksOK
  <2>3. ASSUME NEW u \in Threads, Close(u) PROVE task'[t] = task[t]
    <3>1. u \in {Listener, Reaper} \/ u \in Workers BY DEF Threads
    <3> QED BY <2>2, <2>3, <3>1 DEF Close
  <2>4. CASE UNCHANGED task BY <2>4
  <2> QED BY PoolFrame, <2>1, <2>2, <2>3, <2>4
          DEF poolVars, HoldNew, Hup, ErrorEvent, HoldData, HoldAndAdd, TakeTask,
              DeferShutdown, CallbackReturns, TerminatedReturns
<1>2. ASSUME NEW w \in Workers, job'[w] = t PROVE pc'[w] \in {"acquire", "receive"}
  <2>1. CASE job'[w] = job[w] /\ pc'[w] = pc[w] BY <1>2, <2>1
  <2>2. ASSUME NEW u \in Threads, ThreadNext(u), u # w
        PROVE  job'[w] = job[w] /\ pc'[w] = pc[w]
    BY <1>0, <2>2, OthersStay
  <2>3. CASE ThreadNext(w)
    <3>1. CASE TakeTask(w)
      <4>1. t = Head(queue) BY <1>0, <1>2, <3>1 DEF TakeTask, TypeOK, TasksOK
      <4> QED BY <1>0, <3>1, <4>1 DEF TakeTask, FirstStep, Goto, TypeOK, ThreadsOK
    <3>2. CASE Acquire(w)
      <4>1. job[w] = t BY <1>2, <3>2 DEF Acquire, poolVars
      <4> QED BY <1>0, <3>2, <4>1 DEF Acquire, Goto, TypeOK, ThreadsOK
    <3>3. CASE Receive(w)
      <4>1. job[w] = t BY <1>2, <3>3 DEF Receive, poolVars
      <4>2. cur[w] = c BY <1>0, <3>3, <4>1 DEF Receive, IInv, JobsOK, JobOK
      <4> QED BY <1>0, <3>3, <4>2 DEF Receive, TypeOK, KernelOK, Socket
    <3>4. CASE DeferShutdown(w) \/ StopServer(w) \/ (ShutdownNext(w) /\ ~Close(w))
      <4>1. job[w] = t
        BY <1>2, <3>4
        DEF DeferShutdown, StopServer, ShutdownNext, SetShutdown, SearchFinds, SearchMisses,
            Dequeue, Exclude, poolVars
      <4> QED BY <3>4, <4>1
              DEF DeferShutdown, StopServer, ShutdownNext, SetShutdown, SearchFinds,
                  SearchMisses, Dequeue, Exclude
    <3>5. CASE CallbackReturns(w) \/ TerminatedReturns(w) \/ Close(w)
      BY <1>0, <1>2, <3>5, ServerAssumption
      DEF CallbackReturns, TerminatedReturns, Close, TypeOK, TasksOK
    <3>6. CASE FaultNext(w) BY <2>1, <3>6, ProgramStays, <1>0 DEF poolVars
    <3> QED BY <2>3, <3>1, <3>2, <3>3, <3>4, <3>5, <3>6, ServerAssumption
            DEF ThreadNext, WorkerNext
  <2> QED BY <2>1, <2>2, <2>3, ProgramStays DEF Next, poolVars
<1> QED BY <1>1, <1>2

\* What the listener has found to report it hands to the pool.
LEMMA FoundStays ==
    ASSUME IInv, OneEventOK, [Next]_vars, NEW f \in Fds, Waiting(f), NEW c \in Conns,
           c = sock[f].owner, socket[c] = f,
           pc[Listener] \in {"recheck", "hold_data"}, cur[Listener] = c
    PROVE  DataReadyPending(c)'
<1>0. /\ TypeOK /\ Listener \in Threads BY DEF IInv, Threads
<1>1. CASE pc'[Listener] = pc[Listener] /\ cur'[Listener] = cur[Listener]
  BY <1>1 DEF DataReadyPending
<1>2. CASE ThreadNext(Listener)
  <2>1. ~RecheckGone
    BY ServerAssumption DEF RecheckGone, OneEventOK, Waiting
  <2>2. CASE RecheckFound
    BY <1>0, <2>2 DEF RecheckFound, Goto, localVars, TypeOK, ThreadsOK, DataReadyPending
  <2>3. CASE HoldData
    <3>1. /\ NewTask \in Tasks /\ task[NewTask] = Unused /\ job' = job
          /\ task'[NewTask] = [kind |-> "DataReady", conn |-> c]
      BY <1>0, <2>3, NewTaskUnused DEF HoldData, HoldAndAdd, Add, TypeOK, TasksOK
    <3>2. \A w \in Workers : job[w] # NewTask
      BY <3>1, ServerAssumption DEF IInv, JobsOK, JobOK
    <3> QED BY <3>1, <3>2 DEF DataReadyPending
  <2>4. ~ListenerNext \/ RecheckFound \/ HoldData
    BY <2>1
    DEF ListenerNext, EpollWait, ListenerReturns, RoundEnds, AcceptFails, Accept, NextEventIs,
        Register, EpollAdd, EpollAddFails, HoldNew, LookupNothing, LookupConnection, Hup,
        ErrorEvent
  <2>5. ~ShutdownNext(Listener)
    BY DEF ShutdownNext, SetShutdown, SearchFinds, SearchMisses, Dequeue, Exclude, Close
  <2>6. CASE FaultNext(Listener) BY <1>0, <1>1, <2>6, ProgramStays DEF localVars
  <2> QED BY <1>2, <2>2, <2>3, <2>4, <2>5, <2>6, ServerAssumption DEF ThreadNext
<1>3. ASSUME NEW t \in Threads, ThreadNext(t), t # Listener
      PROVE  pc'[Listener] = pc[Listener] /\ cur'[Listener] = cur[Listener]
  BY <1>0, <1>3, OthersStay
<1> QED BY <1>1, <1>2, <1>3, ProgramStays DEF Next, localVars

\* Undefined behaviour is not undone, and a stopped listener does not come back.
LEMMA EndStays ==
    ASSUME IInv, [Next]_vars, fault' = "none", pc'[Listener] # "stopped"
    PROVE  fault = "none" /\ pc[Listener] # "stopped"
<1>0. /\ TypeOK /\ Listener \in Threads BY DEF IInv, Threads
<1>1. fault = "none" BY DEF Next, ThreadNext, vars
<1>2. ASSUME pc[Listener] = "stopped" PROVE FALSE
  <2>1. pc'[Listener] # pc[Listener] BY <1>2
  <2>2. ASSUME NEW t \in Threads, ThreadNext(t), t # Listener PROVE FALSE
    BY <1>0, <2>1, <2>2, OthersStay
  <2>3. CASE ThreadNext(Listener)
    <3>1. ~ListenerNext
      BY <1>2
      DEF ListenerNext, EpollWait, ListenerReturns, RoundEnds, AcceptFails, Accept,
          NextEventIs, Register, EpollAdd, EpollAddFails, HoldNew, LookupNothing,
          LookupConnection, Hup, ErrorEvent, RecheckGone, RecheckFound, HoldData
    <3>2. ~ShutdownNext(Listener)
      BY <1>2
      DEF ShutdownNext, SetShutdown, SearchFinds, SearchMisses, Dequeue, Exclude, Close
    <3>3. CASE FaultNext(Listener) BY <1>0, <2>1, <3>3, ProgramStays
    <3> QED BY <2>3, <3>1, <3>2, <3>3, ServerAssumption DEF ThreadNext
  <2> QED BY <2>1, <2>2, <2>3, ProgramStays DEF Next
<1> QED BY <1>1, <1>2

\* NoDataForgotten is preserved by every step.
LEMMA DataStep ==
    ASSUME OneThread, IInv, MapInv, OneEventOK, NoDataForgotten, [Next]_vars
    PROVE  NoDataForgotten'
<1>1. IInv' BY StepInvariant
<1>2. SUFFICES ASSUME fault' = "none", pc'[Listener] # "stopped", NEW f \in Fds, Waiting(f)'
               PROVE  Underway(f)'
  <2>1. watched' \subseteq Fds BY <1>1 DEF IInv, TypeOK, KernelOK
  <2> QED BY <2>1 DEF NoDataForgotten, Waiting, Underway, Reported
<1>3. CASE f \in ready' BY <1>3 DEF Underway
<1>4. CASE f \notin ready'
  <2> DEFINE c == sock[f].owner
  <2>1. Waiting(f) /\ socket[c] = f /\ sock'[f].owner = c BY <1>2, <1>4, WaitingBefore
  <2>2. c \in Conns BY <2>1 DEF Waiting, OneEventOK
  <2>3. Underway(f) BY <1>2, <2>1, Forgotten, EndStays
  <2>4. CASE f \in ready
    BY <1>2, <2>1, <2>4, ReadyStays DEF Waiting, Underway
  <2>5. CASE Reported(f)
    BY <2>1, <2>5, ReportedStays DEF Underway, DataReadyPending
  <2>6. CASE DataReadyPending(c)
    <3>1. CASE pc[Listener] \in {"recheck", "hold_data"} /\ cur[Listener] = c
      BY <2>1, <2>2, <3>1, FoundStays DEF Underway
    <3>2. ASSUME NEW t \in Tasks, task[t] = [kind |-> "DataReady", conn |-> c],
                 \A w \in Workers : job[w] = t => pc[w] \in {"acquire", "receive"}
          PROVE  DataReadyPending(c)'
      <4>1. sock'[f].unread BY <1>2 DEF Waiting
      <4> QED BY <2>1, <2>2, <3>2, <4>1, ClosureStays DEF DataReadyPending
    <3> QED BY <2>1, <2>6, <3>1, <3>2 DEF Underway, DataReadyPending
  <2> QED BY <2>3, <2>4, <2>5, <2>6 DEF Underway
<1> QED BY <1>3, <1>4

\* At the start nothing is monitored.
LEMMA InitData == Init => OneEventOK /\ NoDataForgotten
<1> SUFFICES ASSUME Init PROVE OneEventOK /\ NoDataForgotten OBVIOUS
<1> USE DEF Init
<1>1. pc[Listener] = "epoll_wait" BY ServerAssumption DEF Threads
<1>2. \A f \in Fds : ~sock[f].err BY DEF Closed
<1> QED BY <1>1, <1>2 DEF OneEventOK, NoDataForgotten

\* With one pool thread and sockets that do not fail, edge triggering loses
\* nothing: a packet in the socket of an open, monitored connection is always on
\* its way to DataReady(), whatever callbacks do, whichever other calls fail and
\* whether or not idle connections are reaped.
THEOREM OneThreadForgetsNothing ==
    ASSUME OneThread
    PROVE  Spec => []NoDataForgotten
<1>1. IInv /\ MapInv /\ OneEventOK /\ NoDataForgotten /\ [Next]_vars
         => OneEventOK' /\ NoDataForgotten'
  BY OneEventStep, DataStep
<1> QED BY <1>1, InitData, InductiveInvariant, MapInvariant, PTL DEF Spec
=============================================================================
