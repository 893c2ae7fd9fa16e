------------------------------- MODULE Server -------------------------------
(***************************************************************************)
(* The epoll server of server.cc with plain connections                    *)
(* (UNIXSocketConnection): the thread that runs Listen(), the reaper, the  *)
(* pool threads that run callbacks, the map connections_ with its lock,    *)
(* and the life of every connection object from accept() to `delete this'. *)
(*                                                                         *)
(* One action is one step between two points where another thread can see  *)
(* a difference: a lock call, an unlocked access to the map or to a        *)
(* connection, a kernel call, a queue operation.                           *)
(*                                                                         *)
(* Undefined behaviour.  The first access to a deleted connection or       *)
(* through a null pointer sets `fault' and ends the behaviour: nothing is  *)
(* claimed of what the program does after it.  The other two kinds, an     *)
(* unlocked map access racing with a change of the map and the use of an   *)
(* erased map iterator, have outcomes that go on; UndefinedBehaviour names *)
(* the ones a run lets happen in addition to the harmless one.             *)
(***************************************************************************)
EXTENDS Naturals, Sequences, FiniteSets, ReadWriteMutex

CONSTANTS
    Conns,              \* connection objects, each created at most once
    Fds,                \* descriptors that accept() can return
    Workers,            \* the num_threads_ pool threads the reaper leaves
    Listener, Reaper,   \* the thread in Listen(), the thread of the reaper
    Tasks,              \* closures that can be outstanding in the pool
    ServerFd,           \* serverfd_
    None,               \* no connection, descriptor or task
    Absent, Null,       \* map: no entry for the key; an entry holding 0
    MaxSends,           \* bound: packets each peer sends
    IdleReaping,        \* max_idle_ > 0
    HandlerCalls,       \* what callbacks may do besides reading
    Failures,           \* calls that may fail
    UndefinedBehaviour  \* outcomes other than the harmless one

Threads == Workers \cup {Listener, Reaper}

ASSUME ServerAssumption ==
    /\ Listener # Reaper /\ Listener \notin Workers /\ Reaper \notin Workers
    /\ None \notin Conns \cup Fds \cup Tasks
    /\ Absent \notin Conns /\ Null \notin Conns /\ Absent # Null
    /\ ServerFd \notin Fds
    /\ IsFiniteSet(Fds) /\ IsFiniteSet(Workers)
    /\ MaxSends \in Nat
    /\ IdleReaping \in BOOLEAN
    /\ HandlerCalls \subseteq {"DeferredShutdown", "Shutdown"}
    /\ Failures \subseteq {"accept", "epoll_ctl", "epoll_wait", "socket"}
    /\ UndefinedBehaviour \subseteq {"missedEntry", "mapRace", "erasedIterator"}

VARIABLES
    \* the heap: connection objects
    obj,            \* none, connecting (in the backlog), live, deleted
    isShutdown,     \* is_shutdown_
    socket,         \* socket_
    connLock,       \* mtx_ of the connection
    \* the server object
    connections,    \* connections_
    poolLock,       \* connections_lock_
    running,        \* running_
    readAfterClose, \* the exported counter read-after-close
    \* the kernel
    sock,           \* what is behind each descriptor
    watched,        \* descriptors in the epoll set
    ready,          \* descriptors on its ready list
    sends,          \* packets sent so far by each peer
    \* the thread pool
    task,           \* the closure behind each task
    queue,          \* tasks not started yet
    job,            \* the task a worker runs
    \* the threads
    pc,             \* where each thread is
    cur,            \* its local `conn' (or `this', in Shutdown())
    entry,          \* its local map key
    events,         \* Listener: what is left of the array of events
    todo,           \* Reaper: keys its iteration has not reached
    fault           \* the undefined behaviour that ended the behaviour

heapVars   == <<obj, isShutdown, socket, connLock>>
serverVars == <<connections, poolLock, running, readAfterClose>>
kernelVars == <<sock, watched, ready, sends>>
poolVars   == <<task, queue, job>>
localVars  == <<cur, entry, events, todo>>
vars == <<heapVars, serverVars, kernelVars, poolVars, pc, localVars, fault>>

-----------------------------------------------------------------------------
(* Types.                                                                  *)

Locking  == {"Established", "DataReady", "Error"}   \* run by LockCallAndUnlock
Closure  == [kind : Locking \cup {"Terminated", "Shutdown"}, conn : Conns]
Unused   == [kind |-> "unused", conn |-> None]
Socket   == [owner : Conns \cup {None}, unread : BOOLEAN, hup : BOOLEAN,
             err : BOOLEAN]
Closed   == [owner |-> None, unread |-> FALSE, hup |-> FALSE, err |-> FALSE]
Event    == [fd : Fds \cup {ServerFd}, mask : SUBSET {"IN", "ERR", "HUP"}]

ShutdownSteps == {"flag", "search", "dequeue", "exclusive", "close"}
ListenerSteps == {"epoll_wait", "dispatch", "register", "epoll_add", "hold_new",
                  "hup", "error", "recheck", "hold_data", "stopped"}
ReaperSteps   == {"sleep", "lock", "scan", "judge", "notify", "stopped"}
WorkerSteps   == {"free", "acquire", "receive", "calls", "return", "terminated"}

HeapOK ==
    /\ obj \in [Conns -> {"none", "connecting", "live", "deleted"}]
    /\ isShutdown \in [Conns -> BOOLEAN]
    /\ socket \in [Conns -> Fds \cup {None}]
    /\ connLock \in [Conns -> Mutexes(Threads, Tasks)]

RegistryOK ==
    /\ connections \in [Fds -> Conns \cup {Absent, Null}]
    /\ poolLock \in Mutexes(Threads, Workers)
    /\ running \in BOOLEAN
    /\ readAfterClose \in Nat

KernelOK ==
    /\ sock \in [Fds -> Socket]
    /\ watched \subseteq Fds
    /\ ready \subseteq watched
    /\ sends \in [Conns -> 0 .. MaxSends]

TasksOK ==
    /\ task \in [Tasks -> Closure \cup {Unused}]
    /\ queue \in Seq(Tasks)
    /\ job \in [Workers -> Tasks \cup {None}]

Labels(t) ==
    ShutdownSteps \cup (IF t = Listener THEN ListenerSteps
                        ELSE IF t = Reaper THEN ReaperSteps ELSE WorkerSteps)

ThreadsOK ==
    /\ pc \in [Threads -> ShutdownSteps \cup ListenerSteps \cup ReaperSteps
                            \cup WorkerSteps]
    /\ \A t \in Threads : pc[t] \in Labels(t)
    /\ cur \in [Threads -> Conns \cup {None}]
    /\ entry \in [Threads -> Fds \cup {None}]
    /\ events \in Seq(Event)
    /\ todo \subseteq Fds
    /\ fault \in {"none", "nullPointer", "useAfterFree", "mapRace",
                  "erasedIterator"}

TypeOK == HeapOK /\ RegistryOK /\ KernelOK /\ TasksOK /\ ThreadsOK

\* Server::Server and the first lines of ListenEpoll: the server socket is in
\* the epoll set and the reaper runs on one of the num_threads_ + 1 threads.
Init ==
    /\ obj = [c \in Conns |-> "none"]
    /\ isShutdown = [c \in Conns |-> FALSE]
    /\ socket = [c \in Conns |-> None]
    /\ connLock = [c \in Conns |-> Free]
    /\ connections = [f \in Fds |-> Absent]
    /\ poolLock = Free
    /\ running = TRUE
    /\ readAfterClose = 0
    /\ sock = [f \in Fds |-> Closed]
    /\ watched = {} /\ ready = {}
    /\ sends = [c \in Conns |-> 0]
    /\ task = [t \in Tasks |-> Unused]
    /\ queue = <<>>
    /\ job = [w \in Workers |-> None]
    /\ pc = [t \in Threads |-> CASE t = Listener -> "epoll_wait"
                                 [] t = Reaper   -> "sleep"
                                 [] OTHER        -> "free"]
    /\ cur = [t \in Threads |-> None]
    /\ entry = [t \in Threads |-> None]
    /\ events = <<>>
    /\ todo = {}
    /\ fault = "none"

-----------------------------------------------------------------------------
(* Steps that several actions share.                                       *)

Goto(t, label) == pc' = [pc EXCEPT ![t] = label]

\* Undefined behaviour of kind k: the behaviour ends here.
Fault(k) ==
    /\ fault' = k
    /\ UNCHANGED <<heapVars, serverVars, kernelVars, poolVars, pc, localVars>>

\* executor_.Add(): a closure goes to the end of the queue.
NewTask == CHOOSE t \in Tasks : task[t] = Unused

Add(kind, c) ==
    /\ \E t \in Tasks : task[t] = Unused
    /\ task' = [task EXCEPT ![NewTask] = [kind |-> kind, conn |-> c]]
    /\ queue' = Append(queue, NewTask)

\* A slip the runs must notice: the ReadLock() is left out.
HoldAndAddWithoutReadLock(kind, c) ==
    obj[c] = "live" /\ CanReadLock(connLock[c]) /\ Add(kind, c) /\ UNCHANGED connLock

\* conn->ReadLock(), then executor_.Add() of the call that will run the
\* callback and call conn->Unlock().
HoldAndAdd(kind, c) ==
    /\ obj[c] = "live"
    /\ CanReadLock(connLock[c])
    /\ Add(kind, c)
    /\ connLock' = [connLock EXCEPT ![c] = ReadLocked(@, NewTask)]

\* Slip: EPOLLHUP and EPOLLRDHUP are not asked for.
MaskWithoutHup(s) == IF s.unread \/ s.hup THEN {"IN"} ELSE {}

\* What epoll reports of a descriptor: level state, read when it is asked for.
Mask(s) == (IF s.unread \/ s.hup THEN {"IN"} ELSE {})
             \cup (IF s.hup THEN {"HUP"} ELSE {})
             \cup (IF s.err THEN {"ERR"} ELSE {})

\* Slip: an event of a descriptor outlives its registration.
UnwatchNotReady(f) == watched' = watched \ {f} /\ UNCHANGED ready

\* epoll_ctl(EPOLL_CTL_DEL) or close(): f leaves the epoll set.
Unwatch(f) ==
    /\ watched' = watched \ {f}
    /\ ready' = ready \ {f}

\* Slip: the entry stays in the map.
EraseFromEpollOnly(f) == Unwatch(f) /\ UNCHANGED connections

\* connections_.erase(f) and EPOLL_CTL_DEL.
Erase(f) ==
    /\ connections' = [connections EXCEPT ![f] = Absent]
    /\ Unwatch(f)

\* Another thread is at a step that changes the map.
MapChanging(t) ==
    \E u \in Threads \ {t} :
        \/ pc[u] \in {"register", "dequeue"} /\ CanLock(poolLock)
        \/ u = Reaper /\ pc[u] = "scan" /\ todo # {}
        \/ /\ u = Listener /\ pc[u] = "dispatch" /\ events # <<>>
           /\ Head(events).fd \in Fds /\ connections[Head(events).fd] = Absent

-----------------------------------------------------------------------------
(* The peers and the kernel.                                               *)

program == <<heapVars, serverVars, poolVars, pc, localVars>>

\* A client connects: its connection waits in the backlog.
Connect(c) ==
    /\ obj[c] = "none"
    /\ obj' = [obj EXCEPT ![c] = "connecting"]
    /\ UNCHANGED <<isShutdown, socket, connLock, serverVars, kernelVars,
                   poolVars, pc, localVars>>

\* Something happens on socket f: epoll makes it ready if it is watched.
SocketChange(f, s) ==
    /\ sock' = [sock EXCEPT ![f] = s]
    /\ ready' = IF f \in watched THEN ready \cup {f} ELSE ready
    /\ UNCHANGED watched

PeerSend(f) ==
    LET c == sock[f].owner
    IN  /\ c \in Conns /\ ~sock[f].hup /\ sends[c] < MaxSends
        /\ SocketChange(f, [sock[f] EXCEPT !.unread = TRUE])
        /\ sends' = [sends EXCEPT ![c] = @ + 1]
        /\ UNCHANGED program

PeerClose(f) ==
    /\ sock[f].owner \in Conns /\ ~sock[f].hup
    /\ SocketChange(f, [sock[f] EXCEPT !.hup = TRUE])
    /\ UNCHANGED <<sends, program>>

SocketError(f) ==
    /\ "socket" \in Failures
    /\ sock[f].owner \in Conns /\ ~sock[f].err
    /\ SocketChange(f, [sock[f] EXCEPT !.err = TRUE])
    /\ UNCHANGED <<sends, program>>

-----------------------------------------------------------------------------
(* The thread in Listen().                                                 *)

\* A descriptor on the ready list with nothing left to report is passed over.
Available ==
    [fd : {ServerFd}, mask : IF \E c \in Conns : obj[c] = "connecting"
                             THEN {{"IN"}} ELSE {}]
      \cup {[fd |-> f, mask |-> Mask(sock[f])] :
                f \in {g \in ready : Mask(sock[g]) # {}}}

\* epoll_wait() fills events[num_threads_] with everything there is to report,
\* in an order of its own.  Clients are edge triggered: an event is reported
\* once.  The server socket is level triggered.
EpollWait ==
    LET n == Cardinality(Available)
        k == IF n < Cardinality(Workers) THEN n ELSE Cardinality(Workers)
    IN  /\ pc[Listener] = "epoll_wait"
        /\ k > 0
        /\ events' \in [1 .. k -> Available]
        /\ \A i, j \in 1 .. k : events'[i] = events'[j] => i = j
        /\ ready' = ready \ {events'[i].fd : i \in 1 .. k}
        /\ Goto(Listener, "dispatch")
        /\ UNCHANGED <<heapVars, serverVars, sock, watched, sends, poolVars,
                       cur, entry, todo>>

\* epoll_wait() returns without events and the loop ends: the timeout or a
\* signal let it see running_ = false, or the error is one it throws for.
ListenerReturns ==
    /\ pc[Listener] = "epoll_wait"
    /\ \/ IdleReaping /\ ~running
       \/ "epoll_wait" \in Failures
    /\ Goto(Listener, "stopped")
    /\ UNCHANGED <<heapVars, serverVars, kernelVars, poolVars, localVars>>

RoundEnds ==
    /\ pc[Listener] = "dispatch" /\ events = <<>>
    /\ Goto(Listener, IF running THEN "epoll_wait" ELSE "stopped")
    /\ UNCHANGED <<heapVars, serverVars, kernelVars, poolVars, localVars>>

NextEventIs(f) ==
    /\ pc[Listener] = "dispatch" /\ events # <<>>
    /\ Head(events).fd = f
    /\ events' = Tail(events)

\* accept() fails, when no descriptor is left among other reasons.
AcceptFails ==
    /\ NextEventIs(ServerFd)
    /\ "accept" \in Failures \/ \A f \in Fds : sock[f] # Closed
    /\ UNCHANGED <<heapVars, serverVars, kernelVars, poolVars, pc, cur, entry,
                   todo>>

\* accept() and new UNIXSocketConnection().
Accept(c, f) ==
    /\ NextEventIs(ServerFd)
    /\ obj[c] = "connecting" /\ sock[f] = Closed
    /\ obj' = [obj EXCEPT ![c] = "live"]
    /\ socket' = [socket EXCEPT ![c] = f]
    /\ sock' = [sock EXCEPT ![f].owner = c]
    /\ cur' = [cur EXCEPT ![Listener] = c]
    /\ Goto(Listener, "register")
    /\ UNCHANGED <<isShutdown, connLock, serverVars, watched, ready, sends,
                   poolVars, entry, todo>>

\* connections_[clientfd] = ... under the lock, then memset(events): whatever
\* the round had left to handle is wiped.
Register ==
    /\ pc[Listener] = "register"
    /\ CanLock(poolLock)
    /\ connections' = [connections EXCEPT ![socket[cur[Listener]]] = cur[Listener]]
    /\ events' = <<>>
    /\ Goto(Listener, "epoll_add")
    /\ UNCHANGED <<heapVars, poolLock, running, readAfterClose, kernelVars,
                   poolVars, cur, entry, todo>>

\* EPOLL_CTL_ADD puts a descriptor that already has something to report on the
\* ready list.
EpollAdd ==
    LET f == socket[cur[Listener]]
    IN  /\ pc[Listener] = "epoll_add"
        /\ sock[f].owner = cur[Listener]
        /\ watched' = watched \cup {f}
        /\ ready' = IF Mask(sock[f]) # {} THEN ready \cup {f} ELSE ready
        /\ Goto(Listener, "hold_new")
        /\ UNCHANGED <<heapVars, serverVars, sock, sends, poolVars, localVars>>

\* The descriptor was closed meanwhile, or the kernel refuses; the connection
\* stays in the map.
EpollAddFails ==
    /\ pc[Listener] = "epoll_add"
    /\ \/ "epoll_ctl" \in Failures
       \/ sock[socket[cur[Listener]]].owner # cur[Listener]
    /\ cur' = [cur EXCEPT ![Listener] = None]
    /\ Goto(Listener, "dispatch")
    /\ UNCHANGED <<heapVars, serverVars, kernelVars, poolVars, entry, events,
                   todo>>

HoldNew ==
    /\ pc[Listener] = "hold_new"
    /\ HoldAndAdd("Established", cur[Listener])
    /\ cur' = [cur EXCEPT ![Listener] = None]
    /\ Goto(Listener, "dispatch")
    /\ UNCHANGED <<obj, isShutdown, socket, serverVars, kernelVars, job, entry,
                   events, todo>>

\* connections_[fd] without the lock.  operator[] adds a null entry when the
\* key is gone; a null connection is ignored.
LookupNothing(f) ==
    /\ NextEventIs(f)
    /\ connections[f] \in {Absent, Null}
    /\ connections' = [connections EXCEPT ![f] = Null]
    /\ UNCHANGED <<heapVars, poolLock, running, readAfterClose, kernelVars,
                   poolVars, pc, cur, entry, todo>>

LookupConnection(f) ==
    LET mask == Head(events).mask
    IN  /\ NextEventIs(f)
        /\ connections[f] \in Conns
        /\ cur' = [cur EXCEPT ![Listener] = connections[f]]
        /\ entry' = [entry EXCEPT ![Listener] = f]
        /\ Goto(Listener, IF "HUP" \in mask THEN "hup"
                          ELSE IF "ERR" \in mask THEN "error" ELSE "recheck")
        /\ UNCHANGED <<heapVars, serverVars, kernelVars, poolVars, todo>>

\* ConnectionTerminated is queued, without a hold, before conn->Shutdown().
Hup ==
    /\ pc[Listener] = "hup"
    /\ Add("Terminated", cur[Listener])
    /\ entry' = [entry EXCEPT ![Listener] = None]
    /\ Goto(Listener, "flag")
    /\ UNCHANGED <<heapVars, serverVars, kernelVars, job, cur, events, todo>>

\* Error() is queued without looking whether conn is still in the map.
ErrorEvent ==
    /\ pc[Listener] = "error"
    /\ HoldAndAdd("Error", cur[Listener])
    /\ cur' = [cur EXCEPT ![Listener] = None]
    /\ entry' = [entry EXCEPT ![Listener] = None]
    /\ Goto(Listener, "dispatch")
    /\ UNCHANGED <<obj, isShutdown, socket, serverVars, kernelVars, job,
                   events, todo>>

\* Slip: `continue' without Unlock().
RecheckGoneStillLocked ==
    /\ pc[Listener] = "recheck"
    /\ CanLock(poolLock)
    /\ connections[entry[Listener]] = Absent
    /\ poolLock' = Locked(Listener)
    /\ Goto(Listener, "dispatch")
    /\ UNCHANGED <<heapVars, connections, running, readAfterClose, kernelVars,
                   poolVars, localVars>>

\* Slip: TryLock(), giving up when the lock is taken.
RecheckGoneOrBusy ==
    /\ pc[Listener] = "recheck"
    /\ ~CanLock(poolLock) \/ connections[entry[Listener]] = Absent
    /\ Goto(Listener, "dispatch")
    /\ UNCHANGED <<heapVars, serverVars, kernelVars, poolVars, localVars>>

\* DataReady: is the key still in the map, now that the lock is held?
RecheckGone ==
    /\ pc[Listener] = "recheck"
    /\ CanLock(poolLock)
    /\ connections[entry[Listener]] = Absent
    /\ readAfterClose' = readAfterClose + 1
    /\ cur' = [cur EXCEPT ![Listener] = None]
    /\ entry' = [entry EXCEPT ![Listener] = None]
    /\ Goto(Listener, "dispatch")
    /\ UNCHANGED <<heapVars, connections, poolLock, running, kernelVars,
                   poolVars, events, todo>>

\* Slip: the result of find() is not looked at.
RecheckFoundBlindly ==
    /\ pc[Listener] = "recheck"
    /\ CanLock(poolLock)
    /\ poolLock' = Locked(Listener)
    /\ Goto(Listener, "hold_data")
    /\ UNCHANGED <<heapVars, connections, running, readAfterClose, kernelVars,
                   poolVars, localVars>>

RecheckFound ==
    /\ pc[Listener] = "recheck"
    /\ CanLock(poolLock)
    /\ connections[entry[Listener]] # Absent
    /\ poolLock' = Locked(Listener)
    /\ Goto(Listener, "hold_data")
    /\ UNCHANGED <<heapVars, connections, running, readAfterClose, kernelVars,
                   poolVars, localVars>>

HoldData ==
    /\ pc[Listener] = "hold_data"
    /\ HoldAndAdd("DataReady", cur[Listener])
    /\ poolLock' = Free
    /\ cur' = [cur EXCEPT ![Listener] = None]
    /\ entry' = [entry EXCEPT ![Listener] = None]
    /\ Goto(Listener, "dispatch")
    /\ UNCHANGED <<obj, isShutdown, socket, connections, running,
                   readAfterClose, kernelVars, job, events, todo>>

-----------------------------------------------------------------------------
(* conn->Shutdown() of a UNIXSocketConnection, run by any thread.          *)

\* Slip: is_shutdown_ is not set.
SetShutdownForgotten(t) ==
    /\ pc[t] = "flag" /\ obj[cur[t]] = "live"
    /\ Goto(t, "search")
    /\ UNCHANGED <<heapVars, serverVars, kernelVars, poolVars, localVars>>

\* Slip: the socket is closed before Deregister().
SetShutdownClosing(t) ==
    /\ pc[t] = "flag" /\ obj[cur[t]] = "live"
    /\ isShutdown' = [isShutdown EXCEPT ![cur[t]] = TRUE]
    /\ sock' = [sock EXCEPT ![socket[cur[t]]] = Closed]
    /\ Unwatch(socket[cur[t]])
    /\ Goto(t, "search")
    /\ UNCHANGED <<obj, socket, connLock, serverVars, sends, poolVars, localVars>>

\* Deregister(): is_shutdown_ = true, without a lock.
SetShutdown(t) ==
    /\ pc[t] = "flag" /\ obj[cur[t]] = "live"
    /\ isShutdown' = [isShutdown EXCEPT ![cur[t]] = TRUE]
    /\ Goto(t, "search")
    /\ UNCHANGED <<obj, socket, connLock, serverVars, kernelVars, poolVars,
                   localVars>>

\* DequeueConnection(): the loop over connections_, without the lock, copies
\* the pair that holds the connection ...
SearchFinds(t, f) ==
    /\ pc[t] = "search"
    /\ connections[f] = cur[t]
    /\ entry' = [entry EXCEPT ![t] = f]
    /\ Goto(t, "dequeue")
    /\ UNCHANGED <<heapVars, serverVars, kernelVars, poolVars, cur, events,
                   todo>>

\* ... or none does, or the loop loses its way in a map that is changing.
SearchMisses(t) ==
    /\ pc[t] = "search"
    /\ \/ \A f \in Fds : connections[f] # cur[t]
       \/ "missedEntry" \in UndefinedBehaviour /\ MapChanging(t)
    /\ Goto(t, "exclusive")
    /\ UNCHANGED <<heapVars, serverVars, kernelVars, poolVars, localVars>>

\* Under the lock: erase the key, whatever it maps to by now, and leave epoll.
\* The loop then goes on from the erased element; nothing else matches.
Dequeue(t) ==
    /\ pc[t] = "dequeue"
    /\ CanLock(poolLock)
    /\ Erase(entry[t])
    /\ entry' = [entry EXCEPT ![t] = None]
    /\ Goto(t, "exclusive")
    /\ UNCHANGED <<heapVars, poolLock, running, readAfterClose, sock, sends,
                   poolVars, cur, events, todo>>

\* Slip: Lock() does not wait for the callbacks.
ExcludeNobody(t) ==
    /\ pc[t] = "exclusive" /\ obj[cur[t]] = "live"
    /\ connLock' = [connLock EXCEPT ![cur[t]].writer = {t}]
    /\ Goto(t, "close")
    /\ UNCHANGED <<obj, isShutdown, socket, serverVars, kernelVars, poolVars,
                   localVars>>

\* Lock(): every callback that holds the connection has called Unlock().
Exclude(t) ==
    /\ pc[t] = "exclusive" /\ obj[cur[t]] = "live"
    /\ CanLock(connLock[cur[t]])
    /\ connLock' = [connLock EXCEPT ![cur[t]] = Locked(t)]
    /\ Goto(t, "close")
    /\ UNCHANGED <<obj, isShutdown, socket, serverVars, kernelVars, poolVars,
                   localVars>>

\* shutdown(), close(), delete this.  The listener goes on with its round, the
\* reaper reports the connection, a worker is done with its task.
Close(t) ==
    LET c == cur[t]
    IN  /\ pc[t] = "close"
        /\ obj' = [obj EXCEPT ![c] = "deleted"]
        /\ connLock' = [connLock EXCEPT ![c] = Free]
        /\ sock' = [sock EXCEPT ![socket[c]] = Closed]
        /\ Unwatch(socket[c])
        /\ IF t = Reaper
           THEN /\ Goto(t, "notify")
                /\ UNCHANGED <<cur, task, job>>
           ELSE /\ cur' = [cur EXCEPT ![t] = None]
                /\ IF t = Listener
                   THEN Goto(t, "dispatch") /\ UNCHANGED <<task, job>>
                   ELSE /\ Goto(t, "free")
                        /\ task' = [task EXCEPT ![job[t]] = Unused]
                        /\ job' = [job EXCEPT ![t] = None]
        /\ UNCHANGED <<isShutdown, socket, serverVars, sends, queue, entry,
                       events, todo>>

-----------------------------------------------------------------------------
(* The reaper.                                                             *)

\* wait_for() ends; the loop ends if the server is no longer running.
ReaperWakes ==
    /\ pc[Reaper] = "sleep"
    /\ Goto(Reaper, IF running THEN "lock" ELSE "stopped")
    /\ UNCHANGED <<heapVars, serverVars, kernelVars, poolVars, localVars>>

ReaperLocks ==
    /\ pc[Reaper] = "lock"
    /\ CanLock(poolLock)
    /\ poolLock' = Locked(Reaper)
    /\ todo' = {f \in Fds : connections[f] # Absent}
    /\ Goto(Reaper, "scan")
    /\ UNCHANGED <<heapVars, connections, running, readAfterClose, kernelVars,
                   poolVars, cur, entry, events>>

\* A connection that is neither shut down nor idle stays.
Keep(f) ==
    /\ pc[Reaper] = "scan" /\ f \in todo
    /\ connections[f] \in Conns
    /\ obj[connections[f]] = "live" /\ ~isShutdown[connections[f]]
    /\ todo' = todo \ {f}
    /\ UNCHANGED <<heapVars, serverVars, kernelVars, poolVars, pc, cur, entry,
                   events>>

\* One that is shut down, or has been idle too long, is erased.  How long it
\* has been idle is left open: any connection may be idle at any time.
Reap(f) ==
    LET c == connections[f]
    IN  /\ pc[Reaper] = "scan" /\ f \in todo
        /\ c \in Conns /\ obj[c] = "live"
        /\ isShutdown[c] \/ IdleReaping
        /\ Erase(f)
        /\ todo' = todo \ {f}
        /\ cur' = [cur EXCEPT ![Reaper] = c]
        /\ Goto(Reaper, "judge")
        /\ UNCHANGED <<heapVars, poolLock, running, readAfterClose, sock,
                       sends, poolVars, entry, events>>

\* The range-for advances from the element it has just erased: to the next
\* one or, if the freed node says so, to any other or the end.
ReaperAdvances ==
    /\ cur' = [cur EXCEPT ![Reaper] = None]
    /\ \/ UNCHANGED todo
       \/ /\ "erasedIterator" \in UndefinedBehaviour
          /\ todo' \in SUBSET {f \in Fds : connections[f] # Absent}
    /\ Goto(Reaper, "scan")
    /\ UNCHANGED <<heapVars, serverVars, kernelVars, poolVars, entry, events>>

\* conn->IsShutdown() again: one that is already shut down needs nothing ...
JudgeShutdown ==
    /\ pc[Reaper] = "judge"
    /\ obj[cur[Reaper]] = "live" /\ isShutdown[cur[Reaper]]
    /\ ReaperAdvances

\* ... an idle one is shut down here and now, with the lock held, ...
JudgeIdle ==
    /\ pc[Reaper] = "judge"
    /\ obj[cur[Reaper]] = "live" /\ ~isShutdown[cur[Reaper]]
    /\ Goto(Reaper, "flag")
    /\ UNCHANGED <<heapVars, serverVars, kernelVars, poolVars, localVars>>

\* ... and then reported: ConnectionTerminated(conn) has returned.
ReaperNotified ==
    /\ pc[Reaper] = "notify"
    /\ ReaperAdvances

ReaperUnlocks ==
    /\ pc[Reaper] = "scan" /\ todo = {}
    /\ poolLock' = Free
    /\ Goto(Reaper, IF running THEN "sleep" ELSE "stopped")
    /\ UNCHANGED <<heapVars, connections, running, readAfterClose, kernelVars,
                   poolVars, localVars>>

-----------------------------------------------------------------------------
(* The pool threads.                                                       *)

FirstStep(kind) == IF kind = "Terminated" THEN "terminated"
                   ELSE IF kind = "Shutdown" THEN "flag" ELSE "acquire"

TakeTask(w) ==
    /\ pc[w] = "free" /\ queue # <<>>
    /\ LET t == Head(queue)
       IN  /\ job' = [job EXCEPT ![w] = t]
           /\ cur' = [cur EXCEPT ![w] = task[t].conn]
           /\ Goto(w, FirstStep(task[t].kind))
    /\ queue' = Tail(queue)
    /\ UNCHANGED <<heapVars, serverVars, kernelVars, task, entry, events,
                   todo>>

\* LockCallAndUnlock(): ReadMutexLock on the pool, then c->Run().
Acquire(w) ==
    /\ pc[w] = "acquire"
    /\ CanReadLock(poolLock)
    /\ poolLock' = ReadLocked(poolLock, w)
    /\ Goto(w, IF task[job[w]].kind = "DataReady" THEN "receive" ELSE "calls")
    /\ UNCHANGED <<heapVars, connections, running, readAfterClose, kernelVars,
                   poolVars, localVars>>

\* DataReady() reads all there is.
Receive(w) ==
    /\ pc[w] = "receive" /\ obj[cur[w]] = "live"
    /\ sock' = [sock EXCEPT ![socket[cur[w]]].unread = FALSE]
    /\ Goto(w, "calls")
    /\ UNCHANGED <<heapVars, serverVars, watched, ready, sends, poolVars,
                   localVars>>

\* Slip: conn->Shutdown() is called instead of queued.
DeferShutdownAtOnce(w) ==
    /\ pc[w] = "calls" /\ obj[cur[w]] = "live"
    /\ "DeferredShutdown" \in HandlerCalls
    /\ Goto(w, "flag")
    /\ UNCHANGED <<heapVars, serverVars, kernelVars, poolVars, localVars>>

\* A callback calls conn->DeferredShutdown(): Server::DeferShutdown() queues
\* conn->Shutdown(), without a hold.
DeferShutdown(w) ==
    /\ pc[w] = "calls" /\ obj[cur[w]] = "live"
    /\ "DeferredShutdown" \in HandlerCalls
    /\ Add("Shutdown", cur[w])
    /\ Goto(w, "return")
    /\ UNCHANGED <<heapVars, serverVars, kernelVars, job, localVars>>

\* A callback calls conn->GetServer()->Shutdown().
StopServer(w) ==
    /\ pc[w] = "calls" /\ obj[cur[w]] = "live"
    /\ "Shutdown" \in HandlerCalls
    /\ running' = FALSE
    /\ Goto(w, "return")
    /\ UNCHANGED <<heapVars, connections, poolLock, readAfterClose, kernelVars,
                   poolVars, localVars>>

\* The callback returns: conn->Unlock(), then the pool's read lock goes.
CallbackReturns(w) ==
    LET c == cur[w]
    IN  /\ pc[w] \in {"calls", "return"} /\ obj[c] = "live"
        /\ connLock' = [connLock EXCEPT ![c] = ReadUnlocked(@, job[w])]
        /\ poolLock' = ReadUnlocked(poolLock, w)
        /\ task' = [task EXCEPT ![job[w]] = Unused]
        /\ job' = [job EXCEPT ![w] = None]
        /\ cur' = [cur EXCEPT ![w] = None]
        /\ Goto(w, "free")
        /\ UNCHANGED <<obj, isShutdown, socket, connections, running,
                       readAfterClose, kernelVars, queue, entry, events, todo>>

\* ConnectionTerminated() returns; it ran under no lock at all.
TerminatedReturns(w) ==
    /\ pc[w] = "terminated"
    /\ task' = [task EXCEPT ![job[w]] = Unused]
    /\ job' = [job EXCEPT ![w] = None]
    /\ cur' = [cur EXCEPT ![w] = None]
    /\ Goto(w, "free")
    /\ UNCHANGED <<heapVars, serverVars, kernelVars, queue, entry, events,
                   todo>>

-----------------------------------------------------------------------------
(* Undefined behaviour that ends the behaviour.                            *)

\* A thread is about to use the connection its local variable points to.
UseAfterFree(t) ==
    /\ pc[t] \in {"flag", "exclusive", "hold_new", "error", "hold_data",
                  "judge", "receive", "calls", "return"}
    /\ obj[cur[t]] = "deleted"
    /\ Fault("useAfterFree")

\* The reaper calls conn->IsShutdown() on the element it has reached.
ReaperMeetsDeleted(f) ==
    /\ pc[Reaper] = "scan" /\ f \in todo
    /\ connections[f] \in Conns /\ obj[connections[f]] = "deleted"
    /\ Fault("useAfterFree")

ReaperMeetsNull(f) ==
    /\ pc[Reaper] = "scan" /\ f \in todo
    /\ connections[f] = Null
    /\ Fault("nullPointer")

\* An unlocked access to connections_ while another thread changes it.
MapRace(t) ==
    /\ "mapRace" \in UndefinedBehaviour
    /\ \/ pc[t] = "search"
       \/ t = Listener /\ pc[t] = "dispatch" /\ events # <<>>
                       /\ Head(events).fd # ServerFd
    /\ MapChanging(t)
    /\ Fault("mapRace")

\* The loop in DequeueConnection() or the reaper's advances from the element
\* it has erased, and crashes.
EraseCrash(t) ==
    /\ "erasedIterator" \in UndefinedBehaviour
    /\ \/ pc[t] = "dequeue" /\ CanLock(poolLock)
       \/ pc[t] = "judge" /\ obj[cur[t]] = "live" /\ isShutdown[cur[t]]
       \/ pc[t] = "notify"
    /\ Fault("erasedIterator")

-----------------------------------------------------------------------------
ListenerNext ==
    \/ EpollWait \/ ListenerReturns \/ RoundEnds
    \/ AcceptFails \/ (\E c \in Conns, f \in Fds : Accept(c, f))
    \/ Register \/ EpollAdd \/ EpollAddFails \/ HoldNew
    \/ \E f \in Fds : LookupNothing(f) \/ LookupConnection(f)
    \/ Hup \/ ErrorEvent \/ RecheckGone \/ RecheckFound \/ HoldData

ShutdownNext(t) ==
    \/ SetShutdown(t) \/ (\E f \in Fds : SearchFinds(t, f)) \/ SearchMisses(t)
    \/ Dequeue(t) \/ Exclude(t) \/ Close(t)

ReaperNext ==
    \/ ReaperWakes \/ ReaperLocks \/ (\E f \in Fds : Keep(f) \/ Reap(f))
    \/ JudgeShutdown \/ JudgeIdle \/ ReaperNotified \/ ReaperUnlocks

WorkerNext(w) ==
    \/ TakeTask(w) \/ Acquire(w) \/ Receive(w) \/ DeferShutdown(w)
    \/ StopServer(w) \/ CallbackReturns(w) \/ TerminatedReturns(w)

PeerNext ==
    \/ \E c \in Conns : Connect(c)
    \/ \E f \in Fds : PeerSend(f) \/ PeerClose(f) \/ SocketError(f)

FaultNext(t) ==
    \/ UseAfterFree(t) \/ MapRace(t) \/ EraseCrash(t)
    \/ t = Reaper /\ \E f \in Fds : ReaperMeetsDeleted(f) \/ ReaperMeetsNull(f)

ThreadNext(t) ==
    /\ fault = "none"
    /\ \/ /\ \/ t = Listener /\ ListenerNext
             \/ t = Reaper /\ ReaperNext
             \/ t \in Workers /\ WorkerNext(t)
             \/ ShutdownNext(t)
          /\ UNCHANGED fault
       \/ FaultNext(t)

Next ==
    \/ \E t \in Threads : ThreadNext(t)
    \/ fault = "none" /\ PeerNext /\ UNCHANGED fault

Spec == Init /\ [][Next]_vars

(***************************************************************************)
(* Scheduling.  Each thread runs if it can; a thread that waits for one of *)
(* the locks gets it if it keeps coming free: the reaper sleeps at least   *)
(* 500 ms between two passes, and rwlocks do not pass over a waiter for    *)
(* ever.  Nothing is assumed of the peers.                                 *)
(***************************************************************************)
Fairness == \A t \in Threads : SF_vars(ThreadNext(t))

FairSpec == Spec /\ Fairness
=============================================================================
