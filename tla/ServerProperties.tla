-------------------------- MODULE ServerProperties --------------------------
(***************************************************************************)
(* What the server of module Server does and does not guarantee.           *)
(***************************************************************************)
EXTENDS Server

\* The callbacks that hold c: queued or running LockCallAndUnlock() closures.
Handlers(c) == {t \in Tasks : task[t].kind \in Locking /\ task[t].conn = c}

\* A connection is read-locked by exactly the callbacks that are queued or
\* running for it, and none is left when it is deleted: no callback runs on a
\* deleted connection (Listen's ReadLock() before Add(), Shutdown()'s Lock()
\* before delete), and no hold stays behind to block Shutdown() for ever.
HoldsMatchHandlers ==
    \A c \in Conns : connLock[c].readers = Handlers(c)
                     /\ (Handlers(c) # {} => obj[c] = "live")

\* No thread waits for connections_lock_ while it is inside it.  The reaper
\* calls conn->Shutdown() with the lock held, so everything rests on its having
\* erased the element first: DequeueConnection() must not find it.
NoSelfDeadlock ==
    \A t \in Threads :
        pc[t] \in {"register", "recheck", "lock", "dequeue", "acquire"}
            => ~Holds(poolLock, t)

\* An entry for a live connection is filed under that connection's own open
\* descriptor, although descriptors are reused as soon as they are closed: an
\* event is never dispatched to another client's connection.
EntriesMatchSockets ==
    \A f \in Fds : LET c == connections[f]
                   IN  c \in Conns /\ obj[c] = "live"
                         => socket[c] = f /\ sock[f].owner = c

\* At most one thread is past Lock() in Shutdown(), and the connection it will
\* delete is live, is nobody else's to delete and is out of every callback.
CloseIsExclusive ==
    \A t \in Threads : pc[t] = "close" =>
        /\ obj[cur[t]] = "live" /\ isShutdown[cur[t]]
        /\ Handlers(cur[t]) = {}
        /\ \A u \in Threads \ {t} : pc[u] = "close" => cur[u] # cur[t]

-----------------------------------------------------------------------------
(* The inductive invariant behind TypeOK, HoldsMatchHandlers and           *)
(* CloseIsExclusive.                                                       *)

Created(c) == c \in Conns /\ obj[c] \in {"live", "deleted"}

\* At every other label a thread's local points to a connection.
WithoutConnection == {"epoll_wait", "dispatch", "stopped", "sleep", "lock", "scan",
                      "free"}

\* Every pointer leads to an object that has been created, and every created
\* object has a descriptor: null pointers occur in the map only.
PointersOK ==
    /\ \A c \in Conns : IF Created(c) THEN socket[c] \in Fds ELSE ~isShutdown[c]
    /\ \A f \in Fds : connections[f] \in Conns => Created(connections[f])
    /\ \A t \in Tasks : task[t] # Unused => Created(task[t].conn)
    /\ \A t \in Threads : pc[t] \notin WithoutConnection => Created(cur[t])

\* What the task of a worker is, by where the worker is.
JobFits(w) ==
    LET k == task[job[w]].kind
    IN  /\ pc[w] \in {"acquire", "receive", "calls", "return"} => k \in Locking
        /\ pc[w] = "terminated" => k = "Terminated"
        /\ pc[w] \in ShutdownSteps => k = "Shutdown"

\* A task is queued once or run by one worker, ...
QueueOK ==
    /\ \A i \in 1 .. Len(queue) : task[queue[i]] # Unused
    /\ \A i, j \in 1 .. Len(queue) : queue[i] = queue[j] => i = j
    /\ \A w \in Workers, i \in 1 .. Len(queue) : queue[i] # job[w]
    /\ \A w, u \in Workers : job[w] = job[u] => w = u \/ job[w] = None

\* ... and stays in use until it is done.
JobOK(w) == IF pc[w] = "free" THEN job[w] = None
            ELSE /\ job[w] \in Tasks /\ task[job[w]] # Unused
                 /\ cur[w] = task[job[w]].conn
                 /\ JobFits(w)

JobsOK == \A w \in Workers : JobOK(w)

\* From SetShutdown on the flag is up; past Lock() the lock is the thread's own.
ShutdownOK ==
    \A t \in Threads :
        /\ pc[t] \in {"search", "dequeue", "exclusive", "close"}
            => isShutdown[cur[t]]
        /\ pc[t] = "close" => connLock[cur[t]] = Locked(t) /\ obj[cur[t]] = "live"
        /\ pc[t] = "dequeue" => entry[t] \in Fds

IInv == /\ TypeOK /\ PointersOK /\ QueueOK /\ JobsOK
        /\ HoldsMatchHandlers /\ ShutdownOK

\* What this module implements of the promise in connection.h and server.h:
\* opened once, held only while it exists, shut down for good, destroyed once,
\* after being shut down and when no callback holds it.
Phase(c) ==
    IF obj[c] \in {"none", "connecting"} THEN "absent"
    ELSE IF obj[c] = "deleted" THEN "destroyed"
    ELSE IF isShutdown[c] THEN "shutDown" ELSE "open"

Lifecycle == INSTANCE ConnectionLifecycle
                WITH Holders <- Tasks,
                     phase <- [c \in Conns |-> Phase(c)],
                     holds <- [c \in Conns |-> Handlers(c)]

\* Server implements ConnectionLifecycle.
ImplementsLifecycle == Lifecycle!Spec

\* What a thread at label l does next reads the connection that its local
\* variable points to.
Uses(l) == l \in {"flag", "search", "dequeue", "exclusive", "hold_new", "error",
                  "recheck", "hold_data", "judge", "notify", "receive", "calls",
                  "return", "terminated"}

\* A packet in the socket of an open, monitored connection is on its way to
\* DataReady(): in epoll's ready list, in the array of events, at the listener
\* or in a closure that has yet to read.  Edge triggering reports it once, so
\* one lost step leaves it there until the peer says something more.
DataReadyPending(c) ==
    \/ \E t \in Tasks : task[t] = [kind |-> "DataReady", conn |-> c]
                        /\ \A w \in Workers : job[w] = t
                                => pc[w] \in {"acquire", "receive"}
    \/ pc[Listener] \in {"recheck", "hold_data"} /\ cur[Listener] = c

NoDataForgotten ==
    fault = "none" /\ pc[Listener] # "stopped" =>
        \A f \in watched : LET c == sock[f].owner
            IN  /\ sock[f].unread /\ ~sock[f].hup
                /\ connections[f] = c /\ ~isShutdown[c]
                => \/ f \in ready
                   \/ \E i \in DOMAIN events :
                            events[i].fd = f /\ "IN" \in events[i].mask
                   \/ DataReadyPending(c)

\* Listen() looks the connection of a packet up without the lock and again with
\* it.  In between deferred shutdowns and the reaper may erase the entry, delete
\* the connection and close its descriptor; what is found again is still the
\* connection that was looked up, and it exists: ReadLock() is safe.
RecheckedIsLive ==
    pc[Listener] = "hold_data" =>
        /\ connections[entry[Listener]] = cur[Listener]
        /\ obj[cur[Listener]] = "live"

\* server.cc:109: read-after-close "should always be 0".
ReadAfterCloseIsZero == readAfterClose = 0

\* server.h:118: ConnectionTerminated() gets a connection that "is about to be
\* removed", so one that still exists.
TerminatedConnectionExists ==
    \A t \in Threads : pc[t] \in {"terminated", "notify"} => obj[cur[t]] = "live"

\* unixsocketconnection.cc:158: past Lock(), Shutdown() has ensured "we're the
\* only ones operating on the connection".
OnlyOneOperates ==
    \A t \in Threads : pc[t] = "close" =>
        \A u \in Threads \ {t} : Uses(pc[u]) => cur[u] # cur[t]

\* server.h:163: DequeueConnection() removes the connection from the pool; the
\* pool never holds an entry that is not a connection.
NoNullEntry == \A f \in Fds : connections[f] # Null

-----------------------------------------------------------------------------
(* Liveness.  After undefined behaviour nothing is promised.               *)

Faulted == fault # "none"

\* Every pool thread runs a deferred Shutdown() that waits for a callback.
PoolExhausted == \A w \in Workers : pc[w] = "exclusive"

\* A connection whose peer has hung up is closed and deleted, whatever callbacks
\* are queued or running for it, unless deferred shutdowns, which run on the same
\* pool as the callbacks they wait for, have taken every pool thread for good.
HangUpEndsConnection ==
    \A c \in Conns :
        (\E f \in watched : sock[f].owner = c /\ sock[f].hup)
            ~> (obj[c] = "deleted" \/ Faulted \/ []PoolExhausted)

\* connections_lock_ keeps coming free: nobody waits for anything else for ever
\* while holding it.
RegistryLockComesFree == []<>(poolLock = Free \/ Faulted)

\* A callback that a worker has begun ends.
BegunCallbacksEnd ==
    \A w \in Workers : pc[w] = "acquire" ~> (pc[w] = "free" \/ Faulted)

\* server.h:157: a connection that a handler has marked is shut down when the
\* next thread becomes free.
DeferredShutdownCompletes ==
    \A c \in Conns :
        (\E t \in Tasks : task[t] = [kind |-> "Shutdown", conn |-> c])
            ~> (obj[c] = "deleted" \/ Faulted)

\* server.h:167: an idle connection is automatically terminated.
IdleConnectionIsTerminated ==
    \A c \in Conns :
        (pc[Reaper] = "flag" /\ cur[Reaper] = c) ~> (obj[c] = "deleted" \/ Faulted)
=============================================================================
