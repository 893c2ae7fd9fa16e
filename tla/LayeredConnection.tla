-------------------------- MODULE LayeredConnection --------------------------
(***************************************************************************)
(* One client whose connection is more than a plain socket: a TLS          *)
(* connection (OpenSSLConnection), a decorated one, or both.  The server   *)
(* around it is the one of module Server with its steps taken together     *)
(* where the layers make no difference.                                    *)
(*                                                                         *)
(* The inner object is the socket's, the outer one the decorator that      *)
(* AddDecorators() wrapped around it; each has its own lock and flag, and  *)
(* the map holds the outermost, Top.  The first use of a deleted object    *)
(* sets `fault' and ends the behaviour.                                    *)
(***************************************************************************)
EXTENDS Naturals, FiniteSets, ReadWriteMutex

CONSTANTS
    Setups,             \* the kinds of connection and server tried
    Workers, Listener, Reaper, Tasks, None,
    MaxPackets, MaxDefers   \* bounds: DataReady events, deferred shutdowns

Threads == Workers \cup {Listener, Reaper}
Objects == {"inner", "outer"}

\* ssl: SetServerSSLContext(); decorated: AddDecorators() wraps; idle: there is
\* an idle limit; raw: ConnectionEstablished() may defer a shutdown of the
\* undecorated connection it is given.
Setup == [ssl : BOOLEAN, decorated : BOOLEAN, idle : BOOLEAN, raw : BOOLEAN]

ASSUME LayeredAssumption ==
    /\ Setups \subseteq Setup
    /\ Listener # Reaper /\ Listener \notin Workers /\ Reaper \notin Workers
    /\ None \notin Threads \cup Tasks
    /\ MaxPackets \in Nat /\ MaxDefers \in Nat

VARIABLES
    setup,
    obj, flag, lock,    \* per object: its life, is_shutdown_, mtx_
    sslMtx,             \* the thread inside ssl_mtx_
    mapped, poolLock,   \* connections_ has an entry, connections_lock_
    open, packets, hup, \* the descriptor; events so far
    task, defers,       \* closures in the pool
    pc, root, cur, job, \* threads: label, object whose Shutdown() was called,
    fault               \*   object at work on, task

objVars == <<obj, flag, lock, sslMtx>>
mapVars == <<mapped, poolLock>>
netVars == <<open, packets, hup>>
taskVars == <<task, defers>>
vars == <<setup, objVars, mapVars, netVars, taskVars, pc, root, cur, job, fault>>

Top == IF setup.decorated THEN "outer" ELSE "inner"
Unused == [kind |-> "unused", obj |-> None]
Locking == {"Established", "DataReady"}
ShutdownSteps == {"ssl", "deregister", "dequeue", "lock", "close", "finish"}

TypeOK ==
    /\ setup \in Setups
    /\ obj \in [Objects -> {"none", "live", "deleted"}] /\ flag \in [Objects -> BOOLEAN]
    /\ lock \in [Objects -> Mutexes(Threads, Tasks)]
    /\ sslMtx \in Threads \cup {None}
    /\ mapped \in BOOLEAN /\ poolLock \in Mutexes(Threads, Workers)
    /\ open \in BOOLEAN /\ packets \in 0 .. MaxPackets /\ hup \in BOOLEAN
    /\ task \in [Tasks -> [kind : Locking \cup {"Terminated", "Shutdown"}, obj : Objects] \cup {Unused}]
    /\ defers \in 0 .. MaxDefers
    /\ pc \in [Threads -> ShutdownSteps \cup {"construct", "register", "hold_new", "poll", "sleep", "judge",
                        "notify", "free", "told", "acquire", "calls", "io"}]
    /\ root \in [Threads -> Objects] /\ cur \in [Threads -> Objects]
    /\ job \in [Workers -> Tasks \cup {None}]
    /\ fault \in BOOLEAN

\* The listener has accepted the client.
Init ==
    /\ setup \in Setups
    /\ obj = [o \in Objects |-> "none"] /\ flag = [o \in Objects |-> FALSE]
    /\ lock = [o \in Objects |-> Free] /\ sslMtx = None
    /\ mapped = FALSE /\ poolLock = Free
    /\ open = TRUE /\ packets = 0 /\ hup = FALSE
    /\ task = [t \in Tasks |-> Unused] /\ defers = 0
    /\ pc = [t \in Threads |-> IF t = Listener THEN "construct"
                               ELSE IF t = Reaper THEN "sleep" ELSE "free"]
    /\ root = [t \in Threads |-> Top] /\ cur = [t \in Threads |-> Top]
    /\ job = [w \in Workers |-> None]
    /\ fault = FALSE

-----------------------------------------------------------------------------
Goto(t, l) == pc' = [pc EXCEPT ![t] = l]

\* Using an object uses what it wraps: its GetServer(), IsShutdown(), Receive().
Usable(o) == obj[o] = "live" /\ obj["inner"] = "live"

NewTask == CHOOSE t \in Tasks : task[t] = Unused

Add(kind, o) ==
    /\ \E t \in Tasks : task[t] = Unused
    /\ task' = [task EXCEPT ![NewTask] = [kind |-> kind, obj |-> o]]

\* Slip: the hold is the queueing thread's, not the callback's.
HoldByThread(kind, o) ==
    /\ Usable(o) /\ CanReadLock(lock[o]) /\ Add(kind, o)
    /\ lock' = [lock EXCEPT ![o] = ReadLocked(@, Listener)]

\* conn->ReadLock() and executor_.Add() of the callback.
HoldAndAdd(kind, o) ==
    /\ Usable(o) /\ CanReadLock(lock[o]) /\ Add(kind, o)
    /\ lock' = [lock EXCEPT ![o] = ReadLocked(@, NewTask)]

\* The socket's object is constructed; a TLS one runs SSL_accept().
Construct ==
    /\ pc[Listener] = "construct"
    /\ obj' = [obj EXCEPT !["inner"] = "live"]
    /\ Goto(Listener, "register")
    /\ UNCHANGED <<setup, flag, lock, sslMtx, mapVars, netVars, taskVars, root, cur, job, fault>>

\* The TLS constructor throws.  The exception is counted and the code goes on
\* with a pointer that was never assigned.
ConstructThrows ==
    /\ pc[Listener] = "construct" /\ setup.ssl
    /\ fault' = TRUE
    /\ UNCHANGED <<setup, objVars, mapVars, netVars, taskVars, pc, root, cur, job>>

\* AddDecorators(), and the outermost object enters the map.
Register ==
    /\ pc[Listener] = "register" /\ CanLock(poolLock)
    /\ obj' = [obj EXCEPT ![Top] = "live"]
    /\ mapped' = TRUE
    /\ Goto(Listener, "hold_new")
    /\ UNCHANGED <<setup, flag, lock, sslMtx, poolLock, netVars, taskVars, root, cur, job, fault>>

\* ConnectionEstablished() gets the connection before decoration.
Established ==
    /\ pc[Listener] = "hold_new"
    /\ HoldAndAdd("Established", "inner")
    /\ Goto(Listener, "poll")
    /\ UNCHANGED <<setup, obj, flag, sslMtx, mapVars, netVars, defers, root, cur, job, fault>>

\* DataReady() gets the one in the map.
DataReady ==
    /\ pc[Listener] = "poll" /\ open /\ mapped /\ CanLock(poolLock)
    /\ packets < MaxPackets /\ packets' = packets + 1
    /\ HoldAndAdd("DataReady", Top)
    /\ UNCHANGED <<setup, obj, flag, sslMtx, mapVars, open, hup, defers, pc, root, cur, job,
                   fault>>

\* The first step of o->Shutdown(): TLS connections take ssl_mtx_ before all else.
FirstStep(o) == IF o = "inner" /\ setup.ssl THEN "ssl" ELSE "deregister"

CallShutdown(t, o) ==
    /\ root' = [root EXCEPT ![t] = o] /\ cur' = [cur EXCEPT ![t] = o]
    /\ Goto(t, FirstStep(o))

\* The peer hangs up: the listener queues ConnectionTerminated() and shuts the
\* connection of the map down.
HangUp ==
    /\ pc[Listener] = "poll" /\ open /\ mapped /\ ~hup
    /\ hup' = TRUE
    /\ Add("Terminated", Top)
    /\ CallShutdown(Listener, Top)
    /\ UNCHANGED <<setup, objVars, mapVars, open, packets, defers, job, fault>>

-----------------------------------------------------------------------------
(* Shutdown() of an object, by any thread.                                 *)

TakeSSL(t) ==
    /\ pc[t] = "ssl" /\ Usable("inner") /\ sslMtx = None
    /\ sslMtx' = t
    /\ Goto(t, "deregister")
    /\ UNCHANGED <<setup, obj, flag, lock, mapVars, netVars, taskVars, root, cur, job, fault>>

\* Deregister(): the flag of this object, not of the one it wraps.
Deregister(t) ==
    /\ pc[t] = "deregister" /\ Usable(cur[t])
    /\ flag' = [flag EXCEPT ![cur[t]] = TRUE]
    /\ Goto(t, "dequeue")
    /\ UNCHANGED <<setup, obj, lock, sslMtx, mapVars, netVars, taskVars, root, cur, job, fault>>

\* DequeueConnection(this) finds the outermost object only.
Dequeue(t) ==
    /\ pc[t] = "dequeue"
    /\ \/ mapped /\ cur[t] = Top /\ CanLock(poolLock) /\ mapped' = FALSE
       \/ ~(mapped /\ cur[t] = Top) /\ UNCHANGED mapped
    /\ Goto(t, "lock")
    /\ UNCHANGED <<setup, objVars, poolLock, netVars, taskVars, root, cur, job, fault>>

\* Slip: the wrapped connection is shut down without the decorator's Lock().
LockOuterSkipped(t) ==
    /\ pc[t] = "lock" /\ cur[t] = "outer" /\ Usable("outer")
    /\ cur' = [cur EXCEPT ![t] = "inner"] /\ Goto(t, FirstStep("inner"))
    /\ UNCHANGED <<setup, objVars, mapVars, netVars, taskVars, root, job, fault>>

\* Lock(), then a decorator goes on with wrapped_->Shutdown().
LockOuter(t) ==
    /\ pc[t] = "lock" /\ cur[t] = "outer" /\ Usable("outer") /\ CanLock(lock["outer"])
    /\ lock' = [lock EXCEPT !["outer"] = Locked(t)]
    /\ cur' = [cur EXCEPT ![t] = "inner"] /\ Goto(t, FirstStep("inner"))
    /\ UNCHANGED <<setup, obj, flag, sslMtx, mapVars, netVars, taskVars, root, job, fault>>

\* Slip: Lock() does not wait for the callbacks.
LockInnerAtOnce(t) ==
    /\ pc[t] = "lock" /\ cur[t] = "inner" /\ Usable("inner")
    /\ lock' = [lock EXCEPT !["inner"] = Locked(t)]
    /\ Goto(t, "close")
    /\ UNCHANGED <<setup, obj, flag, sslMtx, mapVars, netVars, taskVars, root, cur, job, fault>>

LockInner(t) ==
    /\ pc[t] = "lock" /\ cur[t] = "inner" /\ Usable("inner") /\ CanLock(lock["inner"])
    /\ lock' = [lock EXCEPT !["inner"] = Locked(t)]
    /\ Goto(t, "close")
    /\ UNCHANGED <<setup, obj, flag, sslMtx, mapVars, netVars, taskVars, root, cur, job, fault>>

\* Where a thread goes when Shutdown(), or its task, is done.
Done(t) ==
    /\ root' = [root EXCEPT ![t] = Top] /\ cur' = [cur EXCEPT ![t] = Top]
    /\ Goto(t, IF t = Listener THEN "poll" ELSE IF t = Reaper THEN "notify" ELSE "free")
    /\ IF t \in Workers
       THEN /\ task' = [task EXCEPT ![job[t]] = Unused]
            /\ job' = [job EXCEPT ![t] = None]
       ELSE UNCHANGED <<task, job>>

\* `delete this' of the socket's object.  A plain one closes the descriptor; a
\* TLS one frees its session only, and leaves ssl_mtx_.
Close(t) ==
    /\ pc[t] = "close"
    /\ obj' = [obj EXCEPT !["inner"] = "deleted"]
    /\ lock' = [lock EXCEPT !["inner"] = Free]
    /\ IF setup.ssl THEN sslMtx' = None /\ UNCHANGED open
                    ELSE open' = FALSE /\ UNCHANGED sslMtx
    /\ IF root[t] = "outer" THEN Goto(t, "finish") /\ UNCHANGED <<task, job, root, cur>>
       ELSE Done(t)
    /\ UNCHANGED <<setup, flag, mapVars, packets, hup, defers, fault>>

\* `delete this' of the decorator.
Finish(t) ==
    /\ pc[t] = "finish"
    /\ obj' = [obj EXCEPT !["outer"] = "deleted"]
    /\ lock' = [lock EXCEPT !["outer"] = Free]
    /\ Done(t)
    /\ UNCHANGED <<setup, flag, sslMtx, mapVars, netVars, defers, fault>>

-----------------------------------------------------------------------------
(* Workers.                                                                *)

TakeTask(w) ==
    /\ pc[w] = "free"
    /\ \E t \in Tasks :
          /\ task[t] # Unused /\ \A u \in Workers : job[u] # t
          /\ job' = [job EXCEPT ![w] = t]
          /\ IF task[t].kind = "Shutdown" THEN CallShutdown(w, task[t].obj)
             ELSE /\ cur' = [cur EXCEPT ![w] = task[t].obj] /\ UNCHANGED root
                  /\ Goto(w, IF task[t].kind = "Terminated" THEN "told" ELSE "acquire")
    /\ UNCHANGED <<setup, objVars, mapVars, netVars, taskVars, fault>>

\* LockCallAndUnlock() enters connections_lock_ and the callback.
Acquire(w) ==
    /\ pc[w] = "acquire" /\ CanReadLock(poolLock)
    /\ poolLock' = ReadLocked(poolLock, w)
    /\ Goto(w, "calls")
    /\ UNCHANGED <<setup, objVars, mapped, netVars, taskVars, root, cur, job, fault>>

\* The callback calls Receive() or Send(): a TLS connection holds ssl_mtx_
\* meanwhile.
BeginIO(w) ==
    /\ pc[w] = "calls" /\ Usable(cur[w])
    /\ IF setup.ssl THEN sslMtx = None /\ sslMtx' = w ELSE UNCHANGED sslMtx
    /\ Goto(w, "io")
    /\ UNCHANGED <<setup, obj, flag, lock, mapVars, netVars, taskVars, root, cur, job, fault>>

\* Slip: an exception leaves the callback, and conn->Unlock() is never reached.
EndIOThrowing(w) ==
    /\ pc[w] = "io"
    /\ sslMtx' = IF setup.ssl THEN None ELSE sslMtx
    /\ poolLock' = ReadUnlocked(poolLock, w)
    /\ Done(w)
    /\ UNCHANGED <<setup, obj, flag, lock, mapped, netVars, defers, fault>>

\* The call returns, and the callback calls nothing more.
EndIO(w) ==
    /\ pc[w] = "io"
    /\ sslMtx' = IF setup.ssl THEN None ELSE sslMtx
    /\ poolLock' = ReadUnlocked(poolLock, w)
    /\ lock' = [lock EXCEPT ![cur[w]] = ReadUnlocked(@, job[w])]
    /\ Done(w)
    /\ UNCHANGED <<setup, obj, flag, mapped, netVars, defers, fault>>

\* ConnectionTerminated(), which may not touch the connection any more, returns.
TerminatedReturns(w) ==
    /\ pc[w] = "told"
    /\ Done(w)
    /\ UNCHANGED <<setup, objVars, mapVars, netVars, defers, fault>>

\* The callback defers a shutdown of the connection it was given.
DeferShutdown(w) ==
    /\ pc[w] = "calls" /\ Usable(cur[w]) /\ defers < MaxDefers
    /\ cur[w] = Top \/ setup.raw
    /\ defers' = defers + 1
    /\ Add("Shutdown", cur[w])
    /\ UNCHANGED <<setup, objVars, mapVars, netVars, pc, root, cur, job, fault>>

-----------------------------------------------------------------------------
(* The reaper.                                                             *)

\* IsShutdown(): a decorator asks the connection it wraps.
IsShutdown == flag["inner"]

\* An entry that is shut down, or idle, is erased.
Reap ==
    /\ pc[Reaper] = "sleep" /\ CanLock(poolLock) /\ mapped /\ Usable(Top)
    /\ IsShutdown \/ setup.idle
    /\ mapped' = FALSE
    /\ poolLock' = IF IsShutdown THEN Free ELSE Locked(Reaper)
    /\ IF IsShutdown THEN UNCHANGED <<root, cur, pc>> ELSE CallShutdown(Reaper, Top)
    /\ UNCHANGED <<setup, objVars, netVars, taskVars, job, fault>>

\* ConnectionTerminated(conn) returns and the lock is given back.
ReaperUnlocks ==
    /\ pc[Reaper] = "notify"
    /\ poolLock' = Free
    /\ Goto(Reaper, "sleep")
    /\ UNCHANGED <<setup, objVars, mapped, netVars, taskVars, root, cur, job, fault>>

-----------------------------------------------------------------------------
\* What a thread does next uses a deleted object, or one whose wrapped_ is.
UseAfterFree(t) ==
    /\ \/ pc[t] \in {"ssl", "deregister", "lock", "calls"} /\ ~Usable(cur[t])
       \/ pc[t] = "hold_new" /\ ~Usable("inner")
       \/ t = Listener /\ pc[t] = "poll" /\ mapped /\ open /\ ~Usable(Top)
       \/ t = Reaper /\ pc[t] = "sleep" /\ CanLock(poolLock) /\ mapped /\ ~Usable(Top)
    /\ fault' = TRUE
    /\ UNCHANGED <<setup, objVars, mapVars, netVars, taskVars, pc, root, cur, job>>

ShutdownNext(t) ==
    TakeSSL(t) \/ Deregister(t) \/ Dequeue(t) \/ LockOuter(t) \/ LockInner(t)
        \/ Close(t) \/ Finish(t)

WorkerNext(w) ==
    TakeTask(w) \/ Acquire(w) \/ BeginIO(w) \/ EndIO(w) \/ TerminatedReturns(w)
        \/ DeferShutdown(w)

ThreadNext(t) ==
    /\ ~fault
    /\ \/ t \in Workers /\ WorkerNext(t)
       \/ t = Listener /\ (Construct \/ ConstructThrows \/ Register \/ Established)
       \/ t = Reaper /\ (Reap \/ ReaperUnlocks)
       \/ ShutdownNext(t) \/ UseAfterFree(t)

PeerNext == ~fault /\ (DataReady \/ HangUp)

Next == PeerNext \/ \E t \in Threads : ThreadNext(t)

Spec == Init /\ [][Next]_vars

\* As in module Server: a thread that waits for a lock gets it if the lock keeps
\* coming free, and recv() and SSL_read() return.
FairSpec == Spec /\ \A t \in Threads : SF_vars(ThreadNext(t))

-----------------------------------------------------------------------------
Phase(o) == IF obj[o] = "none" THEN "absent"
            ELSE IF obj[o] = "deleted" THEN "destroyed"
            ELSE IF flag[o] THEN "shutDown" ELSE "open"
Handlers(o) == {t \in Tasks : task[t].kind \in Locking /\ task[t].obj = o}

\* connection.h promises the same life to every layer.
Lifecycle == INSTANCE ConnectionLifecycle
                WITH Conns <- Objects, Holders <- Tasks,
                     phase <- [o \in Objects |-> Phase(o)],
                     holds <- [o \in Objects |-> Handlers(o)]

\* Decorated and TLS connections live as ConnectionLifecycle says, each layer by
\* itself: shut down before it is destroyed, never destroyed while a callback
\* that was given that very layer holds it.
LayersFollowLifecycle == Lifecycle!Spec

\* Unless somebody shuts the undecorated connection down, a decorator whose
\* wrapped connection is gone is about to be deleted itself, by a thread that
\* nobody can come in between: no callback, no event and no pass of the reaper
\* reaches a dangling wrapped_.
DecoratorNotDangling ==
    setup.decorated /\ ~setup.raw /\ obj["inner"] = "deleted" /\ obj["outer"] = "live"
        => /\ ~mapped /\ Handlers("outer") = {}
           /\ \E t \in Threads : pc[t] = "finish" /\ lock["outer"] = Locked(t)

\* Shutdown() of a plain or decorated connection, once begun, comes to its end
\* and disconnects the client.
ShutdownDisconnects ==
    \A t \in Threads :
        (~setup.ssl /\ ~setup.idle /\ pc[t] = "deregister") ~> (~open \/ fault)

\* connection.h:78: Shutdown() "disconnects the socket and removes it from the
\* notification queues": for a TLS connection the thread that calls it comes back.
SSLShutdownReturns ==
    \A t \in Threads :
        (setup.ssl /\ pc[t] = "ssl") ~> (pc[t] \notin ShutdownSteps \/ fault)
=============================================================================
