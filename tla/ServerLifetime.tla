--------------------------- MODULE ServerLifetime ---------------------------
(***************************************************************************)
(* The Server object from its constructor to its destructor: setting up    *)
(* and its errors, the loop of Listen() with its timeout, Shutdown(), and  *)
(* the reaper with the arithmetic of the idle limit.  Module Server has    *)
(* the threads in full; here a callback is queued or inside, a Shutdown()  *)
(* of a connection leaves the map and then waits for the callback, and     *)
(* connections_lock_ is what the two of them leave of it.                  *)
(***************************************************************************)
EXTENDS Integers, FiniteSets

CONSTANTS
    Conns,
    MaxTime,        \* bound: seconds that time() counts
    Limits,         \* what SetMaxIdle() is called with
    Second,         \* the code's 1000 milliseconds
    IntMax,         \* the largest int
    Word,           \* 2^64, the range of uint64_t
    Patient         \* the program destroys the server only once it is quiet

ASSUME LifetimeAssumption ==
    /\ MaxTime \in Nat /\ Second \in Nat \ {0} /\ IntMax \in Nat
    /\ Limits \subseteq -1 .. IntMax /\ -1 \in Limits
    /\ Word \in Nat /\ Word > MaxTime + 1 /\ Word > IntMax
    /\ Patient \in BOOLEAN

VARIABLES
    program,        \* where the thread is that owns the server and runs Listen()
    info,           \* info_: none, held, freed
    frees, closes,  \* freeaddrinfo() of the list, close() of serverfd_
    running, maxIdle,       \* running_, max_idle_
    poll,           \* the timeout of the epoll_wait() under way
    reaper,         \* where the reaper is
    limit, tm, todo,\* its max_idle, tm and what its loop has not reached
    now, lastUse,   \* time(), last_use_ of each connection that exists
    conns,          \* connections_
    call,           \* the callback of each connection: none, queued, inside
    closer          \* who is in Shutdown() of a connection, out of the map

setupVars  == <<info, frees, closes>>
reaperVars == <<reaper, limit, tm, todo>>
connVars   == <<lastUse, conns, call, closer>>
vars == <<program, setupVars, running, maxIdle, poll, reaperVars, now, connVars>>

TypeOK ==
    /\ program \in {"new", "ready", "bind", "listen", "epoll_create", "epoll_add",
                    "loop", "polling", "dispatch", "hangup", "returned", "threw",
                    "failed", "destroying", "unmapped", "gone"}
    /\ info \in {"none", "held", "freed"} /\ frees \in 0 .. 2 /\ closes \in 0 .. 2
    /\ running \in BOOLEAN /\ maxIdle \in Limits /\ poll \in -(IntMax + 1) .. IntMax
    /\ reaper \in {"none", "queued", "waiting", "locking", "scanning", "ended"}
    /\ limit \in 0 .. Word - 1 /\ tm \in 0 .. MaxTime /\ todo \subseteq Conns
    /\ now \in 0 .. MaxTime /\ lastUse \in [Conns -> 0 .. MaxTime]
    /\ conns \subseteq Conns
    /\ call \in [Conns -> {"none", "queued", "inside"}]
    /\ closer \in [Conns -> {"nobody", "listener", "reaper", "pool"}]

Init ==
    /\ program = "new" /\ info = "none" /\ frees = 0 /\ closes = 0
    /\ running = TRUE /\ maxIdle = -1 /\ poll = -1
    /\ reaper = "none" /\ limit = 0 /\ tm = 0 /\ todo = {}
    /\ now = 0 /\ lastUse = [c \in Conns |-> 0] /\ conns = {}
    /\ call = [c \in Conns |-> "none"] /\ closer = [c \in Conns |-> "nobody"]

-----------------------------------------------------------------------------
(* Construction and the first part of ListenEpoll().                       *)

Goto(from, to) == program = from /\ program' = to

Construct ==
    /\ Goto("new", "ready")
    /\ info' = "held"
    /\ UNCHANGED <<frees, closes, running, maxIdle, poll, reaperVars, now, connVars>>

\* The address cannot be parsed, or there is no socket and the list is freed
\* again; no destructor runs.
ConstructFails ==
    /\ Goto("new", "failed")
    /\ \/ UNCHANGED <<info, frees>>
       \/ info' = "freed" /\ frees' = frees + 1
    /\ UNCHANGED <<closes, running, maxIdle, poll, reaperVars, now, connVars>>

\* The reaper is the first thing Listen() starts.
AddReaper ==
    /\ Goto("ready", "bind")
    /\ reaper' = "queued"
    /\ UNCHANGED <<setupVars, running, maxIdle, poll, limit, tm, todo, now, connVars>>

\* Slip: info_ is not reset.
BindFailsKeepingInfo ==
    /\ Goto("bind", "threw")
    /\ frees' = frees + 1 /\ closes' = closes + 1
    /\ UNCHANGED <<info, running, maxIdle, poll, reaperVars, now, connVars>>

\* bind() fails: the descriptor is closed, and will be again by the destructor.
BindFails ==
    /\ Goto("bind", "threw")
    /\ info' = "freed" /\ frees' = frees + 1 /\ closes' = closes + 1
    /\ UNCHANGED <<running, maxIdle, poll, reaperVars, now, connVars>>

\* The later steps fail without undoing anything, and so does epoll_wait().
SetupStep ==
    /\ \/ Goto("bind", "listen") \/ Goto("listen", "epoll_create")
       \/ Goto("epoll_create", "epoll_add") \/ Goto("epoll_add", "loop")
       \/ \E p \in {"listen", "epoll_create", "epoll_add", "polling"} : Goto(p, "threw")
    /\ UNCHANGED <<setupVars, running, maxIdle, poll, reaperVars, now, connVars>>

-----------------------------------------------------------------------------
(* The loop of ListenEpoll().                                              *)

\* The value an int holds after a multiplication.
AsInt(n) == ((n + IntMax + 1) % (2 * IntMax + 2)) - (IntMax + 1)

\* The timeout: no limit, and a limit that overflows, block until an event.
PollTimeout == IF maxIdle < 0 THEN -1 ELSE AsInt(maxIdle * Second)

\* Slip: running_ is not looked at again.
LoopForever ==
    /\ Goto("loop", "polling")
    /\ poll' = PollTimeout
    /\ UNCHANGED <<setupVars, running, maxIdle, reaperVars, now, connVars>>

LoopHead ==
    /\ Goto("loop", IF running THEN "polling" ELSE "returned")
    /\ poll' = IF running THEN PollTimeout ELSE poll
    /\ UNCHANGED <<setupVars, running, maxIdle, reaperVars, now, connVars>>

PollTimesOut ==
    /\ poll >= 0 /\ Goto("polling", "loop") /\ poll' = -1
    /\ UNCHANGED <<setupVars, running, maxIdle, reaperVars, now, connVars>>

\* An event, or a signal.
PollReturns ==
    /\ Goto("polling", "dispatch") \/ Goto("polling", "loop")
    /\ poll' = -1
    /\ UNCHANGED <<setupVars, running, maxIdle, reaperVars, now, connVars>>

\* connections_lock_ can be taken for writing.
LockFree == reaper # "scanning" /\ \A c \in Conns : call[c] # "inside"

\* A connection is accepted and put in the map; ConnectionEstablished() holds it.
Accept(c) ==
    /\ Goto("dispatch", "loop") /\ LockFree
    /\ c \notin conns /\ call[c] = "none" /\ closer[c] = "nobody"
    /\ conns' = conns \cup {c} /\ lastUse' = [lastUse EXCEPT ![c] = now]
    /\ call' = [call EXCEPT ![c] = "queued"]
    /\ UNCHANGED <<setupVars, running, maxIdle, poll, reaperVars, now, closer>>

\* DataReady() is queued, and holds the connection.  Bound: one callback of a
\* connection at a time.
DataReady(c) ==
    /\ Goto("dispatch", "loop") /\ LockFree
    /\ c \in conns /\ call[c] = "none"
    /\ call' = [call EXCEPT ![c] = "queued"]
    /\ UNCHANGED <<setupVars, running, maxIdle, poll, reaperVars, now, lastUse, conns,
                   closer>>

\* The event was for a connection that is not there any more.
NothingThere ==
    /\ Goto("dispatch", "loop") /\ LockFree
    /\ UNCHANGED <<setupVars, running, maxIdle, poll, reaperVars, now, connVars>>

\* conn->Shutdown() by w begins: out of the map, under the lock.
Leave(c, w) ==
    /\ c \in conns /\ conns' = conns \ {c}
    /\ closer' = [closer EXCEPT ![c] = w]

\* The peer has hung up: the listener runs conn->Shutdown() itself.
HangUp(c) ==
    /\ Goto("dispatch", "hangup") /\ LockFree
    /\ Leave(c, "listener")
    /\ UNCHANGED <<setupVars, running, maxIdle, poll, reaperVars, now, lastUse, call>>

-----------------------------------------------------------------------------
(* The reaper.  While it scans it is inside connections_lock_.             *)

Alive == program \notin {"new", "failed", "unmapped", "gone"}

\* Slip: the limit stays signed.
ReaperStartsSigned ==
    /\ Alive /\ reaper = "queued"
    /\ reaper' = IF running THEN "waiting" ELSE "ended"
    /\ limit' = maxIdle
    /\ UNCHANGED <<program, setupVars, running, maxIdle, poll, tm, todo, now, connVars>>

\* A pool thread takes it up: the limit is converted once.
ReaperStarts ==
    /\ Alive /\ reaper = "queued"
    /\ reaper' = IF running THEN "waiting" ELSE "ended"
    /\ limit' = maxIdle % Word
    /\ UNCHANGED <<program, setupVars, running, maxIdle, poll, tm, todo, now, connVars>>

\* wait_for() ends ...
ReaperWakes ==
    /\ Alive /\ reaper = "waiting"
    /\ reaper' = IF running THEN "locking" ELSE "ended"
    /\ UNCHANGED <<program, setupVars, running, maxIdle, poll, limit, tm, todo, now,
                   connVars>>

\* ... and unless the server was stopped, the lock is taken and the clock read.
ReaperLocks ==
    /\ Alive /\ reaper = "locking" /\ LockFree
    /\ reaper' = "scanning" /\ tm' = now /\ todo' = conns
    /\ UNCHANGED <<program, setupVars, running, maxIdle, poll, limit, now, connVars>>

\* Slip: the limit is taken for milliseconds.
IdleMilliseconds(c) == maxIdle > 0 /\ (tm - lastUse[c]) % Word > limit * Second

\* Unsigned: a connection used after tm was read would look very old.
Idle(c) == maxIdle > 0 /\ (tm - lastUse[c]) % Word > limit

\* The reaper is not in conn->Shutdown().
Scanning == Alive /\ reaper = "scanning" /\ \A c \in Conns : closer[c] # "reaper"

\* One iteration: an idle connection is erased, and its Shutdown() begins, with
\* the lock held.
ReaperVisits(c) ==
    /\ Scanning /\ c \in todo
    /\ todo' = todo \ {c}
    /\ IF Idle(c) THEN Leave(c, "reaper") ELSE UNCHANGED <<conns, closer>>
    /\ UNCHANGED <<program, setupVars, running, maxIdle, poll, reaper, limit, tm, now,
                   lastUse, call>>

ReaperUnlocks ==
    /\ Scanning /\ todo = {}
    /\ reaper' = IF running THEN "waiting" ELSE "ended"
    /\ tm' = 0
    /\ UNCHANGED <<program, setupVars, running, maxIdle, poll, limit, todo, now,
                   connVars>>

-----------------------------------------------------------------------------
(* What callbacks, the program and the clock do.                           *)

\* LockCallAndUnlock() gets its read lock of connections_lock_.
CallbackBegins(c) ==
    /\ Alive /\ reaper # "scanning" /\ call[c] = "queued"
    /\ call' = [call EXCEPT ![c] = "inside"]
    /\ UNCHANGED <<program, setupVars, running, maxIdle, poll, reaperVars, now, lastUse,
                   conns, closer>>

\* Slip: callbacks run outside connections_lock_.
CallbackUsesUnlocked(c) ==
    /\ Alive /\ call[c] # "none"
    /\ lastUse' = [lastUse EXCEPT ![c] = now]
    /\ UNCHANGED <<program, setupVars, running, maxIdle, poll, reaperVars, now, conns,
                   call, closer>>

\* A callback receives or sends.
CallbackUses(c) ==
    /\ Alive /\ call[c] = "inside"
    /\ lastUse' = [lastUse EXCEPT ![c] = now]
    /\ UNCHANGED <<program, setupVars, running, maxIdle, poll, reaperVars, now, conns,
                   call, closer>>

\* It returns, and its hold and the read lock are given back.
CallbackReturns(c) ==
    /\ Alive /\ call[c] = "inside"
    /\ call' = [call EXCEPT ![c] = "none"]
    /\ UNCHANGED <<program, setupVars, running, maxIdle, poll, reaperVars, now, lastUse,
                   conns, closer>>

\* A pool thread runs a shutdown that a handler has deferred.
ConnectionEnds(c) ==
    /\ Alive /\ LockFree
    /\ Leave(c, "pool")
    /\ UNCHANGED <<program, setupVars, running, maxIdle, poll, reaperVars, now, lastUse,
                   call>>

\* Lock() in Shutdown() waits until no callback holds the connection; then it is
\* closed and deleted.
ShutdownReturns(c) ==
    /\ Alive /\ closer[c] # "nobody" /\ call[c] = "none"
    /\ closer' = [closer EXCEPT ![c] = "nobody"]
    /\ lastUse' = [lastUse EXCEPT ![c] = 0]
    /\ program' = IF closer[c] = "listener" THEN "loop" ELSE program
    /\ UNCHANGED <<setupVars, running, maxIdle, poll, reaperVars, now, conns, call>>

SetMaxIdle(m) ==
    /\ Alive /\ maxIdle' = m
    /\ UNCHANGED <<program, setupVars, running, poll, reaperVars, now, connVars>>

Shutdown ==
    /\ Alive /\ running' = FALSE
    /\ UNCHANGED <<program, setupVars, maxIdle, poll, reaperVars, now, connVars>>

Tick ==
    /\ now < MaxTime /\ now' = now + 1
    /\ UNCHANGED <<program, setupVars, running, maxIdle, poll, reaperVars, connVars>>

-----------------------------------------------------------------------------
(* The destructor.                                                         *)

\* Nothing of the server is in use.
Quiet ==
    /\ conns = {} /\ reaper \in {"none", "ended"}
    /\ \A c \in Conns : call[c] = "none" /\ closer[c] = "nobody"

\* The body of ~Server(): frees the list unless that was done and closes the
\* server socket; it looks neither at the reaper nor at the connections.
Destroy ==
    /\ program \in {"ready", "returned", "threw"} /\ program' = "destroying"
    /\ Patient => Quiet
    /\ info' = "freed" /\ frees' = IF info = "held" THEN frees + 1 ELSE frees
    /\ closes' = closes + 1
    /\ UNCHANGED <<running, maxIdle, poll, reaperVars, now, connVars>>

\* The members go in reverse order: connections_updated_, connections_lock_ and
\* connections_, which does not delete what it points to.  A thread that uses
\* them from here on is not followed.
MembersGo ==
    /\ Goto("destroying", "unmapped")
    /\ UNCHANGED <<setupVars, running, maxIdle, poll, reaperVars, now, connVars>>

\* Then executor_, with the reaper's task: the library may drop it, wait for it
\* or leave it running.
PoolGoes ==
    /\ Goto("unmapped", "gone")
    /\ reaper' \in IF reaper = "none" THEN {"none"} ELSE {reaper, "ended"}
    /\ UNCHANGED <<setupVars, running, maxIdle, poll, limit, tm, todo, now, connVars>>

-----------------------------------------------------------------------------
Dispatch ==
    NothingThere \/ \E c \in Conns : Accept(c) \/ DataReady(c) \/ HangUp(c)

ProgramNext ==
    \/ Construct \/ ConstructFails \/ AddReaper \/ BindFails \/ SetupStep
    \/ LoopHead \/ PollReturns \/ PollTimesOut \/ Dispatch
    \/ Destroy \/ MembersGo \/ PoolGoes

ReaperNext ==
    \/ ReaperStarts \/ ReaperWakes \/ ReaperLocks \/ ReaperUnlocks
    \/ \E c \in Conns : ReaperVisits(c)

ConnectionNext(c) ==
    \/ CallbackBegins(c) \/ CallbackUses(c) \/ CallbackReturns(c)
    \/ ConnectionEnds(c) \/ ShutdownReturns(c)

Next ==
    \/ ProgramNext \/ ReaperNext \/ Shutdown \/ Tick
    \/ \E c \in Conns : ConnectionNext(c)
    \/ \E m \in Limits : SetMaxIdle(m)

Spec == Init /\ [][Next]_vars

(***************************************************************************)
(* Scheduling.  Threads run, a wait with a timeout ends, callbacks return, *)
(* and who waits for connections_lock_ gets it if it keeps coming free.    *)
(* Nothing makes an event come, and nothing makes the pool take a callback *)
(* up: its threads may all be in Shutdown().                               *)
(***************************************************************************)
Fairness ==
    /\ WF_vars(ReaperNext) /\ SF_vars(ReaperLocks)
    /\ WF_vars(LoopHead) /\ WF_vars(PollTimesOut) /\ SF_vars(Dispatch)
    /\ \A c \in Conns : WF_vars(CallbackReturns(c)) /\ WF_vars(ShutdownReturns(c))

FairSpec == Spec /\ Fairness

-----------------------------------------------------------------------------
\* Whatever fails, and in whatever order the server is set up and destroyed, the
\* address list is freed once, and the server socket closed: a second time only
\* after a failed bind().
SetupIsUndone ==
    /\ frees = IF info = "freed" THEN 1 ELSE 0
    /\ program = "failed" => info # "held" /\ closes = 0
    /\ program \in {"destroying", "unmapped", "gone"}
          => info = "freed" /\ closes \in {1, 2}

\* The reaper takes a connection away only if nobody has used it for more than
\* the limit it was started with, up to the very moment: callbacks cannot use it
\* while the reaper decides, so tm is never older than last_use_ and the
\* unsigned difference does not wrap.
ReapedWasIdle ==
    [][\A c \in conns : reaper = "scanning" /\ c \notin conns'
            => now - lastUse[c] > limit]_vars

\* The reaper waits inside connections_lock_ for a callback that waits for that
\* lock.
ReaperStuck == \E c \in Conns : closer[c] = "reaper" /\ call[c] = "queued"

\* A connection does not stay in the map beyond the reaper's limit for ever,
\* unless the reaper gets stuck with another one.
IdleGoes ==
    \A c \in Conns :
        LET overdue == /\ c \in conns /\ now - lastUse[c] > limit
                       /\ maxIdle > 0 /\ Alive /\ running
                       /\ reaper \in {"waiting", "locking", "scanning"}
        IN  overdue ~> (~overdue \/ ReaperStuck)

\* A listener that waits for a callback of the connection whose peer hung up.
ListenerWaits == \E c \in Conns : closer[c] = "listener" /\ call[c] # "none"

\* server.h:176: after Shutdown() the reaper ends, and Listen() returns once its
\* current round is over, if that has a timeout or an event has come; unless the
\* reaper is stuck inside connections_lock_, or the listener waits for ever for a
\* callback that the pool does not get to.
ShutdownStops ==
    /\ (~running /\ Alive /\ reaper # "none")
          ~> (reaper = "ended" \/ ~Alive \/ ReaperStuck)
    /\ (~running /\ (\/ program \in {"loop", "dispatch", "hangup"}
                     \/ program = "polling" /\ poll >= 0))
          ~> (program \in {"returned", "threw"} \/ ReaperStuck \/ []ListenerWaits)

\* server.h:139: the destructor "will wait until all outstanding connections are
\* terminated": once the map is gone, of a server that was told to stop, there
\* are none.
DestructorWaits ==
    ~running /\ program \in {"unmapped", "gone"} => conns = {}
=============================================================================
