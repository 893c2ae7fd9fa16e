# Verification of libsiot

libsiot is a C++ library for TCP servers: a `Server` accepts connections with
`epoll`, hands them to user callbacks on a thread pool, and reaps the ones that
are shut down or idle.  This directory holds TLA+ modules that model it, TLC
configurations that check them on small instances, and TLAPS proofs that hold
for every instance.

Paths and line numbers below are those of the repository (`server.cc:362` is
line 362 of `src/server.cc`).

## 1. The system

| component | state | operations | talks to |
|---|---|---|---|
| `Server` event loop (`ListenEpoll`, server.cc:208-418) | `connections_` (descriptor -> connection), `connections_lock_`, `running_`, the local array `events`, the epoll set | accept, register, dispatch of HUP / ERR / IN, start of the reaper | kernel, pool (`executor_.Add`), connections (`ReadLock`, `Shutdown`) |
| reaper (`ReapConnectionsEpoll`, 420-470) | none of its own; keeps one pool thread for good | every 500 ms or on `connections_updated_`: erase connections that are shut down or idle, shut the idle ones down | map and lock, connections, user callback `ConnectionTerminated` |
| callback closures (`LockCallAndUnlock`, 473-479) | the queue of `executor_` | read-lock the pool, run the callback, unlock the connection | user callbacks, locks |
| `DeferShutdown`, `DequeueConnection`, `Shutdown` (180-184, 503-535) | as above | queue a shutdown; remove from map and epoll; stop the loop | pool, map, epoll |
| `Connection` base (543-611) | `mtx_`, `is_shutdown_` | locks, `Deregister`, `DeferredShutdown` | server |
| `UNIXSocketConnection` | `socket_`, `eof_`, `last_use_` | `Receive`, `Send`, `Shutdown` (= deregister, lock, close, `delete this`) | kernel, base class |
| `OpenSSLConnection` | SSL handle, `ssl_mtx_`, `blocking_` | the same over SSL; constructor does the handshake in the accepting thread | OpenSSL, base class |
| `AcknowledgementDecorator`, `LineBufferDecorator`, `RangeReaderDecorator` | a buffer / lines / an offset | wrap another connection's `Receive`; `Shutdown` deregisters the decorator and then shuts the wrapped connection down | wrapped connection, server |
| `ServerSSLContext` | paths | setters and getters | `OpenSSLConnection` constructor |
| setup (`Server::Server`, start of `ListenEpoll`, setters, destructor) | `info_`, `serverfd_`, `maxconn_`, `max_idle_` | bind, listen, `epoll_create`; errors throw | kernel, pool |

What is hard here:

* Three kinds of threads (listener, reaper, `num_threads_` pool threads) share
  the map and the connection objects under two levels of locks, taken in
  different orders, and some accesses take no lock at all: the listener's
  `connections_[fd]` (362), the search loop of `DequeueConnection` (515),
  `is_shutdown_`.
* Connections are deleted by `delete this` on whatever thread happens to run
  `Shutdown()`, while others hold raw pointers: the map, queued closures, the
  listener's local variable.
* The hold a callback needs is taken by one thread (the listener) and given
  back by another.
* Client descriptors are edge triggered, so an event that is dropped is not
  reported again, and descriptors are reused as soon as they are closed.
* With decorators one client is two or three objects, each with a lock and a
  flag of its own, and the map knows only the outermost; a TLS connection adds
  a third kind of lock.
* Packets cut the byte stream anywhere, and `Receive()` returns the same `""`
  for "nothing yet", "nothing any more" and "end of the range".

What makes the components correct:

* *connections*: opened once; held by exactly the callbacks that are queued or
  running; shut down for good; deleted once, by one thread, with nobody inside;
* *map*: an entry of a live connection is filed under its own open descriptor;
  nobody waits for `connections_lock_` while inside it, and it keeps coming free;
* *events*: a packet leads to `DataReady()`, a hang-up to the end of the
  connection;
* *deferred and idle shutdowns* end;
* *decorators*: what is received is the byte stream (its lines, its
  unacknowledged suffix, its prefix of a given length), each byte once, in order;
* *SSL connection*: two locks in one order; the descriptor is closed;
* *setup*: an error leaves the address list freed and the server socket closed
  (not `epollfd_`, server.cc:230, which nothing ever closes); `Shutdown()` ends
  `Listen()` and the reaper.

`PROJECT.json` lists the hazards at their lines, with the properties that watch
them and, where nothing does, the reason.

## 2. Modules

| module | what it is |
|---|---|
| `ReadWriteMutex` | lock values for `threadpp::ReadWriteMutex` (a library outside the repository, modelled from its use) |
| `ConnectionLifecycle` | abstract specification of a connection's life, from connection.h and server.h |
| `Server` | the event loop: listener, reaper, pool threads, locks and lives of plain connections, kernel and peers |
| `ServerProperties` | invariants, the inductive invariant, the refinement mapping, liveness |
| `MCServer` | values of the constants for TLC |
| `ServerProofs` | theorems about `Server`, checked by TLAPS: types, holds, life cycle |
| `ServerMapProofs` (EXTENDS `ServerProofs`), `ServerDataProofs` (EXTENDS that) | theorems about the map, its lock and the events; about the packets |
| `LayeredConnection`, `MCLayeredConnection` | one client behind TLS and/or a decorator: the locks and flags of every layer, in a coarser server; refines `ConnectionLifecycle` layer by layer |
| `LayeredProofs` | theorems about `LayeredConnection` |
| `ByteStream` | abstract specification of what a reader relies on: the peer's bytes, in order, each once |
| `SocketStream` | the data path of `UNIXSocketConnection` |
| `RangeReaderDecorator` (EXTENDS `SocketStream`), `AcknowledgementDecorator`, `LineBufferDecorator` | the state and the functions of one decorator each |
| `DecoratorStack` | their composition: a stack of decorators read by callbacks, taken down by `Shutdown()` |
| `DecoratorProperties`, `MCDecoratorStack` | its properties and its refinement of `ByteStream`; values for TLC |
| `ServerLifetime`, `MCServerLifetime` | the `Server` object from constructor to destructor: set-up errors, the loop and its timeout, the reaper's clock arithmetic |
| `ServerLifetimeProofs` | theorems about `ServerLifetime` |
| `DecoratorProofs` | theorems about the range reader in `DecoratorStack` |
| `TextProofs` | theorems about the operators that cut text into lines, for any text |
| `DecoratorStreamProofs` (EXTENDS the two before) | theorems about `DecoratorStack`: types, end of file, no byte lost, the refinement of `ByteStream` |

`ServerProperties` EXTENDS `Server`; `MCServer` and `ServerProofs` both EXTEND
`ServerProperties`, so the runs and the proofs are about the same definitions.

### How `Server` corresponds to the code

State.  `connections`, `poolLock`, `running`, `readAfterClose` are the members
of `Server`; `isShutdown`, `socket`, `connLock` those of a connection; `obj`
says whether the object exists; `sock`, `watched`, `ready` are the kernel's side
(what is behind a descriptor, the epoll set, its ready list); `task`, `queue`,
`job` the thread pool; `pc`, `cur`, `entry`, `events`, `todo` the locals of
the threads.

Actions.  One action is the code between two points where another thread can
see a difference.

| code | actions |
|---|---|
| `epoll_wait` and the two loops, 249-270, 414-417 | `EpollWait`, `ListenerReturns`, `RoundEnds` |
| accept branch, 272-359 | `AcceptFails`, `Accept`, `Register`, `EpollAdd`, `EpollAddFails`, `HoldNew` |
| dispatch, 360-363 | `LookupNothing` (inserts a null entry), `LookupConnection` |
| HUP, ERR, IN branches, 364-412 | `Hup` and then the shutdown steps; `ErrorEvent`; `RecheckGone`, `RecheckFound`, `HoldData` |
| `UNIXSocketConnection::Shutdown`, with `Deregister` and `DequeueConnection` | `SetShutdown`, `SearchFinds`, `SearchMisses`, `Dequeue`, `Exclude`, `Close` |
| reaper | `ReaperWakes`, `ReaperLocks`, `Keep`, `Reap`, `JudgeShutdown`, `JudgeIdle`, the shutdown steps, `ReaperNotified`, `ReaperUnlocks` |
| pool thread | `TakeTask`, `Acquire`, `Receive`, `DeferShutdown`, `StopServer`, `CallbackReturns`, `TerminatedReturns` |

`Shutdown()` runs on any of the three kinds of threads, so its steps take the
thread as a parameter; `pc` says where the thread goes on afterwards.

Decisions:

* *Locks.*  A critical section of `connections_lock_` in which no other lock is
  taken (`Register`, `Dequeue`, `RecheckGone`) is one action that needs the lock
  free.  Two of them call the user's `ConnectionCallback`: `AddDecorators()` (326)
  in `Register` and, when `epoll_ctl()` fails, `ConnectionFailed()` (527) in
  `Dequeue`.  These are assumed to return and to want no lock of the server, the
  same as `ConnectionFailed()` and `ConnectionTerminated()` in the reaper's pass
  (456, 465).  The reaper's pass, the `IN` branch and the callbacks, which wait
  for a connection's lock or call back into the server inside, take and release
  the lock in separate actions.
* *Undefined behaviour.*  A first use of a deleted connection or of a null
  pointer sets `fault` and the behaviour ends: nothing is said of what comes
  after.  An unlocked access to the map racing with a change of it, and the
  advance of a range-for from the element it has erased, can crash (`MapRace`,
  `EraseCrash`), lose the search's way (`SearchMisses`) or lead anywhere in the
  map (`ReaperAdvances`).  The constant `UndefinedBehaviour` says which of these
  a run allows besides the harmless outcome; the proofs cover all of them, except
  that one theorem leaves out the search that loses its way (section 4).
* *Idle time* is left open: while an idle limit is set, any connection may be
  found idle.  The clock arithmetic is a component of its own.
* *Callbacks.*  `DataReady()` reads all there is.  Besides, a callback may call
  `conn->DeferredShutdown()` or `GetServer()->Shutdown()`, at most once per run
  of the callback; `HandlerCalls` says which.  A callback may not call
  `conn->Shutdown()`: server.h:157-160 warns against it.
* *epoll.*  Clients are edge triggered, the server socket level triggered; a
  descriptor with nothing left to report is not reported; masks are computed
  when `epoll_wait()` returns; `close()` leaves the epoll set.
* *`accept()` with no descriptor left* fails (EMFILE).
* *Data.*  A packet is a flag on the socket; names, addresses and messages are
  left out.

### How the other modules correspond to the code

*`LayeredConnection`.*  `obj`, `flag`, `lock` are the life, `is_shutdown_` and
`mtx_` of the two objects: `inner`, the socket's (plain or TLS), and `outer`,
the decorator that owns it.  `setup` says which kind of connection it is.
`Shutdown()` of either is the steps `TakeSSL` (TLS only), `Deregister`,
`Dequeue`, `LockOuter`/`LockInner`, `Close`, `Finish`; a decorator's runs the
inner one's between its `Lock()` and its `delete this`.  `Established` holds the
inner object (server.cc:349-358 use the undecorated pointer), `DataReady` the
one in the map.  `BeginIO`/`EndIO` are a `Receive()` or `Send()`, which for TLS
holds `ssl_mtx_`.  The accept branch, the `IN` branch and `LockCallAndUnlock` are
one or two steps each here, because `Server` has them in full.  Callbacks touch
the connection only inside `LockCallAndUnlock`; a decorator that does not own
its connection is in `DecoratorStack` only.

*`DecoratorStack`.*  The stack is an acknowledgement or a line buffer on a
socket, either on a range reader on a socket, or a range reader alone.
`Receive()` is three steps: a `Receive...` action in which the decorators decide
what to ask for, `SocketAnswers` (`recv()` and the range reader's counting), and
`RangeReturns`/`AckReturns`/`LineReturns`.  Bytes are `a`, CR and LF.
`delivered` is what the user was handed for good: for the acknowledgement buffer
what was acknowledged, or returned with `autoack_`.  `Shutdown()` is
`ShutdownBegins` (`Deregister()`), `ShutdownLocks`, `ShutdownDrains` (the loop of
the range reader) and `ShutdownEnds`.

*`ServerLifetime`.*  `program` is where the thread is that owns the server and
calls `Listen()`; `reaper` where the reaper is.  `Idle` is server.cc:445-447
with the subtraction modulo `Word` and the limit converted once; `PollTimeout`
the product with the wrap-around of an `int`.  `CallbackUses` is every
`Receive()` and `Send()` of a callback, which run inside a read lock of
`connections_lock_` and so never while the reaper scans.

Everything that can keep a thread from going on is there, because the liveness of
the reaper and of `Listen()` depends on it: `LockFree` says when
`connections_lock_` can be taken for writing (the reaper does not scan, no
callback is inside); `call` is the callback that holds a connection, queued or
inside; and `conn->Shutdown()`, by the listener, the reaper or a pool thread
(`closer`), takes the connection out of the map (`Leave`) and ends with
`ShutdownReturns` only when no callback holds the connection any more, which may
be never.  The reaper is inside the lock all that time.  Coarser than in `Server`:
flag and dequeue are one step, a connection has one callback at a time and one
`Shutdown()`, and what is done without the lock is `Server`'s.

The destructor is three steps, as the language has it: `Destroy` is the body
(167-178), `MembersGo` the destruction of the condition variable, the lock and
the map (server.h:195-197), and `PoolGoes` that of `executor_` (server.h:184),
which is declared before them and so goes after them.  What the library does with
the reaper's task then (drop it, wait for it, leave it running) is left open.

## 3. What is checked

The properties of the server are in `ServerProperties`, those of the decorators in
`DecoratorProperties`, the others at the end of their module, each with the code
it is about.

| run | instance | shows |
|---|---|---|
| `server_churn` | 2 clients in turn on 1 descriptor, 2 pool threads, 2 tasks, idle reaping, all handler calls, all failures, all undefined outcomes | `TypeOK`, `HoldsMatchHandlers`, `NoSelfDeadlock`, `CloseIsExclusive`, `EntriesMatchSockets`, the inductive invariant `IInv` and the refinement of `ConnectionLifecycle` |
| `server_peers` | 2 clients with a descriptor each, 2 packets each, 1 pool thread, 2 tasks, deferred shutdowns, idle reaping, undefined outcomes other than a search that loses its way | `NoDataForgotten`, `RecheckedIsLive`, `EntriesMatchSockets` |
| `server_liveness` | 1 client, 2 pool threads, deferred shutdowns, fair | `HangUpEndsConnection`, `RegistryLockComesFree`, `BegunCallbacksEnd` |
| `layered` | 6 kinds of connection (plain or TLS, decorated or not, with an idle limit, with shutdowns of the undecorated object), 2 pool threads, fair | `LayersFollowLifecycle`, `DecoratorNotDangling`, `ShutdownDisconnects` |
| `decorators` | every stack, owned or not, ranges of 0 and 2 bytes or none, up to 3 bytes from the peer, 1 reader, fair | `ImplementsByteStream`, `NothingLost`, `RangeIsExact`, `EOFIsFinal`, `SentArrives`, `ShutdownCompletes` |
| `server_lifetime` | 2 connections, 2 seconds, limits -1, 1, 2, fair | `SetupIsUndone`, `ReapedWasIdle`, `IdleGoes`, `ShutdownStops` |
| `find_...` (6 runs) | the smallest instance that shows it | one disagreement of the code with its documentation each, see section 5 |

`TypeOK` is an invariant of `server_churn`, `layered`, `decorators` and
`server_lifetime`.

### Bounds

* One or two connections, at most one accept each.  Two are what reuse of a
  descriptor, one client's event wiping another's, and the listener being kept
  from one client by another need.
* One descriptor forces reuse; two let clients live side by side.
* One or two pool threads; `num_threads_` is also the length of `events`, so
  with one worker a round has one event, and with two the rest of a round can
  get lost.
* `Tasks` bounds the closures outstanding at a time; `Add` waits when there is
  none free, which the pool does not.  For the invariants that only cuts
  behaviours off.  For liveness it could add a deadlock (the listener waiting in
  `Add` with the lock held), so `server_liveness` has as many tasks as its
  client can have outstanding, five: established, one packet, terminated, two
  deferred shutdowns; and so has `layered`, with four: the undecorated
  established, one packet, terminated, one deferred shutdown.
* `MaxSends` bounds the packets of a peer.  Two is the case of a packet that
  arrives while `DataReady()` for the previous one is queued or reading.
  `server_peers` has two tasks, a callback and the shutdown it has deferred, so
  that a shutdown runs while the listener is between its two look-ups.
* Fair runs use no symmetry; `server_churn`, `server_peers` and some `find_`
  runs permute clients, descriptors and pool threads, which the specification
  treats alike.
* `layered`: `MaxPackets` and `MaxDefers` are 1: one callback for each of the two
  objects, a shutdown that a callback deferred and one by hang-up or reaper are
  what the layers can get between.
* `decorators`: `ReadLimit` (the code's 65536) is 2 and the range is 2, so that a
  call, the limit and the range each cut the three bytes somewhere else; three
  bytes are enough for a line with CR LF, one cut inside it, an empty line after
  a full one, and a byte beyond the range.  `MaxBuffer` 2 is exceeded by the
  third.  `Sizes` are the arguments of `Receive()` and `Acknowledge()`, more than
  is buffered included.  `OneReader`: the code has no lock around the buffers,
  and with two readers `NothingLost` is false (section 5).
* `ByteBefore` is the byte in front of a `std::string`, which
  linebufferdecorator.cc:68 reads when a line is empty.  libstdc++ has a zero
  there, the high byte of a size.
* `server_lifetime`: `Second` 4, `IntMax` 7 and `Word` 16 stand for 1000, 2^31-1
  and 2^64 in the same order of size: a limit of 1 fits an `int` of milliseconds,
  one of 2 overflows it.  Two seconds are more than the limit of 1, and a limit of
  2 is not exceeded: its case is the overflow.  The limit 0 is left to the proofs;
  `Idle` treats it as -1, and a timeout of 0 is one of the timeouts that end.
  Two connections: one that the reaper is stuck with and one that is overdue
  behind it.

Every configuration has `CHECK_DEADLOCK FALSE`: a server that was stopped or
destroyed, or whose clients have all gone, a stack that was shut down and a
behaviour that ends in undefined behaviour do stop.

### Fairness

`Fairness` is strong fairness of every thread's next step.  Strong, because a
thread that waits for a lock is enabled only while the lock is free: the
reaper sleeps at least 500 ms between two passes, callbacks and the listener
hold the lock for a moment only, and a `pthread` read-write lock does not pass
over a waiter for ever.  It does not favour a branch of a thread: a search that
may miss or a `Tasks`-bound that may fill is left as it is.  Nothing is assumed
of the peers and of failures.  Liveness promises nothing after undefined
behaviour (`Faulted`).

`LayeredConnection` takes the same assumption.  `DecoratorStack` has weak
fairness of every step of a `Receive()` that has begun, of another call when it
returned (a callback calls `Receive()` until it returns nothing, and is called
again for the next packet), and of the steps of `Shutdown()`; strong fairness of
its `Lock()`, because a deregistered connection gets no new callbacks and those
that are queued are finitely many.  `ServerLifetime` has weak
fairness of the reaper's steps, of the loop's head, of a wait that has a timeout,
of a callback that is inside and of the end of a `Shutdown()` whose connection
nobody holds; and strong fairness of the two that wait for `connections_lock_`,
the reaper's pass and the listener's dispatch, for the reason given above.  There
is none for an event, and none for `CallbackBegins`: a queued callback needs a
pool thread, and these may all be in a `Shutdown()`.

So the reaper's `conn->Shutdown()`, which waits inside `connections_lock_`, need
not return: when a callback for that connection is queued the two wait for each
other, which is `find_idle_reaper_stuck`.  In that state no other overdue
connection is taken either, and when the listener comes to want the lock `Listen()`
does not return after `Shutdown()`.  `IdleGoes` and `ShutdownStops` therefore
excuse exactly this state (`ReaperStuck`), and `ShutdownStops` besides a listener
that waits for ever for a callback of the connection it shuts down
(`ListenerWaits`).  What they say is that nothing else stops the reaper or the
loop.

## 4. What is proved

Every invariant, action property and refinement that a passing run checks is also
a theorem, for every value of the constants; what is left to TLC alone is
liveness.  Some of the theorems have a hypothesis about the constants besides
the `ASSUME`s of the modules; each is stated below with the reason why the code
needs it.  Without it the property is false, which TLC shows when a
configuration gives the constants other values, so none of them is there for the
prover's convenience.

### The server

`ServerProofs`, for any number of clients, descriptors, pool threads and tasks,
any set of handler calls, failures and undefined outcomes (`ServerAssumption`:
the constants are distinct, descriptors and pool threads are finitely many):

| theorem | says |
|---|---|
| `InductiveInvariant` | `Spec => []IInv` |
| `TypeCorrect` | `Spec => []TypeOK` |
| `CallbacksHoldTheirConnection` | `Spec => []HoldsMatchHandlers` |
| `ClosingIsExclusive` | `Spec => []CloseIsExclusive` |
| `ServerImplementsLifecycle` | `Spec => ImplementsLifecycle` |

*Argument.*  `HoldsMatchHandlers` is not inductive by itself.  That a callback
finds the hold it is to release needs `JobsOK` (the worker's task is the one it
took, its local pointer is that task's connection) and `QueueOK` (a task is
queued once or run by one worker, never both); that a connection is not deleted
while held needs `ShutdownOK` (from `Lock()` to `delete` the lock is the
thread's own); that these talk of objects that exist needs `PointersOK`.  With
`TypeOK` their conjunction is `IInv`.

The proof has a frame lemma per group of variables (`HeapFrame`,
`RegistryFrame`, `KernelFrame`, `PoolFrame`) that lists the actions which may
change the group; each conjunct is then proved for the actions in its list.
`CloseIsExclusive` follows from `IInv` alone: two threads past `Lock()` on one
connection would both be its only writer.  For the refinement, `StepLifecycle`
maps `Accept` to `Open`, `HoldNew`/`ErrorEvent`/`HoldData` to `Hold`,
`CallbackReturns` to `Release`, the first `SetShutdown` to `ShutDown`, `Close`
to `Destroy`, and everything else to a stutter.

`ServerMapProofs` and `ServerDataProofs`, on top of `IInv`:

| theorem | hypothesis | says |
|---|---|---|
| `EventsReachTheirConnection` | | `Spec => []EntriesMatchSockets` |
| `NobodyLocksTwice` | | `Spec => []NoSelfDeadlock` |
| `RecheckFindsTheLiving` | `"missedEntry" \notin UndefinedBehaviour` | `Spec => []RecheckedIsLive` |
| `OneThreadForgetsNothing` | `OneThread` | `Spec => []NoDataForgotten` |

*Argument.*  `MapInv` has four parts.  `SocketsOK`: a live connection's
descriptor is open and its own.  `EntriesOK`: whatever is filed under a
descriptor, live or deleted, was created with it; so a reused descriptor cannot
lead to another live connection.  `PoolLockOK`: the lock of the map is held by
exactly the threads whose `pc` is inside it.  `ReaperOK`: what the reaper is
shutting down is in no entry any more.  The last is what keeps it from locking
twice: `DequeueConnection()` takes the lock only when it has found an entry, and
the reaper, inside the lock, has erased it, which no erroneous search can undo.

`RecheckFindsTheLiving` is about the race at server.cc:362, with deferred
shutdowns, the idle limit and failures of every kind: between the look-up without
the lock and the locked `find()` other threads may erase the entry, close the
descriptor and delete the connection; what `find()` then finds is nevertheless the
connection that was looked up, and it exists.  The invariant is `FiledInv`
(theorem `FiledInvariant`).  `RecheckOK`: from the first look-up on, the entry is
the connection's or absent.  No other connection takes the place, since only the
listener files connections, and it is busy here.  `UnfiledOK`: a connection that
is past `DequeueConnection()`, or deleted, is in no entry; so a present entry is
that of a connection nobody has deleted.  That it stays so when the listener files
a new one needs `Fresh`: until then no thread, task or entry knows of it, so nobody
can have shut it down.

The hypothesis excludes one outcome of the data race at server.cc:515, a search
through the map that loses its way and misses the entry that is there; the
connection is then closed and deleted while its entry stays, and the listener
finds it (TLC shows it when `server_peers` allows `missedEntry`).  The null entry
that the look-up leaves and the count of `read_after_close` do happen, without any
undefined behaviour (section 5).

`OneThread` says that `num_threads_` is 1, so that `epoll_wait()` gets room for
one event and the `memset(events)` after an accept has no other event to wipe,
and that sockets do not fail: a socket error takes the `ERR` branch, which does
not read.  `OneEventOK` is the invariant that there is one event, that what it
says of its socket is still so, and that it is dispatched before anything else.
With two threads packets are forgotten (`find_forgotten_data`).

### Layered connections

`LayeredProofs`, for any kinds of connection, pool threads, tasks, packets and
deferred shutdowns:

| theorem | says |
|---|---|
| `LayersInvariant` | `Spec => []LayersInv` |
| `LayeredTypeCorrect` | `Spec => []TypeOK` |
| `NoDanglingDecorator` | `Spec => []DecoratorNotDangling` |
| `LayersImplementLifecycle` | `Spec => LayersFollowLifecycle` |

*Argument.*  `LayersInv`: each layer is read-locked by exactly the callbacks that
were given that layer and only while it lives (`HoldsOK`, `JobsOK`), and a
`Shutdown()` that has gone on from the decorator to the wrapped connection holds
the decorator's lock, with its flag up (`ShutdownOK`).  The refinement of
`ConnectionLifecycle` follows for both objects at once.  `DecoratorNotDangling`
needs `TeardownOK` besides: where the undecorated object is left alone only the
object in the map is shut down (`OnlyTop`), the map is empty once somebody is
past `DequeueConnection()`, and a decorator without its connection has a thread
about to delete it.

### The set-up, the loop and the clock

`ServerLifetimeProofs`, for any connections, limits, clock and integer sizes that
satisfy `LifetimeAssumption` (the clock and an `int` are below `Word`, which is
what keeps an unsigned difference of two times from being ambiguous):

| theorem | says |
|---|---|
| `LifetimeTypeCorrect` | `Spec => []TypeOK`: the timeout fits an `int`, the reaper's limit its 64 bits, whatever limit is set |
| `SetupIsAlwaysUndone` | `Spec => []SetupIsUndone` |
| `ReaperSparesTheBusy` | `Spec => ReapedWasIdle` |

The invariant is `LifetimeInv`: `TypeOK`, `SetupIsUndone`, `SetupOK` (which step
of the set-up has allocated what), `HangUpOK` (while a `Shutdown()` of the
listener is under way the listener is in it, so its end does not move `program`
from somewhere else) and `ClockOK` (no time from the future; while the reaper
scans, also while it waits in a `Shutdown()`, no callback is inside the lock and no
connection in the map has been used since it read the clock).  With `ClockOK` the difference is never negative, so it does not wrap
(`ModSmall`), and `tm` is not after `now`.

### The decorators

`DecoratorProofs`, `TextProofs` and `DecoratorStreamProofs`, for any bytes,
limits, ranges, sizes of calls, packet boundaries and stacks:

| theorem | hypothesis | says |
|---|---|---|
| `StackTypeCorrect` | | `Spec => []TypeOK` |
| `EndOfFileIsFinal` | | `Spec => EOFIsFinal` |
| `RangesAreExact` | `OneAtATime` | `Spec => []RangeIsExact` |
| `NothingIsLost` | `OneAtATime`, `ByteBefore # CR` | `Spec => []NothingLost` |
| `StackImplementsByteStream` | `OneAtATime`, `ByteBefore # CR` | `Spec => ImplementsByteStream` |
| `LinesText` | `ByteBefore # CR` | the lines cut off a text are its `Text` |

`OneAtATime` says that at most one callback is inside the stack: the code has no
lock around the buffers and counters, and with two readers these properties fail.
`ByteBefore # CR` is about the byte in front of a string that
linebufferdecorator.cc:68 reads; were it a carriage return, an empty line would
become the rest of the text.  That the newline and the carriage return differ is
`LineAssumption`.

*Argument.*  `RangeInv`, for the range: `SizesOK` (types and lengths), `CountOK`
(until `eof_` is raised, `offset` is what was taken from the socket; a call under
way has asked for no more than is left; nobody is inside once the drain has
begun) and the property itself.  `TypeInv`, for types and the end of file: lines
wait only where there are newlines, and what is left of a text that was cut has
none; so a text that a reader finds after the end yields no line.

`NothingLost` is weaker than what holds: it is silent as soon as `Shutdown()` has
the lock, and it compares texts, not bytes.  `HeldInv` says where each byte is:
what was taken (before the drain began) is, for a range reader, `delivered`
followed by the answer; for an acknowledgement buffer `delivered`, the buffer
and the answer; for a line buffer some `p` that is empty or ends in a newline,
followed by the remainder and the answer, where what was delivered together
with the waiting lines is `Text(p)`.  Cutting moves bytes from the remainder to
`p` (`CutAccounts`), handing out moves a line from the queue to `delivered`
(`FirstLine`).  `StreamInv` is `TypeInv`, `RangeInv` and `HeldInv`.

For the refinement, `DeliveredIsPromised` shows that `StreamInv` makes `delivered`
a prefix of `Promised`; then a byte from the peer is `Send` (`PromisedGrows`),
and every other step leaves `Promised` alone and is `Deliver` or a stutter
(`DeliveredGrows`).

`Text`, what a reader should see, is defined without cutting, from a set of
positions; `LinesOf` is the loop of the code.  `TextProofs` relates the two: `Text`
of a text that ends in a newline followed by another is the two texts one after
the other (`TextConcat`), and `LinesText`.  Both use `Ascending`, the members of a
set of numbers in order, which is what looking for one newline after the other
computes; `AscendingWorks` shows that it exists and is unique.  `FlattenSeq` is
defined by a recursive function in its library, and induction is needed to see
what it returns; since the library's induction theorems take an operator as a
parameter, `EveryNumber` states induction for a *set* of numbers, from the least
element of its complement, and the lemmas use that.

### Only model-checked

* `HangUpEndsConnection`, `RegistryLockComesFree`, `BegunCallbacksEnd`,
  `ShutdownDisconnects`, `SentArrives`, `ShutdownCompletes`, `IdleGoes`,
  `ShutdownStops`: liveness under fairness, which is beyond the prover.
  `HangUpEndsConnection` excuses the behaviours in which deferred shutdowns hold
  every pool thread for ever (`PoolExhausted`).  In `server_liveness`, with two
  threads and one packet, that does not happen yet; with one thread it does
  (`Workers <- OneWorker`), and the property holds there with the excuse.
* the violations of the `find_` runs, which are behaviours and not theorems.

Note what the theorems do not say: a closure that took no hold
(`ConnectionTerminated`, a deferred `Shutdown`) and the local pointers of the
listener and of a second `Shutdown()` do meet deleted connections.  That is
what the findings are about; there the behaviour ends with `fault`.

## 5. Where the code and its documentation disagree

| run | the documentation says | the run shows |
|---|---|---|
| `find_terminated_too_late` | server.h:118, the connection "is about to be removed" | `ConnectionTerminated()` runs with a deleted connection |
| `find_forgotten_data` | server.h:114, `DataReady` "indicates that data is available" | `memset(events)` after an accept wipes the event, which is not reported again |
| `find_idle_reaper_stuck` | server.h:167, an idle connection "is automatically terminated" | reaper and callback wait for each other's lock |
| `find_ssl_shutdown_stuck` | connection.h:78, `Shutdown()` "disconnects the socket and removes it from the notification queues" | a callback in `Receive()` and a `Shutdown()` wait for each other's lock, `connections_lock_` and `ssl_mtx_` |
| `find_drain_never_ends` | rangereaderdecorator.h:81, "advances until the end of max_size, then destroys" | the peer has closed before the end of the range; the loop spins on an empty `Receive()` |
| `find_read_after_close` | server.cc:109, the counter "should always be 0" | a deferred shutdown between the unlocked look-up and the locked `find()` makes it 1 |

Five more statements of the documentation are written down as properties and are
not true either; they have no run of their own, and the last column says how to
see it.

| property | the documentation says | what happens | with |
|---|---|---|---|
| `NoNullEntry` | server.h:163, "Removes the given connection from the pool" | a deferred shutdown erases an entry whose packet `epoll_wait()` has just reported; the listener's `connections_[fd]` puts the key back with a null pointer, which the reaper then uses (server.cc:445) | `find_read_after_close.cfg` |
| `OnlyOneOperates` | unixsocketconnection.cc:158, "we're the only ones" | a second shutdown, a queued closure or the listener still points to the connection | `server_churn.cfg` |
| `DeferredShutdownCompletes` | server.h:157, shut down "when the next thread becomes free" | the threads that take them wait for callbacks queued behind them | `server_liveness.cfg`, `Workers <- OneWorker` |
| `BufferWithinLimit` | acknowledgementdecorator.h:61, "up to max_buffer_size bytes of unacknowledged data" | `Receive()` appends first and throws afterwards; the data stays, and every further call adds to it | `decorators.cfg` |
| `DestructorWaits` | server.h:139, "will wait until all outstanding connections are terminated" | a connection is accepted, `Shutdown()` makes `Listen()` return, and `~Server()` destroys the map with the connection in it, whose callback is still queued; the pool goes after the map | `server_lifetime.cfg`, `Patient = FALSE` |

Two properties are weaker than one might wish because the code does less:
`NothingLost` and `ImplementsByteStream` need one reader at a time, although the
server queues a `DataReady()` per event and two pool threads may run two of them
for one connection (`Readers <- TwoReaders` in `decorators.cfg` shows it); and
`SentArrives` says nothing of an incomplete last line, which
`LineBufferDecorator::IsEOF()` does not count.

## 6. What is not modelled, and what is left

Not modelled:

* what `SSL_read()` and `SSL_write()` do with records, so the data path of
  `OpenSSLConnection` (its non-blocking `Receive()` returns nothing unless
  OpenSSL has bytes pending); the plain socket's is in `SocketStream`;
* what happens after the TLS constructor has thrown (`ConstructThrows`): the
  pointer that goes into the map is uninitialised;
* exceptions that leave a callback: the passing runs are about callbacks that
  catch what `Receive()` and `Send()` throw.  The slip `EndIOThrowing` of
  `LayeredConnection` is the other case, and it breaks `ShutdownDisconnects`;
* two readers inside one decorator's strings at the same moment, which is a data
  race on a `std::string` and not only a wrong order;
* events without `LockCallAndUnlock`: `ConnectionTerminated()` may not touch the
  connection in `LayeredConnection` (`Server` has that disagreement);
* `epollfd_`, which neither the set-up errors nor the destructor close, and a
  descriptor that is given out again between the two `close()` of the server
  socket after a failed `bind()`;
* the moment between `close(socket_)` and `delete this`
  (unixsocketconnection.cc:161-162), which is one step of `Server`: the thread has
  the connection's lock for good there, and nothing reads `socket_`;
* that a TLS connection's descriptor is never closed, as a property:
  `ShutdownDisconnects` leaves TLS connections out;
* the reaper's waiting time, `SetMaxConnections()` and the other setters meant
  for before `Listen()`; `PeerAsText()`; the counters other than
  `read-after-close`; the select/poll/kqueue variants, which are declared and not
  implemented; `ServerSSLContext`, a record of paths; tests and build files.

Left, in this order:

1. What `NoDataForgotten` leaves of itself with more than one thread: only an
   accept in the same round wipes an event, so a packet that is reported in a
   round without one is not forgotten.
2. The invariants that the liveness runs rest on, as safety properties of their
   own: that whoever waits for `connections_lock_` waits for a thread that can
   go on.
3. What a TLS connection reads when records and packets do not meet, once there
   is a source for what OpenSSL buffers.
