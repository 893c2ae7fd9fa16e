---------------------------- MODULE LayeredProofs ----------------------------
(***************************************************************************)
(* Theorems about LayeredConnection for any kinds of connection, any pool  *)
(* threads and any number of tasks, packets and deferred shutdowns.        *)
(***************************************************************************)
EXTENDS LayeredConnection, TLAPS

\* Until the connection is in the map there is nothing else.
StartOK ==
    /\ pc[Listener] = "construct" => obj["inner"] = "none"
    /\ pc[Listener] = "register" => obj["inner"] = "live"
    /\ pc[Listener] \in {"construct", "register"} =>
          /\ obj["outer"] = "none" /\ ~mapped
          /\ \A o \in Objects : ~flag[o]
          /\ \A t \in Tasks : task[t] = Unused
          /\ \A t \in Threads \ {Listener} : pc[t] \notin ShutdownSteps
    /\ \A o \in Objects : obj[o] = "none" => ~flag[o]

\* A worker's task, by where the worker is.
JobOK(w) ==
    IF pc[w] = "free" THEN job[w] = None
    ELSE /\ job[w] \in Tasks /\ task[job[w]] # Unused
         /\ pc[w] \in {"acquire", "calls", "io"} =>
                task[job[w]].kind \in Locking /\ cur[w] = task[job[w]].obj
         /\ pc[w] = "told" => task[job[w]].kind = "Terminated"
         /\ pc[w] \in ShutdownSteps =>
                task[job[w]].kind = "Shutdown" /\ root[w] = task[job[w]].obj

\* No task is run twice.
JobsOK ==
    /\ \A w \in Workers : JobOK(w)
    /\ \A w, u \in Workers : job[w] = job[u] => w = u \/ job[w] = None

\* Each layer is read-locked by the callbacks that were given that layer.
HoldsOK ==
    \A o \in Objects : lock[o].readers = Handlers(o)
                       /\ (Handlers(o) # {} => obj[o] = "live")

\* Shutdown() of a thread: the flag is up from Deregister() on, and once it is
\* inside a layer, that layer's lock is its own.
ShutdownOK(t) ==
    pc[t] \in ShutdownSteps =>
        /\ cur[t] = "outer" => root[t] = "outer"
        /\ pc[t] \in {"dequeue", "lock", "close"} => flag[cur[t]]
        /\ pc[t] \in {"ssl", "close", "finish"} => cur[t] = "inner"
        /\ pc[t] = "finish" => root[t] = "outer"
        /\ pc[t] = "close" => lock["inner"] = Locked(t) /\ obj["inner"] = "live"
        /\ root[t] = "outer" /\ cur[t] = "inner" =>
              lock["outer"] = Locked(t) /\ obj["outer"] = "live" /\ flag["outer"]

LayersInv ==
    /\ TypeOK /\ StartOK /\ JobsOK /\ HoldsOK
    /\ \A t \in Threads : ShutdownOK(t)

\* Whether t, shutting down the object of the map, is past DequeueConnection().
Dequeued(t) ==
    /\ pc[t] \in ShutdownSteps /\ root[t] = Top
    /\ cur[t] # Top \/ pc[t] \in {"lock", "close", "finish"}

\* Nobody shuts down another object than the one in the map, unless he may.
OnlyTop ==
    ~setup.raw => /\ \A t \in Tasks : task[t].kind = "Shutdown" => task[t].obj = Top
                  /\ \A t \in Threads : pc[t] \in ShutdownSteps => root[t] = Top

\* The map has no entry once one of them is past DequeueConnection().
NoEntryLeft == \A t \in Threads : Dequeued(t) => ~mapped

\* What is left of a decorator without its connection is about to be deleted.
Dangling == setup.decorated /\ ~setup.raw /\ obj["inner"] = "deleted" /\ obj["outer"] = "live"
AboutToFinish == Dangling => \E t \in Threads : pc[t] = "finish"

TeardownOK == OnlyTop /\ NoEntryLeft /\ AboutToFinish

-----------------------------------------------------------------------------
(* What each action may change.                                            *)

\* A step by t that does not end the behaviour.
Moves(t) ==
    \/ t \in Workers /\ WorkerNext(t)
    \/ t = Listener /\ (Construct \/ Register \/ Established \/ DataReady \/ HangUp)
    \/ t = Reaper /\ (Reap \/ ReaperUnlocks)
    \/ ShutdownNext(t)

Frozen == UNCHANGED <<setup, objVars, mapVars, netVars, taskVars, pc, root, cur, job>>

\* Some thread moves, or the step changes nothing but, perhaps, fault.
LEMMA StepCases ==
    ASSUME [Next]_vars
    PROVE  \/ Frozen /\ fault' \in {fault, TRUE}
           \/ fault' = fault /\ \E t \in Threads : Moves(t)
<1>1. CASE UNCHANGED vars
  BY <1>1 DEF vars, Frozen
<1>2. CASE PeerNext
  <2>1. Listener \in Threads BY DEF Threads
  <2>2. Moves(Listener) BY <1>2 DEF PeerNext, Moves
  <2>3. fault' = fault BY <1>2 DEF PeerNext, DataReady, HangUp
  <2> QED BY <2>1, <2>2, <2>3
<1>3. ASSUME NEW t \in Threads, ThreadNext(t)
      PROVE  \/ Frozen /\ fault' \in {fault, TRUE}
             \/ fault' = fault /\ Moves(t)
  <2>1. CASE t \in Workers /\ WorkerNext(t)
    BY <2>1 DEF Moves, WorkerNext, TakeTask, Acquire, BeginIO, EndIO, TerminatedReturns,
                DeferShutdown
  <2>2. CASE t = Listener /\ (Construct \/ Register \/ Established)
    BY <2>2 DEF Moves, Construct, Register, Established
  <2>3. CASE t = Reaper /\ (Reap \/ ReaperUnlocks)
    BY <2>3 DEF Moves, Reap, ReaperUnlocks
  <2>4. CASE ShutdownNext(t)
    BY <2>4 DEF Moves, ShutdownNext, TakeSSL, Deregister, Dequeue, LockOuter, LockInner,
                Close, Finish
  <2>5. CASE UseAfterFree(t) \/ ConstructThrows
    BY <2>5 DEF UseAfterFree, ConstructThrows, Frozen
  <2> QED BY <1>3, <2>1, <2>2, <2>3, <2>4, <2>5 DEF ThreadNext
<1> QED BY <1>1, <1>2, <1>3 DEF Next

\* The kind of connection never changes.
LEMMA SetupStays ==
    ASSUME [Next]_vars
    PROVE  setup' = setup
<1>1. ASSUME NEW t \in Threads, Moves(t) PROVE setup' = setup
  BY <1>1 DEF Moves, WorkerNext, TakeTask, Acquire, BeginIO, EndIO, TerminatedReturns,
      DeferShutdown, Construct, Register, Established, DataReady, HangUp, Reap, ReaperUnlocks,
      ShutdownNext, TakeSSL, Deregister, Dequeue, LockOuter, LockInner, Close, Finish
<1> QED BY <1>1, StepCases DEF Frozen

\* Threads move one at a time.
LEMMA OthersStay ==
    ASSUME TypeOK, NEW t \in Threads, Moves(t), NEW u \in Threads, u # t
    PROVE  /\ pc'[u] = pc[u] /\ root'[u] = root[u] /\ cur'[u] = cur[u]
           /\ u \in Workers => job'[u] = job[u]
<1> USE DEF Goto, CallShutdown, Done, TypeOK
<1>1. CASE t \in Workers /\ WorkerNext(t)
  BY <1>1 DEF WorkerNext, TakeTask, Acquire, BeginIO, EndIO, TerminatedReturns,
              DeferShutdown
<1>2. CASE t = Listener /\ (Construct \/ Register \/ Established \/ DataReady \/ HangUp)
  BY <1>2 DEF Construct, Register, Established, DataReady, HangUp
<1>3. CASE t = Reaper /\ (Reap \/ ReaperUnlocks)
  BY <1>3 DEF Reap, ReaperUnlocks
<1>4. CASE ShutdownNext(t)
  BY <1>4 DEF ShutdownNext, TakeSSL, Deregister, Dequeue, LockOuter, LockInner,
              Close, Finish
<1> QED BY <1>1, <1>2, <1>3, <1>4 DEF Moves

\* The steps that make, shut down or delete an object.
LEMMA ObjectFrame ==
    ASSUME NEW t \in Threads, Moves(t)
    PROVE  \/ UNCHANGED <<obj, flag>>
           \/ t = Listener /\ (Construct \/ Register)
           \/ Deregister(t) \/ Close(t) \/ Finish(t)
BY DEF Moves, WorkerNext, TakeTask, Acquire, BeginIO, EndIO, TerminatedReturns,
       DeferShutdown, Established, DataReady, HangUp, Reap, ReaperUnlocks, objVars,
       ShutdownNext, TakeSSL, Dequeue, LockOuter, LockInner

\* The steps that lock or unlock an object.
LEMMA LockFrame ==
    ASSUME NEW t \in Threads, Moves(t)
    PROVE  \/ UNCHANGED lock
           \/ t = Listener /\ (Established \/ DataReady)
           \/ t \in Workers /\ EndIO(t)
           \/ LockOuter(t) \/ LockInner(t) \/ Close(t) \/ Finish(t)
BY DEF Moves, WorkerNext, TakeTask, Acquire, BeginIO, TerminatedReturns,
       DeferShutdown, Construct, Register, HangUp, Reap, ReaperUnlocks, objVars,
       ShutdownNext, TakeSSL, Deregister, Dequeue

\* The steps that queue a task or finish one.
LEMMA TaskFrame ==
    ASSUME NEW t \in Threads, Moves(t)
    PROVE  \/ UNCHANGED task
           \/ t = Listener /\ (Established \/ DataReady \/ HangUp)
           \/ t \in Workers /\ (DeferShutdown(t) \/ EndIO(t) \/ TerminatedReturns(t))
           \/ Close(t) \/ Finish(t)
BY DEF Moves, WorkerNext, TakeTask, Acquire, BeginIO, Construct, Register, Reap,
       ReaperUnlocks, taskVars, ShutdownNext, TakeSSL, Deregister, Dequeue, LockOuter, LockInner

\* The steps that enter the connection in the map or erase it.
LEMMA MapFrame ==
    ASSUME NEW t \in Threads, Moves(t)
    PROVE  \/ UNCHANGED mapped
           \/ t = Listener /\ Register
           \/ t = Reaper /\ Reap
           \/ Dequeue(t)
BY DEF Moves, WorkerNext, TakeTask, Acquire, BeginIO, EndIO, TerminatedReturns,
       DeferShutdown, Construct, Established, DataReady, HangUp, ReaperUnlocks, mapVars,
       ShutdownNext, TakeSSL, Deregister, LockOuter, LockInner, Close, Finish

-----------------------------------------------------------------------------
(* Types, and the start.                                                   *)

\* The connection starts with every variable in its type.
LEMMA TypeInit == Init => TypeOK
<1> SUFFICES ASSUME Init PROVE TypeOK OBVIOUS
<1> USE LayeredAssumption DEF Init
<1>1. setup \in Setups /\ Top \in Objects BY DEF Top, Objects
<1>2. lock \in [Objects -> Mutexes(Threads, Tasks)] /\ poolLock \in Mutexes(Threads, Workers)
  BY DEF Free, Mutexes
<1>3. pc \in [Threads -> {"construct", "sleep", "free"}] OBVIOUS
<1>4. packets \in 0 .. MaxPackets /\ defers \in 0 .. MaxDefers OBVIOUS
<1>5. /\ obj \in [Objects -> {"none", "live", "deleted"}] /\ flag \in [Objects -> BOOLEAN]
      /\ job \in [Workers -> Tasks \cup {None}] /\ sslMtx \in Threads \cup {None}
  OBVIOUS
<1>6. root \in [Threads -> Objects] /\ cur \in [Threads -> Objects]
  BY <1>1
<1>7. task \in [Tasks -> {Unused}] OBVIOUS
<1> QED BY <1>1, <1>2, <1>3, <1>4, <1>5, <1>6, <1>7 DEF TypeOK

\* NewTask is an unused closure when there is one.
LEMMA NewTaskUnused ==
    ASSUME \E t \in Tasks : task[t] = Unused
    PROVE  NewTask \in Tasks /\ task[NewTask] = Unused
BY DEF NewTask

\* No step of a thread or of the peer leaves the types.
LEMMA TypeStep ==
    ASSUME TypeOK, [Next]_vars
    PROVE  TypeOK'
<1>1. CASE Frozen /\ fault' \in {fault, TRUE}
  BY <1>1 DEF TypeOK, Frozen, objVars, mapVars, netVars, taskVars
<1>2. ASSUME NEW t \in Threads, Moves(t), fault' = fault
      PROVE  TypeOK'
  <2>1. obj' \in [Objects -> {"none", "live", "deleted"}] /\ flag' \in [Objects -> BOOLEAN]
    BY <1>2, ObjectFrame DEF TypeOK, Construct, Register, Deregister, Close, Finish
  <2>2. lock' \in [Objects -> Mutexes(Threads, Tasks)]
    <3>1. CASE UNCHANGED lock
      BY <3>1 DEF TypeOK
    <3>2. CASE t = Listener /\ (Established \/ DataReady)
      <4>1. PICK k \in Locking, o \in Objects : HoldAndAdd(k, o)
        BY <3>2 DEF Established, DataReady, Top, Objects, Locking
      <4>2. NewTask \in Tasks BY <4>1, NewTaskUnused DEF HoldAndAdd, Add
      <4>3. ReadLocked(lock[o], NewTask) \in Mutexes(Threads, Tasks)
        BY <4>1, <4>2 DEF TypeOK, ReadLocked, Mutexes
      <4> QED BY <4>1, <4>3 DEF TypeOK, HoldAndAdd
    <3>3. CASE t \in Workers /\ EndIO(t)
      BY <3>3 DEF TypeOK, EndIO, ReadUnlocked, Mutexes
    <3>4. CASE LockOuter(t) \/ LockInner(t) \/ Close(t) \/ Finish(t)
      BY <3>4 DEF TypeOK, LockOuter, LockInner, Close, Finish, Locked, Free, Mutexes
    <3> QED BY <1>2, LockFrame, <3>1, <3>2, <3>3, <3>4
  <2>3. sslMtx' \in Threads \cup {None}
    BY <1>2 DEF TypeOK, Moves, WorkerNext, TakeTask, Acquire, BeginIO, EndIO, TerminatedReturns,
        DeferShutdown, Construct, Register, Established, DataReady, HangUp, Reap, ReaperUnlocks,
        ShutdownNext, TakeSSL, Deregister, Dequeue, LockOuter, LockInner, Close, Finish, objVars
  <2>4. mapped' \in BOOLEAN
    BY <1>2, MapFrame DEF TypeOK, Register, Reap, Dequeue
  <2>5. poolLock' \in Mutexes(Threads, Workers)
    BY <1>2 DEF TypeOK, Moves, WorkerNext, TakeTask, Acquire, BeginIO, EndIO, TerminatedReturns,
        DeferShutdown, Construct, Register, Established, DataReady, HangUp, Reap, ReaperUnlocks,
        ShutdownNext, TakeSSL, Deregister, Dequeue, LockOuter, LockInner, Close, Finish, mapVars,
        ReadLocked, ReadUnlocked, Locked, Free, Mutexes
  <2>6. open' \in BOOLEAN /\ hup' \in BOOLEAN /\ packets' \in 0 .. MaxPackets
        /\ defers' \in 0 .. MaxDefers
    <3>1. \/ UNCHANGED <<open, hup, packets, defers>>
          \/ DataReady \/ HangUp \/ Close(t) \/ DeferShutdown(t)
      BY <1>2 DEF Moves, WorkerNext, TakeTask, Acquire, BeginIO, EndIO, TerminatedReturns,
          Construct, Register, Established, Reap, ReaperUnlocks,
          ShutdownNext, TakeSSL, Deregister, Dequeue, LockOuter, LockInner, Finish,
          netVars, taskVars
    <3>2. CASE DataReady BY <3>2, LayeredAssumption DEF DataReady, TypeOK
    <3>3. CASE DeferShutdown(t)
      BY <3>3, LayeredAssumption DEF DeferShutdown, TypeOK, netVars
    <3> QED BY <3>1, <3>2, <3>3 DEF HangUp, Close, TypeOK
  <2>7. task' \in [Tasks -> [kind : Locking \cup {"Terminated", "Shutdown"}, obj : Objects]
                            \cup {Unused}]
    <3>1. CASE UNCHANGED task
      BY <3>1 DEF TypeOK
    <3>2. ASSUME NEW k \in Locking \cup {"Terminated", "Shutdown"}, NEW o \in Objects, Add(k, o)
          PROVE  task' \in [Tasks -> [kind : Locking \cup {"Terminated", "Shutdown"}, obj : Objects]
                                     \cup {Unused}]
      BY <3>2 DEF TypeOK, Add
    <3>3. CASE t = Listener /\ (Established \/ DataReady \/ HangUp)
      BY <3>2, <3>3 DEF Established, DataReady, HangUp, HoldAndAdd, Top, Objects, Locking
    <3>4. CASE t \in Workers /\ DeferShutdown(t)
      BY <1>2, <3>2, <3>4 DEF DeferShutdown, TypeOK
    <3>5. CASE \/ t \in Workers /\ (EndIO(t) \/ TerminatedReturns(t))
               \/ Close(t) \/ Finish(t)
      BY <3>5 DEF EndIO, TerminatedReturns, Close, Finish, Done, TypeOK
    <3> QED BY <1>2, TaskFrame, <3>1, <3>3, <3>4, <3>5
  <2>8. pc' \in [Threads -> ShutdownSteps \cup {"construct", "register", "hold_new", "poll", "sleep",
                              "judge", "notify", "free", "told", "acquire", "calls", "io"}]
    BY <1>2 DEF TypeOK, Moves, WorkerNext, TakeTask, Acquire, BeginIO, EndIO, TerminatedReturns,
        DeferShutdown, Construct, Register, Established, DataReady, HangUp, Reap, ReaperUnlocks,
        ShutdownNext, TakeSSL, Deregister, Dequeue, LockOuter, LockInner, Close, Finish,
        Goto, CallShutdown, FirstStep, Done, ShutdownSteps
  <2>9. root' \in [Threads -> Objects] /\ cur' \in [Threads -> Objects]
        /\ job' \in [Workers -> Tasks \cup {None}]
    <3>1. \A u \in Tasks : task[u] # Unused => task[u].obj \in Objects
      BY DEF TypeOK
    <3> QED BY <1>2, <3>1 DEF TypeOK, Moves, WorkerNext, TakeTask, Acquire, BeginIO, EndIO,
        TerminatedReturns, Top, Objects,
        DeferShutdown, Construct, Register, Established, DataReady, HangUp, Reap, ReaperUnlocks,
        ShutdownNext, TakeSSL, Deregister, Dequeue, LockOuter, LockInner, Close, Finish,
        CallShutdown, Done
  <2> QED BY <1>2, SetupStays, <2>1, <2>2, <2>3, <2>4, <2>5, <2>6, <2>7, <2>8, <2>9 DEF TypeOK
<1> QED BY <1>1, <1>2, StepCases


-----------------------------------------------------------------------------
(* Tasks and the callbacks that hold a layer.                              *)

\* A closure is queued: it is new, and a layer is held by it if it is a callback
\* that takes the lock.
LEMMA AddHandlers ==
    ASSUME TypeOK, NEW k, NEW o \in Objects, Add(k, o)
    PROVE  /\ NewTask \in Tasks /\ task[NewTask] = Unused
           /\ task'[NewTask] = [kind |-> k, obj |-> o]
           /\ \A t \in Tasks \ {NewTask} : task'[t] = task[t]
           /\ \A p \in Objects : NewTask \notin Handlers(p)
           /\ \A p \in Objects :
                 Handlers(p)' = IF k \in Locking /\ p = o THEN Handlers(p) \cup {NewTask}
                                ELSE Handlers(p)
<1>1. NewTask \in Tasks /\ task[NewTask] = Unused
  BY NewTaskUnused DEF Add
<1>2. /\ task'[NewTask] = [kind |-> k, obj |-> o]
      /\ \A t \in Tasks \ {NewTask} : task'[t] = task[t]
  BY <1>1 DEF Add, TypeOK
<1>3. \A p \in Objects : NewTask \notin Handlers(p)
  BY <1>1 DEF Handlers, Unused, Locking
<1> QED BY <1>1, <1>2, <1>3 DEF Handlers

\* A task ends: no layer is held by it any more.
LEMMA EndHandlers ==
    ASSUME TypeOK, NEW j \in Tasks, task' = [task EXCEPT ![j] = Unused]
    PROVE  \A p \in Objects : Handlers(p)' = Handlers(p) \ {j}
<1>1. Unused.kind \notin Locking BY DEF Unused, Locking
<1> QED BY <1>1 DEF Handlers, TypeOK

\* What a step does to the tasks: one new one, the end of the worker's own, or nothing.
LEMMA TaskCases ==
    ASSUME TypeOK, NEW t \in Threads, Moves(t)
    PROVE  \/ UNCHANGED task
           \/ \E k \in Locking \cup {"Terminated", "Shutdown"}, o \in Objects : Add(k, o)
           \/ /\ t \in Workers /\ task' = [task EXCEPT ![job[t]] = Unused]
              /\ pc[t] \notin {"free", "acquire", "calls"}
              /\ job'[t] = None /\ pc'[t] = "free"
<1>1. CASE t = Listener /\ (Established \/ DataReady \/ HangUp)
  BY <1>1 DEF Established, DataReady, HangUp, HoldAndAdd, Top, Objects, Locking
<1>2. CASE t \in Workers /\ DeferShutdown(t)
  BY <1>2 DEF DeferShutdown, TypeOK
<1>3. CASE \/ t \in Workers /\ (EndIO(t) \/ TerminatedReturns(t))
           \/ Close(t) \/ Finish(t)
  BY <1>3, LayeredAssumption DEF EndIO, TerminatedReturns, Close, Finish, Done, TypeOK, Goto
<1> QED BY <1>1, <1>2, <1>3, TaskFrame

\* A worker has the task it takes to itself, and keeps it until the task is done.
LEMMA JobStep ==
    ASSUME LayersInv, NEW t \in Threads, Moves(t), NEW w \in Workers
    PROVE  JobOK(w)'
<1>0. TypeOK /\ JobOK(w) /\ w \in Threads /\ ShutdownOK(w)
  BY DEF LayersInv, JobsOK, Threads
<1>1. CASE w # t
  <2>1. /\ pc'[w] = pc[w] /\ root'[w] = root[w] /\ cur'[w] = cur[w] /\ job'[w] = job[w]
    BY <1>0, <1>1, OthersStay
  <2>2. pc[w] # "free" => task'[job[w]] = task[job[w]]
    <3>1. CASE \E k \in Locking \cup {"Terminated", "Shutdown"}, o \in Objects : Add(k, o)
      BY <1>0, <3>1, AddHandlers DEF JobOK
    <3>2. CASE t \in Workers /\ task' = [task EXCEPT ![job[t]] = Unused] /\ pc[t] # "free"
      <4>1. pc[w] # "free" => job[w] # job[t]
        BY <1>0, <1>1, <3>2, LayeredAssumption DEF LayersInv, JobsOK, JobOK
      <4> QED BY <1>0, <3>2, <4>1 DEF TypeOK, JobOK
    <3> QED BY <1>0, <3>1, <3>2, TaskCases
  <2> QED BY <1>0, <2>1, <2>2 DEF JobOK
<1>2. CASE w = t
  <2>0. w # Listener /\ w # Reaper BY LayeredAssumption
  <2>1. CASE TakeTask(w)
    <3>1. PICK j \in Tasks :
              /\ task[j] # Unused /\ job' = [job EXCEPT ![w] = j]
              /\ IF task[j].kind = "Shutdown" THEN CallShutdown(w, task[j].obj)
                 ELSE /\ cur' = [cur EXCEPT ![w] = task[j].obj] /\ UNCHANGED root
                      /\ Goto(w, IF task[j].kind = "Terminated" THEN "told" ELSE "acquire")
      BY <2>1 DEF TakeTask
    <3>2. task' = task BY <2>1 DEF TakeTask, taskVars
    <3>3. job'[w] = j /\ task[j].kind \in Locking \cup {"Terminated", "Shutdown"}
      BY <1>0, <3>1 DEF TypeOK
    <3>4. CASE task[j].kind = "Shutdown"
      <4>1. pc'[w] \in {"ssl", "deregister"} /\ root'[w] = task[j].obj
        BY <1>0, <3>1, <3>4 DEF CallShutdown, Goto, FirstStep, TypeOK
      <4> QED BY <3>1, <3>2, <3>3, <3>4, <4>1 DEF JobOK
    <3>5. CASE task[j].kind # "Shutdown"
      <4>1. /\ cur'[w] = task[j].obj
            /\ pc'[w] = IF task[j].kind = "Terminated" THEN "told" ELSE "acquire"
        BY <1>0, <3>1, <3>5 DEF Goto, TypeOK
      <4> QED BY <3>1, <3>2, <3>3, <3>5, <4>1 DEF JobOK, ShutdownSteps
    <3> QED BY <3>4, <3>5
  <2>2. CASE Acquire(w) \/ BeginIO(w)
    BY <1>0, <2>2 DEF Acquire, BeginIO, Goto, taskVars, JobOK, TypeOK, ShutdownSteps
  <2>3. CASE EndIO(w) \/ TerminatedReturns(w)
    BY <1>0, <2>0, <2>3 DEF EndIO, TerminatedReturns, Done, Goto, JobOK, TypeOK
  <2>4. CASE DeferShutdown(w)
    <3>1. task'[job[w]] = task[job[w]]
      BY <1>0, <2>4, AddHandlers DEF DeferShutdown, JobOK, TypeOK
    <3> QED BY <1>0, <2>4, <3>1 DEF DeferShutdown, JobOK
  <2>5. CASE TakeSSL(w) \/ Deregister(w) \/ Dequeue(w) \/ LockOuter(w) \/ LockInner(w)
    BY <1>0, <2>5 DEF TakeSSL, Deregister, Dequeue, LockOuter, LockInner, Goto, FirstStep,
                      taskVars, JobOK, TypeOK, ShutdownSteps
  <2>6. CASE Close(w) \/ Finish(w)
    BY <1>0, <2>0, <2>6 DEF Close, Finish, Done, Goto, JobOK, TypeOK, ShutdownSteps
  <2> QED BY <1>2, <2>0, <2>1, <2>2, <2>3, <2>4, <2>5, <2>6
          DEF Moves, WorkerNext, ShutdownNext
<1> QED BY <1>1, <1>2

\* No task is run twice.
LEMMA JobsStep ==
    ASSUME LayersInv, [Next]_vars
    PROVE  JobsOK'
<1>0. TypeOK /\ JobsOK /\ Workers \subseteq Threads BY DEF LayersInv, Threads
<1>1. CASE Frozen
  BY <1>0, <1>1 DEF Frozen, taskVars, JobsOK, JobOK
<1>2. ASSUME NEW t \in Threads, Moves(t) PROVE JobsOK'
  <2>1. \A w \in Workers : JobOK(w)' BY <1>2, JobStep
  <2>2. \A u \in Workers \ {t} : job'[u] = job[u] BY <1>0, <1>2, OthersStay
  <2>3. t \in Workers => job'[t] \in {job[t], None} \/ \A u \in Workers : job[u] # job'[t]
    BY <1>0, <1>2, LayeredAssumption
    DEF TypeOK, Moves, WorkerNext, TakeTask, Acquire, BeginIO, EndIO, TerminatedReturns,
        DeferShutdown, ShutdownNext, TakeSSL, Deregister, Dequeue, LockOuter, LockInner,
        Close, Finish, Done
  <2>4. ASSUME NEW w \in Workers, NEW u \in Workers, job'[w] = job'[u], job'[w] # None
        PROVE  w = u
    BY <1>0, <2>2, <2>3, <2>4 DEF JobsOK
  <2> QED BY <2>1, <2>4 DEF JobsOK
<1> QED BY <1>1, <1>2, StepCases


\* Until the connection is in the map there is nothing else.
LEMMA StartStep ==
    ASSUME LayersInv, [Next]_vars
    PROVE  StartOK'
<1>0. TypeOK /\ StartOK /\ JobsOK /\ Listener \in Threads BY DEF LayersInv, Threads
<1>1. CASE Frozen
  BY <1>0, <1>1 DEF Frozen, objVars, mapVars, taskVars, StartOK
<1>2. ASSUME NEW t \in Threads, Moves(t) PROVE StartOK'
  <2>1. \A o \in Objects : obj'[o] = "none" => ~flag'[o]
    <3>1. CASE UNCHANGED <<obj, flag>> BY <1>0, <3>1 DEF StartOK
    <3>2. CASE Construct \/ Register \/ Close(t) \/ Finish(t)
      BY <1>0, <3>2 DEF StartOK, Construct, Register, Close, Finish, TypeOK
    <3>3. CASE Deregister(t)
      BY <1>0, <3>3 DEF StartOK, Deregister, Usable, TypeOK
    <3> QED BY <1>2, ObjectFrame, <3>1, <3>2, <3>3
  <2>2. CASE pc[Listener] \notin {"construct", "register"}
    <3>1. pc'[Listener] \notin {"construct", "register"}
      <4>1. CASE t = Listener
        BY <1>0, <1>2, <2>2, <4>1, LayeredAssumption
        DEF TypeOK, Moves, Construct, Register, Established, DataReady, HangUp,
            CallShutdown, FirstStep, Goto, Done,
            ShutdownNext, TakeSSL, Deregister, Dequeue, LockOuter, LockInner, Close, Finish
      <4> QED BY <1>0, <1>2, <2>2, <4>1, OthersStay
    <3> QED BY <2>1, <3>1 DEF StartOK
  <2>3. CASE pc[Listener] \in {"construct", "register"}
    <3>1. /\ obj["outer"] = "none" /\ ~mapped
          /\ \A o \in Objects : ~flag[o]
          /\ \A j \in Tasks : task[j] = Unused
          /\ \A u \in Threads \ {Listener} : pc[u] \notin ShutdownSteps
      BY <1>0, <2>3 DEF StartOK
    <3>2. \A w \in Workers : pc[w] = "free"
      BY <1>0, <3>1 DEF JobsOK, JobOK
    <3>3. CASE t # Listener
      <4>1. t = Reaper /\ ReaperUnlocks
        BY <1>2, <3>1, <3>2, <3>3
        DEF Moves, WorkerNext, TakeTask, Acquire, BeginIO, EndIO, TerminatedReturns,
            DeferShutdown, Reap, ShutdownNext, TakeSSL, Deregister, Dequeue, LockOuter,
            LockInner, Close, Finish, ShutdownSteps
      <4>2. \A u \in Threads : pc'[u] = pc[u] \/ pc'[u] = "sleep"
        BY <1>0, <4>1 DEF ReaperUnlocks, Goto, TypeOK
      <4> QED BY <1>0, <3>1, <4>1, <4>2
              DEF ReaperUnlocks, objVars, taskVars, StartOK, ShutdownSteps
    <3>4. CASE t = Listener
      <4>1. CASE Construct
        BY <1>0, <3>1, <4>1 DEF Construct, Goto, mapVars, taskVars, StartOK, TypeOK, Objects
      <4>2. CASE Register
        <5>1. pc'[Listener] = "hold_new" BY <1>0, <4>2 DEF Register, Goto, TypeOK
        <5> QED BY <2>1, <5>1 DEF StartOK
      <4> QED BY <1>2, <2>3, <3>4, <4>1, <4>2, LayeredAssumption
              DEF Moves, Established, DataReady, HangUp, ShutdownNext, TakeSSL, Deregister,
                  Dequeue, LockOuter, LockInner, Close, Finish
    <3> QED BY <3>3, <3>4
  <2> QED BY <2>2, <2>3
<1> QED BY <1>1, <1>2, StepCases

\* What a lock looks like after each operation.
LEMMA LockValues ==
    ASSUME TypeOK, NEW o \in Objects
    PROVE  /\ lock[o].readers \subseteq Tasks
           /\ \A t : Locked(t).readers = {} /\ Locked(t).writer = {t}
           /\ \A t : ReadLocked(lock[o], t).readers = lock[o].readers \cup {t}
           /\ \A t : ReadUnlocked(lock[o], t).readers = lock[o].readers \ {t}
           /\ Free.readers = {} /\ Free.writer = {}
BY DEF TypeOK, Mutexes, Locked, ReadLocked, ReadUnlocked, Free

\* A thread that closes a layer is alone there.
LEMMA AloneInside ==
    ASSUME LayersInv, NEW t \in Threads
    PROVE  /\ pc[t] = "close" => Handlers("inner") = {}
           /\ pc[t] = "finish" => Handlers("outer") = {}
<1>1. "inner" \in Objects /\ "outer" \in Objects BY DEF Objects
<1>2. pc[t] = "close" => lock["inner"] = Locked(t)
  BY DEF LayersInv, ShutdownOK, ShutdownSteps
<1>3. pc[t] = "finish" => lock["outer"] = Locked(t)
  BY DEF LayersInv, ShutdownOK, ShutdownSteps
<1> QED BY <1>1, <1>2, <1>3, LockValues DEF LayersInv, HoldsOK

\* Each layer is read-locked by the callbacks that were given that layer.
LEMMA HoldsStep ==
    ASSUME LayersInv, [Next]_vars
    PROVE  HoldsOK'
<1>0. TypeOK /\ HoldsOK /\ JobsOK /\ \A t \in Threads : ShutdownOK(t) BY DEF LayersInv
<1>a. "inner" \in Objects /\ "outer" \in Objects BY DEF Objects
<1>1. CASE Frozen
  BY <1>0, <1>1 DEF Frozen, objVars, mapVars, taskVars, HoldsOK, Handlers
<1>2. ASSUME NEW t \in Threads, Moves(t) PROVE HoldsOK'
  <2>0. StartOK /\ Listener \in Threads BY DEF LayersInv, Threads
  <2>1. CASE UNCHANGED <<lock, task>> /\ ~Close(t) /\ ~Finish(t)
    <3>1. \A o \in Objects : obj[o] = "live" => obj'[o] = "live"
      BY <1>0, <1>2, <2>1, ObjectFrame DEF TypeOK, Construct, Register, Deregister
    <3> QED BY <1>0, <2>1, <3>1 DEF HoldsOK, Handlers
  <2>2. ASSUME NEW k \in Locking, NEW o \in Objects, HoldAndAdd(k, o), UNCHANGED obj
        PROVE  HoldsOK'
    <3>1. \A p \in Objects : Handlers(p)' = IF p = o THEN Handlers(p) \cup {NewTask}
                                            ELSE Handlers(p)
      BY <1>0, <2>2, AddHandlers DEF HoldAndAdd
    <3>2. \A p \in Objects : lock'[p].readers = IF p = o THEN lock[p].readers \cup {NewTask}
                                                ELSE lock[p].readers
      BY <1>0, <2>2, LockValues DEF HoldAndAdd, TypeOK
    <3>3. obj[o] = "live" BY <2>2 DEF HoldAndAdd, Usable
    <3> QED BY <1>0, <2>2, <3>1, <3>2, <3>3 DEF HoldsOK
  <2>3. CASE t = Listener /\ (Established \/ DataReady)
    BY <1>0, <2>2, <2>3 DEF Established, DataReady, objVars, Locking, Top, Objects
  <2>4. CASE \/ t = Listener /\ HangUp
             \/ t \in Workers /\ DeferShutdown(t)
    <3>1. PICK k \in {"Terminated", "Shutdown"}, o \in Objects :
              Add(k, o) /\ UNCHANGED <<obj, lock>>
      BY <1>0, <2>4 DEF HangUp, DeferShutdown, objVars, Top, Objects, TypeOK
    <3>2. \A p \in Objects : Handlers(p)' = Handlers(p)
      BY <1>0, <3>1, AddHandlers DEF Locking
    <3> QED BY <1>0, <3>1, <3>2 DEF HoldsOK
  <2>5. CASE t \in Workers /\ EndIO(t)
    <3>1. /\ job[t] \in Tasks /\ task[job[t]].kind \in Locking
          /\ cur[t] = task[job[t]].obj /\ cur[t] \in Objects
      BY <1>0, <2>5 DEF EndIO, JobsOK, JobOK, TypeOK
    <3>2. \A p \in Objects : Handlers(p)' = Handlers(p) \ {job[t]}
      BY <1>0, <2>5, <3>1, EndHandlers DEF EndIO, Done
    <3>3. \A p \in Objects : p # cur[t] => job[t] \notin Handlers(p)
      BY <3>1 DEF Handlers
    <3>4. \A p \in Objects : lock'[p].readers = IF p = cur[t] THEN lock[p].readers \ {job[t]}
                                                ELSE lock[p].readers
      <4>1. /\ lock'[cur[t]] = ReadUnlocked(lock[cur[t]], job[t])
            /\ \A p \in Objects \ {cur[t]} : lock'[p] = lock[p]
        BY <1>0, <2>5, <3>1 DEF EndIO, TypeOK
      <4>2. ReadUnlocked(lock[cur[t]], job[t]).readers = lock[cur[t]].readers \ {job[t]}
        BY DEF ReadUnlocked
      <4> QED BY <4>1, <4>2
    <3>5. obj' = obj BY <2>5 DEF EndIO
    <3> SUFFICES ASSUME NEW p \in Objects
                 PROVE  lock'[p].readers = Handlers(p)' /\ (Handlers(p)' # {} => obj'[p] = "live")
      BY DEF HoldsOK
    <3>6. lock[p].readers = Handlers(p) /\ (Handlers(p) # {} => obj[p] = "live")
      BY <1>0 DEF HoldsOK
    <3>7. Handlers(p)' = Handlers(p) \ {job[t]} BY <3>2
    <3>8. CASE p = cur[t] BY <3>4, <3>5, <3>6, <3>7, <3>8
    <3>9. CASE p # cur[t]
      <4>1. Handlers(p)' = Handlers(p) BY <3>3, <3>7, <3>9
      <4> QED BY <3>4, <3>5, <3>6, <3>9, <4>1
    <3> QED BY <3>8, <3>9
  <2>6. CASE \/ t \in Workers /\ TerminatedReturns(t)
             \/ Close(t) \/ Finish(t)
    <3>1. \A p \in Objects : Handlers(p)' = Handlers(p)
      <4>1. CASE UNCHANGED task BY <4>1 DEF Handlers
      <4>2. CASE t \in Workers /\ task' = [task EXCEPT ![job[t]] = Unused]
        <5>1. job[t] \in Tasks /\ task[job[t]].kind \notin Locking
          BY <1>0, <2>6, <4>2
          DEF TerminatedReturns, Close, Finish, JobsOK, JobOK, ShutdownSteps, Locking
        <5>2. \A p \in Objects : job[t] \notin Handlers(p) BY <5>1 DEF Handlers
        <5>3. \A p \in Objects : Handlers(p)' = Handlers(p) \ {job[t]}
          BY <1>0, <4>2, <5>1, EndHandlers
        <5> QED BY <5>2, <5>3
      <4> QED BY <2>6, <4>1, <4>2 DEF TerminatedReturns, Close, Finish, Done
    <3>2. CASE TerminatedReturns(t)
      BY <1>0, <3>1, <3>2 DEF TerminatedReturns, objVars, HoldsOK
    <3>3. CASE Close(t)
      <4>1. Handlers("inner") = {} BY <3>3, AloneInside DEF Close
      <4> QED BY <1>0, <1>a, <3>1, <3>3, <4>1, LockValues DEF Close, HoldsOK, TypeOK, Objects
    <3>4. CASE Finish(t)
      <4>1. Handlers("outer") = {} BY <3>4, AloneInside DEF Finish
      <4> QED BY <1>0, <1>a, <3>1, <3>4, <4>1, LockValues DEF Finish, HoldsOK, TypeOK, Objects
    <3> QED BY <2>6, <3>2, <3>3, <3>4
  <2>7. CASE LockOuter(t) \/ LockInner(t)
    <3>1. PICK o \in Objects : lock[o] = Free /\ lock' = [lock EXCEPT ![o] = Locked(t)]
      BY <2>7, <1>a DEF LockOuter, LockInner, CanLock
    <3>2. UNCHANGED <<obj, task>> BY <2>7 DEF LockOuter, LockInner, taskVars
    <3>3. \A p \in Objects : lock'[p].readers = lock[p].readers
      BY <1>0, <3>1, LockValues DEF TypeOK
    <3> QED BY <1>0, <3>2, <3>3 DEF HoldsOK, Handlers
  <2> QED BY <1>2, LockFrame, TaskFrame, <2>1, <2>3, <2>4, <2>5, <2>6, <2>7
<1> QED BY <1>1, <1>2, StepCases


-----------------------------------------------------------------------------
(* Shutdown() through the layers.                                          *)

\* A layer that is shut down stays so.
LEMMA FlagStays ==
    ASSUME TypeOK, NEW t \in Threads, Moves(t), NEW o \in Objects, flag[o]
    PROVE  flag'[o]
BY ObjectFrame DEF TypeOK, Construct, Register, Deregister, Close, Finish

\* What a thread has locked for Shutdown() nobody else unlocks or deletes.
LEMMA ExclusionStays ==
    ASSUME LayersInv, NEW t \in Threads, Moves(t), NEW u \in Threads, u # t,
           NEW o \in Objects, lock[o] = Locked(u), obj[o] = "live"
    PROVE  lock'[o] = Locked(u) /\ obj'[o] = "live"
<1>0. TypeOK /\ ShutdownOK(t) /\ HoldsOK /\ JobsOK BY DEF LayersInv
<1>1. /\ lock[o].writer = {u} /\ lock[o].readers = {} /\ lock[o] # Free /\ Locked(t) # Locked(u)
  <2>1. Locked(t).writer = {t} /\ Free.writer = {} BY DEF Locked, Free
  <2> QED BY <2>1 DEF Locked
<1>2. CASE UNCHANGED <<lock, obj>>
  BY <1>2
<1>3. CASE t = Listener /\ (Construct \/ Register)
  BY <1>0, <1>3 DEF Construct, Register, TypeOK
<1>4. CASE t = Listener /\ (Established \/ DataReady)
  <2>1. PICK k \in Locking, p \in Objects : HoldAndAdd(k, p) /\ obj' = obj
    BY <1>4 DEF Established, DataReady, objVars, Top, Objects, Locking
  <2>2. p # o BY <1>1, <2>1 DEF HoldAndAdd, CanReadLock
  <2> QED BY <1>0, <2>1, <2>2 DEF HoldAndAdd, TypeOK
<1>5. CASE t \in Workers /\ EndIO(t)
  <2>1. /\ job[t] \in Tasks /\ task[job[t]].kind \in Locking
        /\ cur[t] = task[job[t]].obj /\ cur[t] \in Objects
    BY <1>0, <1>5 DEF EndIO, JobsOK, JobOK, TypeOK
  <2>2. job[t] \in Handlers(cur[t]) BY <2>1 DEF Handlers
  <2>3. cur[t] # o BY <1>0, <1>1, <2>2 DEF HoldsOK
  <2> QED BY <1>0, <1>5, <2>1, <2>3 DEF EndIO, TypeOK
<1>6. CASE LockOuter(t) \/ LockInner(t)
  BY <1>0, <1>1, <1>6 DEF LockOuter, LockInner, CanLock, TypeOK
<1>7. CASE Close(t)
  <2>1. o # "inner" BY <1>0, <1>1, <1>7 DEF Close, ShutdownOK, ShutdownSteps
  <2> QED BY <1>0, <1>7, <2>1 DEF Close, TypeOK
<1>8. CASE Finish(t)
  <2>1. o # "outer" BY <1>0, <1>1, <1>8 DEF Finish, ShutdownOK, ShutdownSteps
  <2> QED BY <1>0, <1>8, <2>1 DEF Finish, TypeOK
<1>9. CASE Deregister(t) BY <1>9 DEF Deregister
<1>10. CASE UNCHANGED lock /\ UNCHANGED <<obj, flag>> BY <1>10
<1>11. CASE UNCHANGED <<obj, flag>>
  BY LockFrame, <1>4, <1>5, <1>6, <1>7, <1>8, <1>10, <1>11
<1> QED BY ObjectFrame, <1>3, <1>7, <1>8, <1>9, <1>11

\* Shutdown() of a thread: the flag is up from Deregister() on, and once it is
\* inside a layer, that layer's lock is its own.
LEMMA ShutdownStep ==
    ASSUME LayersInv, NEW t \in Threads, Moves(t), NEW u \in Threads
    PROVE  ShutdownOK(u)'
<1>0. TypeOK /\ StartOK /\ ShutdownOK(u) /\ "inner" \in Objects /\ "outer" \in Objects
  BY DEF LayersInv, Objects
<1>1. CASE u # t
  <2>1. pc'[u] = pc[u] /\ root'[u] = root[u] /\ cur'[u] = cur[u]
    BY <1>0, <1>1, OthersStay
  <2>2. \A o \in Objects : lock[o] = Locked(u) /\ obj[o] = "live"
                              => lock'[o] = Locked(u) /\ obj'[o] = "live"
    BY <1>1, ExclusionStays
  <2>3. \A o \in Objects : flag[o] => flag'[o] BY <1>0, FlagStays
  <2>4. cur[u] \in Objects BY <1>0 DEF TypeOK
  <2> QED BY <1>0, <2>1, <2>2, <2>3, <2>4 DEF ShutdownOK
<1>2. CASE u = t
  <2> SUFFICES ShutdownOK(t)' BY <1>2
  <2>0. ShutdownOK(t) BY <1>0, <1>2
  <2>1. ASSUME NEW o \in Objects, CallShutdown(t, o) PROVE ShutdownOK(t)'
    <3>1. /\ root'[t] = o /\ cur'[t] = o
          /\ pc'[t] \in {"ssl", "deregister"} /\ (pc'[t] = "ssl" => o = "inner")
      BY <1>0, <2>1 DEF CallShutdown, Goto, FirstStep, TypeOK
    <3> QED BY <3>1 DEF ShutdownOK
  <2>2. CASE pc'[t] \notin ShutdownSteps
    BY <2>2 DEF ShutdownOK
  <2>3. CASE pc'[t] = pc[t] /\ pc[t] \notin ShutdownSteps
    BY <2>3 DEF ShutdownOK
  <2>4. CASE t \in Workers /\ WorkerNext(t)
    <3>1. CASE TakeTask(t)
      <4>1. PICK j \in Tasks :
                /\ task[j] # Unused
                /\ IF task[j].kind = "Shutdown" THEN CallShutdown(t, task[j].obj)
                   ELSE Goto(t, IF task[j].kind = "Terminated" THEN "told" ELSE "acquire")
        BY <3>1 DEF TakeTask
      <4>2. task[j].obj \in Objects BY <1>0, <4>1 DEF TypeOK
      <4> QED BY <1>0, <2>1, <2>2, <4>1, <4>2 DEF Goto, TypeOK, ShutdownSteps
    <3> QED BY <1>0, <2>2, <2>3, <2>4, <3>1, LayeredAssumption
            DEF WorkerNext, Acquire, BeginIO, EndIO, TerminatedReturns, DeferShutdown, Goto,
                Done, TypeOK, ShutdownSteps
  <2>5. CASE t = Listener /\ (Construct \/ Register \/ Established \/ DataReady \/ HangUp)
    BY <1>0, <2>1, <2>2, <2>3, <2>5
    DEF Construct, Register, Established, DataReady, HangUp, Goto, TypeOK, ShutdownSteps, Top
  <2>6. CASE t = Reaper /\ (Reap \/ ReaperUnlocks)
    BY <1>0, <2>1, <2>2, <2>3, <2>6
    DEF Reap, ReaperUnlocks, Goto, TypeOK, ShutdownSteps, Top
  <2>7. CASE TakeSSL(t) \/ Dequeue(t)
    BY <1>0, <2>0, <2>7 DEF TakeSSL, Dequeue, Goto, objVars, ShutdownOK, TypeOK, ShutdownSteps
  <2>8. CASE Deregister(t)
    BY <1>0, <2>0, <2>8 DEF Deregister, Goto, ShutdownOK, TypeOK, ShutdownSteps
  <2>9. CASE LockOuter(t)
    <3>1. /\ root'[t] = root[t] /\ root[t] = "outer" /\ cur'[t] = "inner"
          /\ pc'[t] \in {"ssl", "deregister"}
          /\ lock'["outer"] = Locked(t) /\ obj'["outer"] = "live" /\ flag'["outer"]
      BY <1>0, <2>0, <2>9
      DEF LockOuter, Goto, FirstStep, Usable, ShutdownOK, TypeOK, ShutdownSteps
    <3> QED BY <3>1 DEF ShutdownOK
  <2>10. CASE LockInner(t)
    <3>1. /\ root'[t] = root[t] /\ cur'[t] = "inner" /\ pc'[t] = "close"
          /\ lock'["inner"] = Locked(t) /\ obj'["inner"] = "live" /\ flag'["inner"]
          /\ UNCHANGED <<obj, flag>> /\ lock'["outer"] = lock["outer"]
      BY <1>0, <2>0, <2>10 DEF LockInner, Goto, Usable, ShutdownOK, TypeOK, ShutdownSteps
    <3> QED BY <1>0, <2>0, <2>10, <3>1 DEF LockInner, ShutdownOK, ShutdownSteps
  <2>11. CASE Close(t)
    <3>1. CASE root[t] = "outer"
      <4>1. /\ pc'[t] = "finish" /\ root'[t] = "outer" /\ cur'[t] = "inner"
            /\ lock'["outer"] = lock["outer"] /\ obj'["outer"] = obj["outer"] /\ flag' = flag
        BY <1>0, <2>0, <2>11, <3>1 DEF Close, Goto, ShutdownOK, TypeOK, ShutdownSteps
      <4> QED BY <1>0, <2>0, <2>11, <3>1, <4>1 DEF Close, ShutdownOK, ShutdownSteps
    <3> QED BY <1>0, <2>0, <2>2, <2>11, <3>1 DEF Close, Done, Goto, TypeOK, ShutdownSteps
  <2>12. CASE Finish(t)
    BY <1>0, <2>0, <2>2, <2>12 DEF Finish, Done, Goto, TypeOK, ShutdownSteps
  <2> QED BY <1>2, <2>4, <2>5, <2>6, <2>7, <2>8, <2>9, <2>10, <2>11, <2>12
          DEF Moves, ShutdownNext
<1> QED BY <1>1, <1>2

-----------------------------------------------------------------------------
(* The invariant.                                                          *)

\* Before the constructor returns there are no tasks, no holds and no locks.
LEMMA InitLayers == Init => LayersInv
<1> SUFFICES ASSUME Init PROVE LayersInv OBVIOUS
<1> USE LayeredAssumption DEF Init
<1>1. TypeOK BY TypeInit
<1>2. \A t \in Threads : pc[t] \in {"construct", "sleep", "free"} OBVIOUS
<1>3. StartOK BY <1>2 DEF StartOK, Threads, Objects, ShutdownSteps
<1>4. JobsOK
  <2>1. \A w \in Workers : pc[w] = "free" /\ job[w] = None BY DEF Threads
  <2> QED BY <2>1 DEF JobsOK, JobOK
<1>5. HoldsOK
  <2>1. \A o \in Objects : Handlers(o) = {} BY DEF Handlers, Unused, Locking
  <2> QED BY <2>1 DEF HoldsOK, Free
<1>6. \A t \in Threads : ShutdownOK(t) BY <1>2 DEF ShutdownOK, ShutdownSteps
<1> QED BY <1>1, <1>3, <1>4, <1>5, <1>6 DEF LayersInv

\* Holds, locks and layers stay consistent under every step.
LEMMA StepLayers == LayersInv /\ [Next]_vars => LayersInv'
<1> SUFFICES ASSUME LayersInv, [Next]_vars PROVE LayersInv' OBVIOUS
<1>1. TypeOK' BY TypeStep DEF LayersInv
<1>2. StartOK' /\ JobsOK' /\ HoldsOK' BY StartStep, JobsStep, HoldsStep
<1>3. ASSUME NEW u \in Threads PROVE ShutdownOK(u)'
  <2>1. CASE Frozen BY <2>1 DEF Frozen, objVars, ShutdownOK, LayersInv
  <2> QED BY <2>1, StepCases, ShutdownStep
<1> QED BY <1>1, <1>2, <1>3 DEF LayersInv

\* The invariant that everything else here follows from.
THEOREM LayersInvariant == Spec => []LayersInv
BY InitLayers, StepLayers, PTL DEF Spec

\* Every variable keeps its type, for any kinds of connection, pool threads and
\* tasks.
THEOREM LayeredTypeCorrect == Spec => []TypeOK
<1>1. LayersInv => TypeOK BY DEF LayersInv
<1> QED BY <1>1, LayersInvariant, PTL


-----------------------------------------------------------------------------
(* The end of a decorated connection.                                      *)

\* Every step keeps it so that only the object in the map is shut down.
LEMMA OnlyTopStep ==
    ASSUME LayersInv, OnlyTop, NEW t \in Threads, Moves(t), setup' = setup, ~setup.raw
    PROVE  OnlyTop'
<1>0. /\ TypeOK /\ JobsOK /\ Top' = Top /\ Top \in Objects /\ ShutdownOK(t)
      /\ \A j \in Tasks : task[j].kind = "Shutdown" => task[j].obj = Top
      /\ \A u \in Threads : pc[u] \in ShutdownSteps => root[u] = Top
  BY DEF LayersInv, OnlyTop, Top, Objects
<1>1. \A j \in Tasks : task'[j].kind = "Shutdown" => task'[j].obj = Top
  <2>1. CASE UNCHANGED task BY <1>0, <2>1
  <2>2. CASE t \in Workers /\ task' = [task EXCEPT ![job[t]] = Unused]
    BY <1>0, <2>2 DEF TypeOK, Unused
  <2>3. ASSUME NEW k \in Locking \cup {"Terminated", "Shutdown"}, NEW o \in Objects, Add(k, o),
               k = "Shutdown" => o = Top
        PROVE  \A j \in Tasks : task'[j].kind = "Shutdown" => task'[j].obj = Top
    <3>1. /\ task'[NewTask] = [kind |-> k, obj |-> o]
          /\ \A j \in Tasks \ {NewTask} : task'[j] = task[j]
      BY <1>0, <2>3, AddHandlers
    <3>2. task'[NewTask].kind = "Shutdown" => task'[NewTask].obj = Top
      BY <2>3, <3>1
    <3> QED BY <1>0, <3>1, <3>2
  <2>4. CASE t = Listener /\ (Established \/ DataReady \/ HangUp)
    BY <1>0, <2>3, <2>4 DEF Established, DataReady, HangUp, HoldAndAdd, Locking, Objects
  <2>5. CASE t \in Workers /\ DeferShutdown(t)
    BY <1>0, <2>3, <2>5 DEF DeferShutdown, TypeOK
  <2>6. CASE \/ t \in Workers /\ (EndIO(t) \/ TerminatedReturns(t))
             \/ Close(t) \/ Finish(t)
    BY <2>1, <2>2, <2>6 DEF EndIO, TerminatedReturns, Close, Finish, Done
  <2> QED BY TaskFrame, <2>1, <2>4, <2>5, <2>6
<1>2. pc'[t] \in ShutdownSteps => root'[t] = Top
  <2>1. CASE t \in Workers /\ WorkerNext(t)
    <3>1. CASE TakeTask(t)
      <4>1. PICK j \in Tasks :
                /\ task[j] # Unused
                /\ IF task[j].kind = "Shutdown" THEN CallShutdown(t, task[j].obj)
                   ELSE Goto(t, IF task[j].kind = "Terminated" THEN "told" ELSE "acquire")
        BY <3>1 DEF TakeTask
      <4> QED BY <1>0, <4>1 DEF CallShutdown, Goto, TypeOK, ShutdownSteps
    <3> QED BY <1>0, <2>1, <3>1, LayeredAssumption
            DEF WorkerNext, Acquire, BeginIO, EndIO, TerminatedReturns, DeferShutdown, Goto,
                Done, TypeOK, ShutdownSteps
  <2>2. CASE t = Listener /\ (Construct \/ Register \/ Established \/ DataReady \/ HangUp)
    BY <1>0, <2>2
    DEF Construct, Register, Established, DataReady, HangUp, CallShutdown, Goto, TypeOK,
        ShutdownSteps
  <2>3. CASE t = Reaper /\ (Reap \/ ReaperUnlocks)
    BY <1>0, <2>3 DEF Reap, ReaperUnlocks, CallShutdown, Goto, TypeOK, ShutdownSteps
  <2>4. CASE ShutdownNext(t)
    BY <1>0, <2>4
    DEF ShutdownNext, TakeSSL, Deregister, Dequeue, LockOuter, LockInner, Close, Finish,
        Done, TypeOK, ShutdownSteps
  <2> QED BY <2>1, <2>2, <2>3, <2>4 DEF Moves
<1>3. \A u \in Threads \ {t} : pc'[u] = pc[u] /\ root'[u] = root[u] BY <1>0, OthersStay
<1> QED BY <1>0, <1>1, <1>2, <1>3 DEF OnlyTop

\* A thread gets past DequeueConnection() only when the map has no entry.
LEMMA DequeuedStep ==
    ASSUME LayersInv, NEW t \in Threads, Moves(t), setup' = setup, Dequeued(t)'
    PROVE  Dequeued(t) \/ ~mapped'
<1>0. /\ TypeOK /\ Top' = Top /\ Top \in Objects /\ ShutdownOK(t)
      /\ pc'[t] \in ShutdownSteps /\ root'[t] = Top
      /\ cur'[t] # Top \/ pc'[t] \in {"lock", "close", "finish"}
  BY DEF LayersInv, Top, Objects, Dequeued
<1>1. ASSUME NEW o \in Objects, CallShutdown(t, o) PROVE FALSE
  BY <1>0, <1>1 DEF CallShutdown, Goto, FirstStep, TypeOK
<1>2. CASE t \in Workers /\ WorkerNext(t)
  <2>1. CASE TakeTask(t)
    <3>1. PICK j \in Tasks :
              /\ task[j] # Unused
              /\ IF task[j].kind = "Shutdown" THEN CallShutdown(t, task[j].obj)
                 ELSE Goto(t, IF task[j].kind = "Terminated" THEN "told" ELSE "acquire")
      BY <2>1 DEF TakeTask
    <3>2. task[j].obj \in Objects BY <1>0, <3>1 DEF TypeOK
    <3> QED BY <1>0, <1>1, <3>1, <3>2 DEF Goto, TypeOK, ShutdownSteps
  <2>2. CASE DeferShutdown(t)
    BY <1>0, <2>2 DEF DeferShutdown, Dequeued, ShutdownSteps
  <2> QED BY <1>0, <1>2, <2>1, <2>2, LayeredAssumption
          DEF WorkerNext, Acquire, BeginIO, EndIO, TerminatedReturns, Goto,
              Done, TypeOK, ShutdownSteps
<1>3. CASE t = Listener /\ (Construct \/ Register \/ Established \/ DataReady \/ HangUp)
  BY <1>0, <1>1, <1>3
  DEF Construct, Register, Established, DataReady, HangUp, Goto, TypeOK, ShutdownSteps
<1>4. CASE t = Reaper /\ (Reap \/ ReaperUnlocks)
  BY <1>0, <1>1, <1>4 DEF Reap, ReaperUnlocks, Goto, TypeOK, ShutdownSteps
<1>5. CASE TakeSSL(t) \/ Deregister(t) \/ LockOuter(t) \/ LockInner(t)
  BY <1>0, <1>5
  DEF TakeSSL, Deregister, LockOuter, LockInner, Goto, FirstStep, Dequeued, TypeOK,
      ShutdownSteps
<1>6. CASE Dequeue(t)
  BY <1>0, <1>6 DEF Dequeue, Goto, Dequeued, TypeOK, ShutdownSteps
<1>7. CASE Close(t) \/ Finish(t)
  BY <1>0, <1>7 DEF Close, Finish, Goto, Done, Dequeued, TypeOK, ShutdownSteps
<1> QED BY <1>2, <1>3, <1>4, <1>5, <1>6, <1>7 DEF Moves, ShutdownNext

\* The map gets an entry before anybody shuts anything down, and only then.
LEMMA NoEntryStep ==
    ASSUME LayersInv, NoEntryLeft, NEW t \in Threads, Moves(t), setup' = setup
    PROVE  NoEntryLeft'
<1>0. TypeOK /\ StartOK /\ Top' = Top /\ Listener \in Threads
  BY DEF LayersInv, Top, Threads
<1> SUFFICES ASSUME NEW u \in Threads, Dequeued(u)' PROVE ~mapped'
  BY DEF NoEntryLeft
<1>1. CASE mapped' = FALSE BY <1>1
<1>2. CASE t = Listener /\ Register
  <2>1. pc'[t] = "hold_new" BY <1>0, <1>2 DEF Register, Goto, TypeOK
  <2>2. u # t BY <2>1 DEF Dequeued, ShutdownSteps
  <2>3. pc'[u] = pc[u] BY <1>0, <2>2, OthersStay
  <2>4. pc[u] \notin ShutdownSteps BY <1>0, <1>2, <2>2 DEF Register, StartOK
  <2> QED BY <2>3, <2>4 DEF Dequeued
<1>3. CASE UNCHANGED mapped
  <2>1. CASE u = t
    BY <1>3, <2>1, DequeuedStep DEF NoEntryLeft
  <2>2. CASE u # t
    <3>1. pc'[u] = pc[u] /\ root'[u] = root[u] /\ cur'[u] = cur[u]
      BY <1>0, <2>2, OthersStay
    <3>2. Dequeued(u) BY <1>0, <3>1 DEF Dequeued
    <3> QED BY <1>3, <3>2 DEF NoEntryLeft
  <2> QED BY <2>1, <2>2
<1> QED BY MapFrame, <1>1, <1>2, <1>3 DEF Reap, Dequeue

\* A decorator is left without its connection by the thread that deletes it next.
LEMMA FinishStep ==
    ASSUME LayersInv, TeardownOK, NEW t \in Threads, Moves(t), setup' = setup
    PROVE  AboutToFinish'
<1>0. TypeOK /\ StartOK /\ ShutdownOK(t) BY DEF LayersInv
<1> SUFFICES ASSUME Dangling' PROVE \E u \in Threads : pc'[u] = "finish"
  BY DEF AboutToFinish
<1>a. /\ setup.decorated /\ ~setup.raw /\ Top = "outer"
      /\ obj'["inner"] = "deleted" /\ obj'["outer"] = "live"
  BY DEF Dangling, Top
<1>1. CASE Dangling
  <2>1. PICK u \in Threads : pc[u] = "finish" BY <1>1 DEF TeardownOK, AboutToFinish
  <2>2. CASE u # t BY <1>0, <2>1, <2>2, OthersStay
  <2>3. CASE u = t
    <3>1. Finish(t)
      BY <2>1, <2>3
      DEF Moves, WorkerNext, TakeTask, Acquire, BeginIO, EndIO, TerminatedReturns,
          DeferShutdown, Construct, Register, Established, DataReady, HangUp, Reap,
          ReaperUnlocks, ShutdownNext, TakeSSL, Deregister, Dequeue, LockOuter, LockInner,
          Close
    <3> QED BY <1>0, <1>a, <3>1 DEF Finish, TypeOK, Objects
  <2> QED BY <2>2, <2>3
<1>2. CASE ~Dangling
  <2>1. obj["inner"] # "deleted" \/ obj["outer"] # "live"
    BY <1>2, <1>a DEF Dangling
  <2>2. CASE Close(t)
    <3>1. root[t] = "outer"
      BY <1>0, <1>a, <2>2 DEF Close, TeardownOK, OnlyTop, ShutdownSteps
    <3> QED BY <1>0, <2>2, <3>1 DEF Close, Goto, TypeOK
  <2>3. CASE t = Listener /\ (Construct \/ Register)
    BY <1>0, <1>a, <2>1, <2>3 DEF Construct, Register, StartOK, TypeOK, Objects
  <2>4. CASE Finish(t) BY <1>0, <1>a, <2>4 DEF Finish, TypeOK, Objects
  <2> QED BY ObjectFrame, <1>a, <2>1, <2>2, <2>3, <2>4 DEF Deregister
<1> QED BY <1>1, <1>2

\* Nothing is being torn down at the start.
LEMMA TeardownInit == Init => TeardownOK
<1> SUFFICES ASSUME Init PROVE TeardownOK OBVIOUS
<1>1. \A t \in Threads : pc[t] \in {"construct", "sleep", "free"} BY DEF Init
<1>2. \A t \in Tasks : task[t].kind = "unused" BY DEF Init, Unused
<1>3. obj["outer"] = "none" /\ ~mapped BY DEF Init, Objects
<1> QED BY <1>1, <1>2, <1>3
        DEF TeardownOK, OnlyTop, NoEntryLeft, Dequeued, AboutToFinish, Dangling, ShutdownSteps

\* No step leads out of the order in which a connection is torn down.
LEMMA TeardownStep == LayersInv /\ TeardownOK /\ [Next]_vars => TeardownOK'
<1> SUFFICES ASSUME LayersInv, TeardownOK, [Next]_vars PROVE TeardownOK' OBVIOUS
<1>1. CASE Frozen
  BY <1>1 DEF Frozen, objVars, mapVars, taskVars, TeardownOK, OnlyTop, NoEntryLeft, Dequeued,
              AboutToFinish, Dangling, Top
<1>2. ASSUME NEW t \in Threads, Moves(t) PROVE TeardownOK'
  <2>1. setup' = setup BY SetupStays
  <2>2. OnlyTop'
    <3>1. CASE setup.raw BY <2>1, <3>1 DEF OnlyTop
    <3> QED BY <1>2, <2>1, <3>1, OnlyTopStep DEF TeardownOK
  <2> QED BY <1>2, <2>1, <2>2, NoEntryStep, FinishStep DEF TeardownOK
<1> QED BY <1>1, <1>2, StepCases

\* Where the undecorated connection is left alone, no callback, event or pass of
\* the reaper can reach a decorator whose wrapped_ is gone: the only thread that
\* still knows it is inside its lock, about to delete it.
THEOREM NoDanglingDecorator == Spec => []DecoratorNotDangling
<1>1. LayersInv /\ TeardownOK => DecoratorNotDangling
  <2> SUFFICES ASSUME LayersInv, TeardownOK, Dangling
               PROVE  /\ ~mapped /\ Handlers("outer") = {}
                      /\ \E t \in Threads : pc[t] = "finish" /\ lock["outer"] = Locked(t)
    BY DEF DecoratorNotDangling, Dangling
  <2>1. PICK t \in Threads : pc[t] = "finish" BY DEF TeardownOK, AboutToFinish
  <2>2. /\ root[t] = Top /\ Top = "outer" /\ cur[t] = "inner" /\ lock["outer"] = Locked(t)
    BY <2>1 DEF Dangling, TeardownOK, OnlyTop, LayersInv, ShutdownOK, ShutdownSteps, Top
  <2>3. ~mapped
    BY <2>1, <2>2 DEF TeardownOK, NoEntryLeft, Dequeued, ShutdownSteps
  <2>4. Handlers("outer") = {} BY <2>1, AloneInside
  <2> QED BY <2>1, <2>2, <2>3, <2>4
<1> QED BY <1>1, TeardownInit, TeardownStep, LayersInvariant, PTL DEF Spec


-----------------------------------------------------------------------------
(* LayeredConnection implements ConnectionLifecycle.                       *)

\* A client just accepted is an initial state of ConnectionLifecycle.
LEMMA InitLife == Init => Lifecycle!Init
BY DEF Init, Lifecycle!Init, Phase, Handlers, Unused, Locking

\* A step of ConnectionLifecycle, or a stutter, in the terms of this module.
LifeStep == [Lifecycle!Next]_<<[o \in Objects |-> Phase(o)], [o \in Objects |-> Handlers(o)]>>

\* Every step is a step of ConnectionLifecycle for one layer, or changes nothing
\* it can see.
LEMMA StepLife == LayersInv /\ [Next]_vars => LifeStep
<1> SUFFICES ASSUME LayersInv, [Next]_vars PROVE LifeStep OBVIOUS
<1> DEFINE phase == [o \in Objects |-> Phase(o)]
           holds == [o \in Objects |-> Handlers(o)]
<1>0. /\ TypeOK /\ StartOK /\ JobsOK /\ HoldsOK /\ "inner" \in Objects /\ "outer" \in Objects
      /\ \A t \in Threads : ShutdownOK(t)
  BY DEF LayersInv, Objects
<1>1. ASSUME UNCHANGED phase, UNCHANGED holds PROVE LifeStep
  BY <1>1 DEF LifeStep
<1>2. ASSUME \A o \in Objects : Handlers(o)' = Handlers(o) PROVE UNCHANGED holds
  BY <1>2
<1>3. ASSUME task' = task PROVE UNCHANGED holds
  BY <1>3 DEF Handlers
<1>4. ASSUME UNCHANGED <<obj, flag>> PROVE UNCHANGED phase
  BY <1>4 DEF Phase
<1>5. ASSUME NEW o \in Objects, obj[o] = "none", obj' = [obj EXCEPT ![o] = "live"],
             UNCHANGED <<flag, task>>
      PROVE  LifeStep
  <2>1. Phase(o) = "absent" /\ Phase(o)' = "open"
    BY <1>0, <1>5 DEF Phase, TypeOK, StartOK
  <2>2. \A p \in Objects : p # o => Phase(p)' = Phase(p) BY <1>0, <1>5 DEF Phase, TypeOK
  <2>3. Lifecycle!Open(o) BY <1>3, <1>5, <2>1, <2>2 DEF Lifecycle!Open
  <2> QED BY <2>3 DEF LifeStep, Lifecycle!Next
<1>6. ASSUME NEW o \in Objects, NEW t \in Threads, obj' = [obj EXCEPT ![o] = "deleted"],
             flag' = flag, lock[o] = Locked(t), obj[o] = "live", flag[o],
             UNCHANGED holds
      PROVE  LifeStep
  <2>1. Phase(o) = "shutDown" /\ Phase(o)' = "destroyed"
    BY <1>0, <1>6 DEF Phase, TypeOK
  <2>2. \A p \in Objects : p # o => Phase(p)' = Phase(p) BY <1>0, <1>6 DEF Phase, TypeOK
  <2>3. Handlers(o) = {} BY <1>0, <1>6 DEF HoldsOK, Locked
  <2>4. Lifecycle!Destroy(o) BY <1>6, <2>1, <2>2, <2>3 DEF Lifecycle!Destroy
  <2> QED BY <2>4 DEF LifeStep, Lifecycle!Next
<1>7. CASE Frozen
  BY <1>1, <1>3, <1>4, <1>7 DEF Frozen, objVars, taskVars
<1>8. ASSUME NEW t \in Threads, Moves(t) PROVE LifeStep
  <2>1. CASE UNCHANGED <<obj, flag, task>>
    BY <1>1, <1>3, <1>4, <2>1
  <2>2. CASE t = Listener /\ (Construct \/ Register)
    <3>1. UNCHANGED <<flag, task>> /\ obj["outer"] = "none"
      BY <1>0, <2>2 DEF Construct, Register, taskVars, StartOK
    <3>2. CASE Construct
      BY <1>0, <1>5, <3>1, <3>2 DEF Construct, StartOK
    <3>3. CASE Register /\ Top = "outer"
      BY <1>0, <1>5, <3>1, <3>3 DEF Register
    <3>4. CASE Register /\ Top = "inner"
      <4>1. obj' = obj BY <1>0, <3>4 DEF Register, StartOK, TypeOK
      <4> QED BY <2>1, <3>1, <4>1
    <3> QED BY <2>2, <3>2, <3>3, <3>4 DEF Top
  <2>3. CASE t = Listener /\ (Established \/ DataReady)
    <3>1. PICK k \in Locking, o \in Objects : HoldAndAdd(k, o) /\ UNCHANGED <<obj, flag>>
      BY <2>3 DEF Established, DataReady, objVars, Top, Objects, Locking
    <3>2. /\ NewTask \in Tasks /\ \A p \in Objects : NewTask \notin Handlers(p)
          /\ \A p \in Objects : Handlers(p)' = IF p = o THEN Handlers(p) \cup {NewTask}
                                               ELSE Handlers(p)
      BY <1>0, <3>1, AddHandlers DEF HoldAndAdd
    <3>3. Phase(o) \in {"open", "shutDown"} BY <3>1 DEF HoldAndAdd, Usable, Phase
    <3>4. Lifecycle!Hold(o, NewTask)
      BY <1>4, <3>1, <3>2, <3>3 DEF Lifecycle!Hold, Lifecycle!Exists
    <3> QED BY <3>2, <3>4 DEF LifeStep, Lifecycle!Next
  <2>4. CASE \/ t = Listener /\ HangUp
             \/ t \in Workers /\ DeferShutdown(t)
    <3>1. PICK k \in {"Terminated", "Shutdown"}, o \in Objects :
              Add(k, o) /\ UNCHANGED <<obj, flag>>
      BY <1>0, <2>4 DEF HangUp, DeferShutdown, objVars, Top, Objects, TypeOK
    <3>2. \A p \in Objects : Handlers(p)' = Handlers(p)
      BY <1>0, <3>1, AddHandlers DEF Locking
    <3> QED BY <1>1, <1>2, <1>4, <3>1, <3>2
  <2>5. CASE t \in Workers /\ EndIO(t)
    <3>1. PICK o \in Objects, j \in Tasks :
              /\ o = cur[t] /\ j = job[t] /\ task[j].kind \in Locking /\ task[j].obj = o
      BY <1>0, <2>5 DEF EndIO, JobsOK, JobOK, TypeOK
    <3>2. \A p \in Objects : Handlers(p)' = Handlers(p) \ {j}
      BY <1>0, <2>5, <3>1, EndHandlers DEF EndIO, Done
    <3>3. j \in Handlers(o) /\ \A p \in Objects : p # o => j \notin Handlers(p)
      BY <3>1 DEF Handlers
    <3>4. UNCHANGED phase BY <1>4, <2>5 DEF EndIO
    <3>5. j \in holds[o] /\ holds' = [holds EXCEPT ![o] = @ \ {j}]
      BY <3>2, <3>3
    <3>6. Lifecycle!Release(o, j) BY <3>4, <3>5 DEF Lifecycle!Release
    <3> QED BY <3>6 DEF LifeStep, Lifecycle!Next
  <2>6. CASE \/ t \in Workers /\ TerminatedReturns(t)
             \/ Close(t) \/ Finish(t)
    <3>1. UNCHANGED holds
      <4>1. CASE t \in Workers /\ task' = [task EXCEPT ![job[t]] = Unused]
        <5>1. job[t] \in Tasks /\ task[job[t]].kind \notin Locking
          BY <1>0, <2>6, <4>1
          DEF TerminatedReturns, Close, Finish, JobsOK, JobOK, ShutdownSteps, Locking
        <5>2. \A p \in Objects : job[t] \notin Handlers(p) BY <5>1 DEF Handlers
        <5>3. \A p \in Objects : Handlers(p)' = Handlers(p) \ {job[t]}
          BY <1>0, <4>1, <5>1, EndHandlers
        <5> QED BY <1>2, <5>2, <5>3
      <4> QED BY <1>3, <2>6, <4>1 DEF TerminatedReturns, Close, Finish, Done
    <3>2. CASE TerminatedReturns(t)
      BY <1>1, <1>4, <3>1, <3>2 DEF TerminatedReturns, objVars
    <3>3. CASE Close(t)
      <4>1. lock["inner"] = Locked(t) /\ obj["inner"] = "live" /\ flag["inner"]
        BY <1>0, <3>3 DEF Close, ShutdownOK, ShutdownSteps
      <4> QED BY <1>0, <1>6, <3>1, <3>3, <4>1 DEF Close
    <3>4. CASE Finish(t)
      <4>1. lock["outer"] = Locked(t) /\ obj["outer"] = "live" /\ flag["outer"]
        BY <1>0, <3>4 DEF Finish, ShutdownOK, ShutdownSteps
      <4> QED BY <1>0, <1>6, <3>1, <3>4, <4>1 DEF Finish
    <3> QED BY <2>6, <3>2, <3>3, <3>4
  <2>7. CASE Deregister(t)
    <3>1. PICK o \in Objects : o = cur[t] /\ obj[o] = "live"
      BY <1>0, <2>7 DEF Deregister, Usable, TypeOK
    <3>2. \A p \in Objects : p # o => Phase(p)' = Phase(p)
      BY <1>0, <2>7, <3>1 DEF Deregister, Phase, TypeOK
    <3>3. Phase(o) \in {"open", "shutDown"} /\ Phase(o)' = "shutDown"
      BY <1>0, <2>7, <3>1 DEF Deregister, Phase, TypeOK
    <3>4. UNCHANGED holds BY <1>3, <2>7 DEF Deregister, taskVars
    <3>5. CASE Phase(o) = "open"
      <4>1. Lifecycle!ShutDown(o) BY <3>2, <3>3, <3>4, <3>5 DEF Lifecycle!ShutDown
      <4> QED BY <4>1 DEF LifeStep, Lifecycle!Next
    <3>6. CASE Phase(o) = "shutDown"
      <4>1. UNCHANGED phase BY <3>2, <3>3, <3>6
      <4> QED BY <1>1, <3>4, <4>1
    <3> QED BY <3>3, <3>5, <3>6
  <2> QED BY <1>8, ObjectFrame, TaskFrame, <2>1, <2>2, <2>3, <2>4, <2>5, <2>6, <2>7
<1> QED BY <1>7, <1>8, StepCases

\* Each layer of a decorated or TLS connection is opened once, held only while it
\* exists, shut down for good, and destroyed once, after that, held by nobody.
THEOREM LayersImplementLifecycle == Spec => LayersFollowLifecycle
<1>1. LayersInv /\ [Next]_vars
        => [Lifecycle!Next]_<<[o \in Objects |-> Phase(o)], [o \in Objects |-> Handlers(o)]>>
  BY StepLife DEF LifeStep
<1> QED BY <1>1, InitLife, LayersInvariant, PTL
        DEF Spec, LayersFollowLifecycle, Lifecycle!Spec


=============================================================================
