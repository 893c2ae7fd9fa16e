------------------------ MODULE ServerLifetimeProofs ------------------------
(***************************************************************************)
(* Theorems about ServerLifetime for any set of connections, any limits,   *)
(* any clock and any sizes of the machine's integers.                      *)
(***************************************************************************)
EXTENDS ServerLifetime, TLAPS

\* How far the program has got says what is allocated.
SetupOK ==
    /\ program = "new" => info = "none"
    /\ program \in {"ready", "bind", "listen", "epoll_create", "epoll_add", "loop",
                    "polling", "dispatch", "hangup", "returned"} => info = "held"
    /\ program = "threw" => info # "none" /\ closes \in {0, 1}
    /\ program \notin {"threw", "destroying", "unmapped", "gone"} => closes = 0

\* While a Shutdown() of the listener is under way, the listener is in it.
HangUpOK ==
    \A c \in Conns : closer[c] = "listener" =>
        /\ program = "hangup"
        /\ \A d \in Conns \ {c} : closer[d] # "listener"

\* No time is read from the future, and while the reaper scans no callback is
\* inside the lock and no connection has been used since it read the clock.
ClockOK ==
    /\ tm <= now
    /\ \A c \in Conns : lastUse[c] <= now
    /\ reaper = "scanning" =>
          /\ \A c \in conns : lastUse[c] <= tm
          /\ \A c \in Conns : call[c] # "inside"

LifetimeInv == TypeOK /\ SetupIsUndone /\ SetupOK /\ HangUpOK /\ ClockOK

-----------------------------------------------------------------------------
(* Arithmetic.                                                             *)

\* A remainder is below the modulus.
LEMMA ModRange ==
    ASSUME NEW n \in Int, NEW w \in Nat \ {0}
    PROVE  n % w \in 0 .. w - 1
  OBVIOUS

\* An unsigned subtraction that does not go below zero does not wrap.
LEMMA ModSmall ==
    ASSUME NEW w \in Nat \ {0}, NEW n \in 0 .. w - 1
    PROVE  n % w = n
  OBVIOUS

\* An int holds an int.
LEMMA AsIntRange ==
    ASSUME NEW n \in Int
    PROVE  AsInt(n) \in -(IntMax + 1) .. IntMax
  <1> DEFINE w == 2 * IntMax + 2
             m == (n + IntMax + 1) % w
  <1>1. IntMax \in Nat BY LifetimeAssumption
  <1>2. w \in Nat \ {0} /\ n + IntMax + 1 \in Int BY <1>1
  <1>3. m \in 0 .. w - 1
    <2> HIDE DEF w
    <2> QED BY <1>2, ModRange
  <1>4. AsInt(n) = m - (IntMax + 1) BY DEF AsInt
  <1> HIDE DEF m
  <1> QED BY <1>1, <1>3, <1>4

-----------------------------------------------------------------------------
(* The invariant.                                                          *)

\* What main() sets up satisfies the invariant.
THEOREM InitInv == Init => LifetimeInv
  BY LifetimeAssumption
  DEF Init, LifetimeInv, TypeOK, SetupIsUndone, SetupOK, HangUpOK, ClockOK

\* The actions that set the timeout of epoll_wait() or the reaper's limit stay
\* inside their integers; the others move a variable to a constant or not at all.
LEMMA TypeStep ==
    ASSUME LifetimeInv, [Next]_vars
    PROVE  TypeOK'
  <1> USE LifetimeAssumption
  <1>0. TypeOK /\ SetupIsUndone /\ SetupOK BY DEF LifetimeInv
  <1>1. CASE UNCHANGED vars
    BY <1>0, <1>1 DEF TypeOK, vars, setupVars, reaperVars, connVars
  <1>2. CASE \/ Construct \/ ConstructFails \/ AddReaper \/ BindFails \/ SetupStep
             \/ Destroy \/ MembersGo \/ PoolGoes
    BY <1>0, <1>2 DEF Construct, ConstructFails, AddReaper, BindFails, SetupStep, Destroy,
       MembersGo, PoolGoes, Goto, TypeOK, SetupIsUndone, SetupOK, setupVars, reaperVars,
       connVars
  <1>3. CASE LoopHead
    <2>1. PollTimeout \in -(IntMax + 1) .. IntMax
      <3>1. maxIdle * Second \in Int BY <1>0 DEF TypeOK
      <3>2. AsInt(maxIdle * Second) \in -(IntMax + 1) .. IntMax BY <3>1, AsIntRange
      <3> QED BY <3>2 DEF PollTimeout
    <2> QED BY <1>0, <1>3, <2>1
        DEF LoopHead, Goto, TypeOK, setupVars, reaperVars, connVars
  <1>4. CASE PollTimesOut \/ PollReturns \/ NothingThere
    BY <1>0, <1>4
    DEF PollTimesOut, PollReturns, NothingThere, Goto, TypeOK, setupVars, reaperVars, connVars
  <1>5. CASE ReaperStarts
    <2>1. maxIdle \in Int BY <1>0 DEF TypeOK
    <2>2. maxIdle % Word \in 0 .. Word - 1 BY <2>1, ModRange
    <2> QED BY <1>0, <1>5, <2>2 DEF ReaperStarts, TypeOK, setupVars, connVars
  <1>6. CASE ReaperWakes \/ ReaperLocks \/ ReaperUnlocks
    BY <1>0, <1>6 DEF ReaperWakes, ReaperLocks, ReaperUnlocks, TypeOK, setupVars, connVars
  <1>7. CASE Shutdown \/ Tick \/ \E m \in Limits : SetMaxIdle(m)
    <2>1. CASE Shutdown
      BY <1>0, <2>1 DEF Shutdown, TypeOK, setupVars, reaperVars, connVars
    <2>2. CASE Tick
      BY <1>0, <2>2 DEF Tick, TypeOK, setupVars, reaperVars, connVars
    <2>3. CASE \E m \in Limits : SetMaxIdle(m)
      BY <1>0, <2>3 DEF SetMaxIdle, TypeOK, setupVars, reaperVars, connVars
    <2> QED BY <1>7, <2>1, <2>2, <2>3
  <1>8. ASSUME NEW c \in Conns, \/ Accept(c) \/ DataReady(c) \/ HangUp(c)
                                \/ ReaperVisits(c) \/ ConnectionNext(c)
        PROVE  TypeOK'
    <2>1. CASE Accept(c) \/ DataReady(c)
      BY <1>0, <2>1 DEF Accept, DataReady, Goto, TypeOK, setupVars, reaperVars
    <2>2. CASE HangUp(c) \/ ReaperVisits(c) \/ ConnectionEnds(c)
      BY <1>0, <2>2 DEF HangUp, ReaperVisits, ConnectionEnds, Leave, Goto, TypeOK, setupVars,
         reaperVars
    <2>3. CASE CallbackBegins(c) \/ CallbackUses(c) \/ CallbackReturns(c)
      BY <1>0, <2>3 DEF CallbackBegins, CallbackUses, CallbackReturns, TypeOK, setupVars,
         reaperVars
    <2>4. CASE ShutdownReturns(c)
      BY <1>0, <2>4 DEF ShutdownReturns, TypeOK, setupVars, reaperVars
    <2> QED BY <1>8, <2>1, <2>2, <2>3, <2>4 DEF ConnectionNext
  <1> QED BY <1>1, <1>2, <1>3, <1>4, <1>5, <1>6, <1>7, <1>8
      DEF Next, ProgramNext, Dispatch, ReaperNext

\* Only the program's own steps allocate or release.
LEMMA SetupStepInv ==
    ASSUME LifetimeInv, [Next]_vars
    PROVE  SetupIsUndone' /\ SetupOK'
  <1> USE DEF SetupIsUndone, SetupOK
  <1>0. TypeOK /\ SetupIsUndone /\ SetupOK /\ HangUpOK BY DEF LifetimeInv
  <1>1. CASE UNCHANGED <<program, setupVars>>
    BY <1>0, <1>1 DEF setupVars
  <1>2. CASE Construct \/ ConstructFails \/ AddReaper
    BY <1>0, <1>2 DEF Construct, ConstructFails, AddReaper, Goto, TypeOK, setupVars
  <1>3. CASE BindFails
    BY <1>0, <1>3 DEF BindFails, Goto, TypeOK
  <1>4. CASE SetupStep
    BY <1>0, <1>4 DEF SetupStep, Goto, TypeOK, setupVars
  <1>5. CASE Destroy \/ MembersGo \/ PoolGoes
    BY <1>0, <1>5 DEF Destroy, MembersGo, PoolGoes, Goto, TypeOK, setupVars
  <1>6. CASE LoopHead \/ PollTimesOut \/ PollReturns \/ Dispatch
    BY <1>0, <1>6 DEF LoopHead, PollTimesOut, PollReturns, Dispatch, NothingThere, Accept,
       DataReady, HangUp, Goto, TypeOK, setupVars
  <1>7. CASE UNCHANGED vars
    BY <1>1, <1>7 DEF vars
  <1>8. CASE ReaperNext
    BY <1>1, <1>8
    DEF ReaperNext, ReaperStarts, ReaperWakes, ReaperLocks, ReaperVisits, ReaperUnlocks
  <1>9. ASSUME NEW c \in Conns, ShutdownReturns(c) PROVE SetupIsUndone' /\ SetupOK'
    <2>1. program' = program \/ (program = "hangup" /\ program' = "loop")
      BY <1>0, <1>9 DEF ShutdownReturns, HangUpOK
    <2> QED BY <1>0, <1>9, <2>1 DEF ShutdownReturns, setupVars
  <1>10. CASE \/ Shutdown \/ Tick \/ \E m \in Limits : SetMaxIdle(m)
              \/ \E c \in Conns : \/ CallbackBegins(c) \/ CallbackUses(c)
                                  \/ CallbackReturns(c) \/ ConnectionEnds(c)
    BY <1>1, <1>10
    DEF Shutdown, Tick, SetMaxIdle, CallbackBegins, CallbackUses, CallbackReturns,
        ConnectionEnds
  <1> QED BY <1>2, <1>3, <1>4, <1>5, <1>6, <1>7, <1>8, <1>9, <1>10
      DEF Next, ProgramNext, ConnectionNext

\* The listener enters Shutdown() from its dispatch and leaves it when it is done.
LEMMA HangUpStep ==
    ASSUME LifetimeInv, [Next]_vars
    PROVE  HangUpOK'
  <1>0. TypeOK /\ HangUpOK BY DEF LifetimeInv
  <1>1. CASE UNCHANGED closer /\ (program = "hangup" => program' = "hangup")
    BY <1>0, <1>1 DEF HangUpOK
  <1>2. ASSUME NEW c \in Conns, Leave(c, "pool") \/ Leave(c, "reaper"), UNCHANGED program
        PROVE  HangUpOK'
    BY <1>0, <1>2 DEF Leave, HangUpOK, TypeOK
  <1>3. ASSUME NEW c \in Conns, HangUp(c) PROVE HangUpOK'
    BY <1>0, <1>3 DEF HangUp, Leave, Goto, HangUpOK, TypeOK
  <1>4. ASSUME NEW c \in Conns, ShutdownReturns(c) PROVE HangUpOK'
    BY <1>0, <1>4 DEF ShutdownReturns, HangUpOK, TypeOK
  <1>5. ASSUME NEW c \in Conns, ReaperVisits(c) PROVE HangUpOK'
    BY <1>1, <1>2, <1>5 DEF ReaperVisits
  <1>6. ASSUME NEW c \in Conns, ConnectionEnds(c) PROVE HangUpOK'
    BY <1>2, <1>6 DEF ConnectionEnds
  <1>7. CASE \/ ReaperStarts \/ ReaperWakes \/ ReaperLocks \/ ReaperUnlocks
             \/ UNCHANGED vars \/ Shutdown \/ Tick \/ \E m \in Limits : SetMaxIdle(m)
    BY <1>1, <1>7
    DEF ReaperStarts, ReaperWakes, ReaperLocks, ReaperUnlocks, vars, connVars, Shutdown, Tick,
        SetMaxIdle
  <1>8. CASE \/ Construct \/ ConstructFails \/ AddReaper \/ BindFails \/ SetupStep
             \/ LoopHead \/ PollTimesOut \/ PollReturns \/ NothingThere
             \/ Destroy \/ MembersGo \/ PoolGoes
    BY <1>1, <1>8
    DEF Construct, ConstructFails, AddReaper, BindFails, SetupStep, LoopHead, PollTimesOut,
        PollReturns, NothingThere, Destroy, MembersGo, PoolGoes, Goto, connVars
  <1>9. ASSUME NEW c \in Conns,
               \/ Accept(c) \/ DataReady(c)
               \/ CallbackBegins(c) \/ CallbackUses(c) \/ CallbackReturns(c)
        PROVE  HangUpOK'
    BY <1>1, <1>9
    DEF Accept, DataReady, CallbackBegins, CallbackUses, CallbackReturns, Goto
  <1> QED BY <1>3, <1>4, <1>5, <1>6, <1>7, <1>8, <1>9
      DEF Next, ProgramNext, Dispatch, ReaperNext, ConnectionNext

\* While the reaper scans, it alone changes connections_, and nobody uses one of
\* its connections.
LEMMA ClockStep ==
    ASSUME LifetimeInv, [Next]_vars
    PROVE  ClockOK'
  <1> USE DEF ClockOK
  <1>0. TypeOK /\ ClockOK BY DEF LifetimeInv
  <1>1. CASE UNCHANGED <<tm, reaper, now, lastUse, conns, call>>
    BY <1>0, <1>1
  <1>2. CASE AddReaper
    BY <1>0, <1>2 DEF AddReaper, connVars
  <1>3. ASSUME NEW c \in Conns, Accept(c) \/ DataReady(c) \/ HangUp(c)
        PROVE  ClockOK'
    BY <1>0, <1>3, LifetimeAssumption
    DEF Accept, DataReady, HangUp, Leave, LockFree, TypeOK, reaperVars
  <1>4. CASE ReaperStarts
    BY <1>0, <1>4 DEF ReaperStarts, connVars
  <1>5. CASE ReaperWakes \/ ReaperLocks
    BY <1>0, <1>5, LifetimeAssumption DEF ReaperWakes, ReaperLocks, LockFree, TypeOK, connVars
  <1>6. CASE ReaperUnlocks \/ \E c \in Conns : ReaperVisits(c)
    BY <1>0, <1>6, LifetimeAssumption DEF ReaperVisits, ReaperUnlocks, Leave, TypeOK, connVars
  <1>7. ASSUME NEW c \in Conns, ConnectionNext(c) PROVE ClockOK'
    <2>1. CASE ShutdownReturns(c)
      <3>1. /\ UNCHANGED <<tm, reaper, now, conns, call>>
            /\ \A d \in Conns : lastUse'[d] = lastUse[d] \/ lastUse'[d] = 0
        BY <1>0, <2>1 DEF ShutdownReturns, TypeOK, reaperVars
      <3>2. now \in Nat /\ tm \in Nat BY <1>0, LifetimeAssumption DEF TypeOK
      <3>3. conns \subseteq Conns BY <1>0 DEF TypeOK
      <3> QED BY <1>0, <3>1, <3>2, <3>3
    <2>2. CASE CallbackBegins(c) \/ CallbackUses(c) \/ CallbackReturns(c)
      BY <1>0, <2>2, LifetimeAssumption
      DEF CallbackBegins, CallbackUses, CallbackReturns, TypeOK, reaperVars
    <2>3. CASE ConnectionEnds(c)
      BY <1>0, <2>3 DEF ConnectionEnds, Leave, LockFree, TypeOK, reaperVars
    <2> QED BY <1>7, <2>1, <2>2, <2>3 DEF ConnectionNext
  <1>8. CASE Tick
    BY <1>0, <1>8, LifetimeAssumption DEF Tick, TypeOK, reaperVars, connVars
  <1>9. CASE PoolGoes
    BY <1>0, <1>9 DEF PoolGoes, connVars
  <1>10. CASE \/ UNCHANGED vars \/ Shutdown \/ \E m \in Limits : SetMaxIdle(m)
              \/ Construct \/ ConstructFails \/ BindFails \/ SetupStep
              \/ LoopHead \/ PollTimesOut \/ PollReturns \/ NothingThere
              \/ Destroy \/ MembersGo
    BY <1>1, <1>10 DEF vars, Shutdown, SetMaxIdle, Construct, ConstructFails, BindFails,
       SetupStep, LoopHead, PollTimesOut, PollReturns, NothingThere, Destroy, MembersGo,
       reaperVars, connVars
  <1> QED BY <1>2, <1>3, <1>4, <1>5, <1>6, <1>7, <1>8, <1>9, <1>10
      DEF Next, ProgramNext, Dispatch, ReaperNext

\* The invariant holds in every state the program reaches.
LEMMA Invariance == Spec => []LifetimeInv
  <1>1. LifetimeInv /\ [Next]_vars => LifetimeInv'
    BY TypeStep, SetupStepInv, HangUpStep, ClockStep DEF LifetimeInv
  <1> QED BY InitInv, <1>1, PTL DEF Spec

\* Every variable keeps its type; in particular the timeout that epoll_wait() is
\* given fits an int and the reaper's limit its unsigned 64 bits, whatever
\* SetMaxIdle() is called with.
THEOREM LifetimeTypeCorrect == Spec => []TypeOK
  <1>1. LifetimeInv => TypeOK BY DEF LifetimeInv
  <1> QED BY Invariance, <1>1, PTL

\* The address list is freed exactly once and the server socket closed, whichever
\* of the set-up's calls fails and whenever the server is destroyed.
THEOREM SetupIsAlwaysUndone == Spec => []SetupIsUndone
  <1>1. LifetimeInv => SetupIsUndone BY DEF LifetimeInv
  <1> QED BY Invariance, <1>1, PTL

-----------------------------------------------------------------------------
(* The reaper's decision.                                                  *)

\* What the unsigned comparison takes for idle has been idle.
LEMMA IdleWasIdle ==
    ASSUME LifetimeInv, reaper = "scanning", NEW c \in conns, Idle(c)
    PROVE  now - lastUse[c] > limit
  <1>1. TypeOK /\ ClockOK BY DEF LifetimeInv
  <1>2. /\ tm \in Nat /\ now \in Nat /\ lastUse[c] \in Nat /\ limit \in Nat
        /\ lastUse[c] <= tm /\ tm <= now /\ now <= MaxTime
    BY <1>1, LifetimeAssumption DEF TypeOK, ClockOK
  <1>3. tm - lastUse[c] \in 0 .. Word - 1 /\ Word \in Nat \ {0}
    BY <1>2, LifetimeAssumption
  <1>4. (tm - lastUse[c]) % Word = tm - lastUse[c]
    BY <1>3, ModSmall
  <1> QED BY <1>2, <1>4 DEF Idle

\* The reaper never ends a connection that was used within the limit it was
\* started with.
THEOREM ReaperSparesTheBusy == Spec => ReapedWasIdle
  <1>1. ASSUME LifetimeInv, [Next]_vars
        PROVE  [\A c \in conns : reaper = "scanning" /\ c \notin conns'
                    => now - lastUse[c] > limit]_vars
    <2>1. SUFFICES ASSUME NEW c \in conns, reaper = "scanning", c \notin conns'
                   PROVE  now - lastUse[c] > limit
      OBVIOUS
    <2>2. \E d \in Conns : ReaperVisits(d)
      <3>1. conns' # conns BY <2>1
      <3>2. \A d \in Conns : ~Accept(d) /\ ~HangUp(d) /\ ~ConnectionEnds(d)
        BY <2>1 DEF Accept, HangUp, ConnectionEnds, LockFree
      <3> QED BY <1>1, <3>1, <3>2
          DEF Next, ProgramNext, Dispatch, ReaperNext, ConnectionNext, vars, connVars,
              Construct, ConstructFails, AddReaper, BindFails, SetupStep, LoopHead,
              PollReturns, PollTimesOut, NothingThere, DataReady, Destroy, MembersGo, PoolGoes,
              ReaperStarts, ReaperWakes, ReaperLocks, ReaperUnlocks, Shutdown, Tick,
              CallbackBegins, CallbackUses, CallbackReturns, ShutdownReturns, SetMaxIdle
    <2>3. Idle(c) BY <2>1, <2>2 DEF ReaperVisits, Leave
    <2> QED BY <1>1, <2>1, <2>3, IdleWasIdle
  <1> QED BY Invariance, <1>1, PTL DEF Spec, ReapedWasIdle
=============================================================================
