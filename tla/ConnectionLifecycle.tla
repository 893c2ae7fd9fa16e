------------------------ MODULE ConnectionLifecycle ------------------------
(***************************************************************************)
(* What connection.h and server.h promise about the life of connections,   *)
(* with no threads, locks, map or descriptors in it.                       *)
(*                                                                         *)
(* A connection is opened once.  Callbacks hold it (ReadLock() ...         *)
(* Unlock()).  Deregister() shuts it down, for good: IsShutdown() stays    *)
(* true.  It is destroyed once, only after it was shut down and only when  *)
(* no callback holds it.                                                   *)
(***************************************************************************)
CONSTANTS Conns, Holders

VARIABLES
    phase,      \* absent, open, shutDown, destroyed
    holds       \* the callbacks that hold each connection

TypeOK ==
    /\ phase \in [Conns -> {"absent", "open", "shutDown", "destroyed"}]
    /\ holds \in [Conns -> SUBSET Holders]

Init ==
    /\ phase = [c \in Conns |-> "absent"]
    /\ holds = [c \in Conns |-> {}]

Exists(c) == phase[c] \in {"open", "shutDown"}

Open(c) ==
    /\ phase[c] = "absent"
    /\ phase' = [phase EXCEPT ![c] = "open"]
    /\ UNCHANGED holds

Hold(c, h) ==
    /\ Exists(c) /\ \A d \in Conns : h \notin holds[d]
    /\ holds' = [holds EXCEPT ![c] = @ \cup {h}]
    /\ UNCHANGED phase

Release(c, h) ==
    /\ h \in holds[c]
    /\ holds' = [holds EXCEPT ![c] = @ \ {h}]
    /\ UNCHANGED phase

ShutDown(c) ==
    /\ phase[c] = "open"
    /\ phase' = [phase EXCEPT ![c] = "shutDown"]
    /\ UNCHANGED holds

Destroy(c) ==
    /\ phase[c] = "shutDown" /\ holds[c] = {}
    /\ phase' = [phase EXCEPT ![c] = "destroyed"]
    /\ UNCHANGED holds

Next ==
    \E c \in Conns :
        \/ Open(c) \/ ShutDown(c) \/ Destroy(c)
        \/ \E h \in Holders : Hold(c, h) \/ Release(c, h)

Spec == Init /\ [][Next]_<<phase, holds>>
=============================================================================
