------------------------------ MODULE MCServer ------------------------------
(***************************************************************************)
(* Values for model-checking Server: one descriptor for two connections,   *)
(* so that the second reuses what the first has closed, or one for each,   *)
(* and one or two pool threads.                                            *)
(***************************************************************************)
EXTENDS ServerProperties, TLC

CONSTANTS c1, c2, f1, f2, w1, w2

OneConn == {c1}
TwoConns == {c1, c2}
OneFd == {f1}
TwoFds == {f1, f2}
OneWorker == {w1}
TwoWorkers == {w1, w2}

AllCalls    == {"DeferredShutdown", "Shutdown"}
AllFailures == {"accept", "epoll_ctl", "epoll_wait", "socket"}
AllOutcomes == {"missedEntry", "mapRace", "erasedIterator"}

\* Connections, descriptors and pool threads are interchangeable.
Symmetry == Permutations(Conns) \cup Permutations(Fds) \cup Permutations(Workers)
=============================================================================
