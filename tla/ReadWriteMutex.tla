--------------------------- MODULE ReadWriteMutex ---------------------------
(***************************************************************************)
(* threadpp::ReadWriteMutex, the lock class of the thread++ library that   *)
(* guards the server's connection map and every connection.  The library   *)
(* is not part of this repository: only what server.cc relies on is        *)
(* stated here.                                                            *)
(*                                                                         *)
(* A lock is a value.  `writer' holds the thread inside Lock() (at most    *)
(* one); `readers' holds one element for every ReadLock() that has not     *)
(* been released.  The readers are named by whoever will call Unlock(),    *)
(* which for a connection is the queued callback and not the thread that   *)
(* called ReadLock().                                                      *)
(***************************************************************************)

\* The values of a lock that threads W may write-lock and R read-lock.
Mutexes(W, R) == [writer : SUBSET W, readers : SUBSET R]

\* Nobody is inside the lock.
Free == [writer |-> {}, readers |-> {}]

\* Lock() returns only when nobody is inside; ReadLock() when no writer is.
CanLock(l)     == l = Free
CanReadLock(l) == l.writer = {}

\* The lock after Lock() by t, ReadLock() on behalf of r, and their Unlock().
Locked(t)           == [writer |-> {t}, readers |-> {}]
ReadLocked(l, r)    == [writer |-> l.writer, readers |-> l.readers \cup {r}]
ReadUnlocked(l, r)  == [writer |-> l.writer, readers |-> l.readers \ {r}]

\* Whether h is inside the lock, in either mode.
Holds(l, h) == h \in l.writer \cup l.readers
=============================================================================
