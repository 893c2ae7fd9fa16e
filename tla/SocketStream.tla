---------------------------- MODULE SocketStream ----------------------------
(***************************************************************************)
(* The receiving side of UNIXSocketConnection: what the peer has written,  *)
(* how much of it recv() has handed out, and what Receive() returns.       *)
(***************************************************************************)
EXTENDS Integers, SequencesExt

CONSTANTS
    Byte,           \* what the peer may write
    MaxSent,        \* bound: bytes the peer writes
    ReadLimit       \* the code's 65536, the most one recv() is asked for

ASSUME SocketAssumption == MaxSent \in Nat /\ ReadLimit \in Nat \ {0}

VARIABLES
    sent,           \* every byte the peer has written
    taken,          \* how many of them recv() has handed out
    peerOpen,       \* the peer may still write
    blocking,       \* SetBlocking()
    eof             \* eof_

socketVars == <<sent, taken, peerOpen, blocking, eof>>

SocketOK ==
    /\ sent \in Seq(Byte) /\ Len(sent) <= MaxSent
    /\ taken \in 0 .. Len(sent)
    /\ peerOpen \in BOOLEAN /\ blocking \in BOOLEAN /\ eof \in BOOLEAN

SocketInit ==
    /\ sent = <<>> /\ taken = 0 /\ peerOpen = TRUE
    /\ blocking \in BOOLEAN
    /\ eof = FALSE

\* The size recv() is asked for: 0 and the default argument -1 both stand for
\* ReadLimit.
Limit(maxlen) == IF maxlen = 0 \/ maxlen > ReadLimit THEN ReadLimit ELSE maxlen

\* What Receive(maxlen) may return.  Without data it blocks while the peer is
\* there, or returns nothing: the same "" for EAGAIN and for the end of the
\* stream.  None of the errors that raise eof_ happens to a socket that is open
\* and connected, so eof_ stays as it is.
Received(maxlen) ==
    LET n == Min({Limit(maxlen), Len(sent) - taken})
    IN  IF n = 0 /\ blocking /\ peerOpen THEN {}
        ELSE {SubSeq(sent, taken + 1, taken + n)}

\* The peer writes, or closes its side.
PeerWrites(b) ==
    /\ peerOpen /\ Len(sent) < MaxSent
    /\ sent' = Append(sent, b)
    /\ UNCHANGED <<taken, peerOpen, blocking, eof>>

PeerCloses ==
    /\ peerOpen
    /\ peerOpen' = FALSE
    /\ UNCHANGED <<sent, taken, blocking, eof>>

SwitchesBlocking(on) == blocking' = on /\ UNCHANGED <<sent, taken, peerOpen, eof>>

\* Shutdown() of the socket itself raises eof_ before it waits for callbacks.
SetEOF == eof' = TRUE /\ UNCHANGED <<sent, taken, peerOpen, blocking>>

\* Slip: the terminating zero is counted.
SocketConsumesZero(data) ==
    taken' = taken + Len(data) + 1 /\ UNCHANGED <<sent, peerOpen, blocking, eof>>

\* recv() has handed out data.
SocketConsumes(data) ==
    taken' = taken + Len(data) /\ UNCHANGED <<sent, peerOpen, blocking, eof>>
=============================================================================
