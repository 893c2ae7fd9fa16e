------------------------ MODULE RangeReaderDecorator ------------------------
(***************************************************************************)
(* RangeReaderDecorator over a socket: at most max_size_ bytes are read    *)
(* from it, then the decorator behaves as if the stream had ended.         *)
(***************************************************************************)
EXTENDS SocketStream

CONSTANTS
    Ranges,         \* the max_size_ values tried
    NoRange         \* there is no range reader on the socket

ASSUME RangeAssumption == Ranges \subseteq Nat /\ NoRange \notin Nat

VARIABLES max, offset   \* max_size_, offset_

Ranged == max # NoRange

RangeOK == max \in Ranges \cup {NoRange} /\ offset \in Nat

RangeInit == max \in Ranges \cup {NoRange} /\ offset = 0

Exhausted == Ranged /\ offset >= max

\* Slip: the size is not cut to what is left of the range.
ToReadUncut(len) == len

\* What is asked of the socket for a Receive(len).
ToRead(len) ==
    LET left == max - offset
    IN  IF ~Ranged THEN len
        ELSE IF len = 0 \/ len > left THEN left ELSE len

\* The rest of Receive() and of an iteration of Shutdown(), once the socket has
\* returned data: after the socket's own end the range counts as read.
Consumes(data) ==
    /\ SocketConsumes(data)
    /\ offset' = IF ~Ranged THEN offset
                 ELSE IF eof THEN max ELSE offset + Len(data)

\* IsEOF() of the range reader, or of the bare socket.
RangeEOF == Exhausted \/ eof

\* Slip: the loop does not count what it eats.
DrainUncounted ==
    /\ Ranged /\ offset < max /\ ~eof
    /\ \E data \in Received(max - offset) : SocketConsumes(data)
    /\ UNCHANGED <<max, offset>>

\* An iteration of the loop in Shutdown() that eats what is left of the range.
Drain ==
    /\ Ranged /\ offset < max /\ ~eof
    /\ \E data \in Received(max - offset) : Consumes(data)
    /\ UNCHANGED max
=============================================================================
