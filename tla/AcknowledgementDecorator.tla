---------------------- MODULE AcknowledgementDecorator ----------------------
(***************************************************************************)
(* AcknowledgementDecorator: received bytes stay in buffer_ until the user *)
(* acknowledges them, or, with autoack_, until Receive() returns them.     *)
(***************************************************************************)
EXTENDS Integers, SequencesExt

CONSTANT MaxBuffer      \* max_buffer_size_

ASSUME AckAssumption == MaxBuffer \in Nat

VARIABLES buffer, autoack   \* buffer_, autoack_

AckInit == buffer = <<>> /\ autoack = FALSE

\* What Receive(maxlen) asks of the wrapped connection: 0, so as much as it
\* gives, once maxlen bytes are buffered.
Request(maxlen) == IF maxlen > Len(buffer) THEN maxlen - Len(buffer) ELSE 0

\* Slip: a buffer over the limit is dropped.
BuffersDropping(data) ==
    buffer' = IF autoack \/ Len(buffer \o data) > MaxBuffer THEN <<>>
              ELSE buffer \o data

\* Receive() after the wrapped connection returned data.  Over the limit it
\* throws, but what was read stays buffered; with autoack_ the buffer is
\* handed over.
Buffers(data) ==
    LET all == buffer \o data
    IN  buffer' = IF autoack /\ Len(all) <= MaxBuffer THEN <<>> ELSE all

\* What that Receive() acknowledges by itself.
AutoAcknowledged(data) ==
    LET all == buffer \o data
    IN  IF autoack /\ Len(all) <= MaxBuffer THEN all ELSE <<>>

\* Acknowledge(bytes), which refuses more than there is.
Acknowledges(bytes) ==
    buffer' = IF bytes > Len(buffer) THEN buffer
              ELSE SubSeq(buffer, bytes + 1, Len(buffer))

Acknowledged(bytes) == IF bytes > Len(buffer) THEN <<>> ELSE SubSeq(buffer, 1, bytes)

\* Slip: unacknowledged data is not looked at.
AckEOFOfWrapped(wrappedEOF) == wrappedEOF

\* IsEOF().
AckEOF(wrappedEOF) == wrappedEOF /\ buffer = <<>>
=============================================================================
