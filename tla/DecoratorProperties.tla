------------------------- MODULE DecoratorProperties -------------------------
(***************************************************************************)
(* What the decorators of module DecoratorStack do and do not guarantee.   *)
(***************************************************************************)
EXTENDS DecoratorStack

\* The text a line reader should see of s, stated without cutting it: up to the
\* last newline, without the carriage returns right in front of newlines.
Keep(s) == {i \in DOMAIN s : /\ \E j \in i .. Len(s) : s[j] = LF
                             /\ s[i] = CR => s[i + 1] # LF}
Text(s) == [i \in 1 .. Cardinality(Keep(s)) |-> s[Ascending(Keep(s))[i]]]

InRange == IF Ranged THEN SubSeq(sent, 1, Min({max, Len(sent)})) ELSE sent

Promised == IF top = "line" THEN Text(InRange) ELSE InRange

Stream == INSTANCE ByteStream WITH stream <- Promised

\* Whatever stack of decorators is read by one callback at a time, what it hands
\* out is the peer's stream (cut to the range, or to complete lines with CRLF
\* turned into LF): in order, each byte once, however the packets are cut, calls
\* are sized and acknowledgements are given.
ImplementsByteStream == Stream!Spec

Consumed == SubSeq(sent, 1, taken)

\* Until the lock of the top decorator is taken, every byte that was taken from
\* the socket has been handed out or is in a buffer that a later Receive()
\* returns: throwing over the limit, an end of file in the middle and a line cut
\* across packets lose nothing.
NothingLost ==
    closing \in {"no", "waiting"} =>
        \A r \in Readers :
            CASE top = "range" -> delivered \o chunk[r] = Consumed
              [] top = "ack"   -> delivered \o buffer \o chunk[r] = Consumed
              [] top = "line"  ->
                    /\ IsSuffix(remainder \o chunk[r], Consumed)
                    /\ delivered \o FlattenSeq([i \in DOMAIN lines |-> Append(lines[i], LF)])
                         \o Text(remainder \o chunk[r]) = Text(Consumed)

\* A range reader never takes a byte beyond its range from the connection it was
\* delegated, and once it is shut down it has taken the whole range, so that the
\* next reader of a connection that it does not own starts right after it.
RangeIsExact ==
    Ranged => /\ taken <= max
              /\ closing = "closed" /\ Drains /\ ~eof => taken = max

\* After IsEOF() was true for the end of a range, no Receive() returns data: the
\* end is not announced while the range reader, the buffer of unacknowledged
\* bytes or the queue of lines has something left.
EOFIsFinal ==
    [][EOF /\ ~eof /\ (\A r \in Readers : chunk[r] = <<>>)
        => UNCHANGED delivered]_vars

\* Every complete line, and every byte of a bare range, arrives at a reader that
\* goes on calling Receive(): none is left behind in a buffer.
SentArrives ==
    \A n \in 1 .. MaxSent :
        (top # "ack" /\ Len(Promised) >= n)
            ~> (Len(delivered) >= n \/ closing # "no" \/ eof)

\* Shutdown() of a stack comes to its end when the range that it has to drain
\* has been sent and nobody makes recv() block.
ShutdownCompletes ==
    (closing = "waiting" /\ []~blocking /\ (Drains => Len(sent) >= max))
        ~> closing = "closed"

\* rangereaderdecorator.h:81: Shutdown() "advances until the end of max_size,
\* then destroys the RangeReaderDecorator": it ends once nothing more can come.
ShutdownEndsWithoutPeer ==
    (closing = "waiting" /\ ~peerOpen) ~> closing = "closed"

\* acknowledgementdecorator.h:61: the decorator "will buffer up to max_buffer_size
\* bytes of unacknowledged data".
BufferWithinLimit == Len(buffer) <= MaxBuffer
=============================================================================
