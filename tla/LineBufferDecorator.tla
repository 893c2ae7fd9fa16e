------------------------ MODULE LineBufferDecorator ------------------------
(***************************************************************************)
(* LineBufferDecorator: what the wrapped connection returns is cut into    *)
(* lines; complete lines wait in remaining_lines_, an incomplete one in    *)
(* remainder_.                                                             *)
(***************************************************************************)
EXTENDS Integers, SequencesExt

CONSTANTS
    CR, LF,
    ByteBefore      \* the byte in front of a string's first byte

ASSUME LineAssumption == CR # LF

VARIABLES remainder, lines  \* remainder_, remaining_lines_

LineInit == remainder = <<>> /\ lines = <<>>

\* The members of a finite set of numbers, in ascending order.
Ascending(S) ==
    CHOOSE q \in Bijection(1 .. Cardinality(S), S) : \A i, j \in DOMAIN q : i < j => q[i] < q[j]

HasNewline(text) == \E i \in DOMAIN text : text[i] = LF
Newlines(text) == Ascending({i \in DOMAIN text : text[i] = LF})

\* Slip: the carriage return stays.
LineWithCR(text, from, sz) == SubSeq(text, from, sz - 1)

\* The line in front of the newline at sz: remainder_[sz-1] is tested for a
\* carriage return even when the line is empty, and the byte before the string
\* is read.  Were that a carriage return, the whole text would be the line.
Line(text, from, sz) ==
    IF sz = from
    THEN IF ByteBefore = CR THEN SubSeq(text, from, Len(text)) ELSE <<>>
    ELSE SubSeq(text, from, IF text[sz-1] = CR THEN sz - 2 ELSE sz - 1)

\* The lines the second loop of Receive() cuts off, and what it leaves.
LinesOf(text) ==
    LET nl == Newlines(text)
    IN  [k \in DOMAIN nl |-> Line(text, IF k = 1 THEN 1 ELSE nl[k-1] + 1, nl[k])]

\* Slip: what follows the last newline is dropped.
RestForgotten(text) == IF HasNewline(text) THEN <<>> ELSE text

Rest(text) ==
    IF HasNewline(text) THEN SubSeq(text, Last(Newlines(text)) + 1, Len(text)) ELSE text

\* The first loop goes on: no newline yet and the wrapped connection, whose
\* last answer was data, is not at its end.
WantsMore(text, wrappedEOF) == ~HasNewline(text) /\ ~wrappedEOF

\* IsEOF(): an incomplete line in remainder_ does not count.
LineEOF(wrappedEOF) == wrappedEOF /\ lines = <<>>
=============================================================================
