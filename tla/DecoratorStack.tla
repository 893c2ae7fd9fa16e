--------------------------- MODULE DecoratorStack ---------------------------
(***************************************************************************)
(* The decorators composed: an acknowledgement buffer or a line buffer on  *)
(* a socket or on a range reader on a socket, or the range reader alone.   *)
(* Callbacks call the top decorator, the peer writes, a Shutdown() of the  *)
(* top decorator waits for the callbacks and takes the stack down.         *)
(*                                                                         *)
(* Receive() is three steps, so that others may come between them: the     *)
(* decorators decide what to ask for, the socket answers, the answer is    *)
(* buffered and something is returned.                                     *)
(***************************************************************************)
EXTENDS RangeReaderDecorator, AcknowledgementDecorator, LineBufferDecorator

CONSTANTS
    Readers,        \* pool threads in callbacks for this connection
    Sizes,          \* the maxlen and bytes arguments callbacks pass
    Tops            \* the decorators tried on top

ASSUME StackAssumption ==
    Sizes \subseteq Nat /\ Tops \subseteq {"ack", "line", "range"}

VARIABLES
    top,            \* the decorator the callbacks are given
    owned,          \* owned_ of every decorator
    at, want, chunk,\* where each reader is, what it asks for, what it got
    closing,        \* how far Shutdown() is
    delivered       \* what the user was handed for good

callVars == <<top, owned, at, want, chunk>>
bufferVars == <<buffer, autoack, remainder, lines>>
rangeVars == <<max, offset>>
vars == <<socketVars, rangeVars, bufferVars, callVars, closing, delivered>>

TypeOK ==
    /\ SocketOK /\ RangeOK
    /\ buffer \in Seq(Byte) /\ autoack \in BOOLEAN
    /\ remainder \in Seq(Byte) /\ lines \in Seq(Seq(Byte))
    /\ top \in Tops /\ owned \in BOOLEAN
    /\ at \in [Readers -> {"out", "receiving", "buffering"}]
    /\ want \in [Readers -> Nat]
    /\ chunk \in [Readers -> Seq(Byte)]
    /\ closing \in {"no", "waiting", "draining", "closed"}
    /\ delivered \in Seq(Byte)

Init ==
    /\ SocketInit /\ RangeInit /\ AckInit /\ LineInit
    /\ top \in Tops /\ owned \in BOOLEAN
    /\ top = "range" => Ranged
    /\ at = [r \in Readers |-> "out"]
    /\ want = [r \in Readers |-> 0]
    /\ chunk = [r \in Readers |-> <<>>]
    /\ closing = "no"
    /\ delivered = <<>>

-----------------------------------------------------------------------------
(* A callback calls Receive().                                             *)

\* The wrapped connection's Receive(maxlen) is entered: a range reader at its
\* end answers itself, anything else asks the socket.
Fetch(r, maxlen) ==
    /\ at' = [at EXCEPT ![r] = IF Exhausted THEN "buffering" ELSE "receiving"]
    /\ want' = [want EXCEPT ![r] = IF Exhausted THEN 0 ELSE ToRead(maxlen)]
    /\ chunk' = [chunk EXCEPT ![r] = <<>>]

Returns(r) ==
    /\ at' = [at EXCEPT ![r] = "out"]
    /\ chunk' = [chunk EXCEPT ![r] = <<>>]
    /\ want' = [want EXCEPT ![r] = 0]

\* A callback may begin until Shutdown() has the lock of the top decorator.
MayCall(r) == at[r] = "out" /\ closing \in {"no", "waiting"}

ReceiveFromRange(r, maxlen) ==
    /\ MayCall(r) /\ top = "range"
    /\ Fetch(r, maxlen)
    /\ UNCHANGED <<socketVars, rangeVars, bufferVars, top, owned, closing, delivered>>

ReceiveUnacknowledged(r, maxlen) ==
    /\ MayCall(r) /\ top = "ack"
    /\ Fetch(r, Request(maxlen))
    /\ UNCHANGED <<socketVars, rangeVars, bufferVars, top, owned, closing, delivered>>

\* A line that is already there is returned, otherwise the loop begins.
ReceiveLine(r) ==
    /\ MayCall(r) /\ top = "line"
    /\ IF lines # <<>>
       THEN /\ delivered' = delivered \o Append(Head(lines), LF)
            /\ lines' = Tail(lines)
            /\ UNCHANGED <<at, want, chunk>>
       ELSE /\ IF WantsMore(remainder, RangeEOF) THEN Fetch(r, 0)
               ELSE at' = [at EXCEPT ![r] = "buffering"] /\ UNCHANGED <<want, chunk>>
            /\ UNCHANGED <<lines, delivered>>
    /\ UNCHANGED <<socketVars, rangeVars, buffer, autoack, remainder, top, owned, closing>>

\* recv() returns, and the range reader counts.
SocketAnswers(r) ==
    /\ at[r] = "receiving"
    /\ \E data \in Received(want[r]) :
          /\ Consumes(data)
          /\ chunk' = [chunk EXCEPT ![r] = data]
    /\ at' = [at EXCEPT ![r] = "buffering"]
    /\ UNCHANGED <<max, bufferVars, top, owned, want, closing, delivered>>

RangeReturns(r) ==
    /\ at[r] = "buffering" /\ top = "range"
    /\ delivered' = delivered \o chunk[r]
    /\ Returns(r)
    /\ UNCHANGED <<socketVars, rangeVars, bufferVars, top, owned, closing>>

AckReturns(r) ==
    /\ at[r] = "buffering" /\ top = "ack"
    /\ Buffers(chunk[r])
    /\ delivered' = delivered \o AutoAcknowledged(chunk[r])
    /\ Returns(r)
    /\ UNCHANGED <<socketVars, rangeVars, autoack, remainder, lines, top, owned, closing>>

\* The loop goes round again, or the text is cut and the first line returned.
LineReturns(r) ==
    LET text == remainder \o chunk[r]
        ready == lines \o LinesOf(text)
    IN  /\ at[r] = "buffering" /\ top = "line"
        /\ IF chunk[r] # <<>> /\ WantsMore(text, RangeEOF)
           THEN /\ remainder' = text
                /\ Fetch(r, 0)
                /\ UNCHANGED <<lines, delivered>>
           ELSE /\ remainder' = Rest(text)
                /\ lines' = IF ready = <<>> THEN <<>> ELSE Tail(ready)
                /\ delivered' = IF ready = <<>> THEN delivered
                                ELSE delivered \o Append(Head(ready), LF)
                /\ Returns(r)
        /\ UNCHANGED <<socketVars, rangeVars, buffer, autoack, top, owned, closing>>

\* IsEOF() of the top decorator.
EOF == CASE top = "range" -> RangeEOF
         [] top = "ack"   -> AckEOF(RangeEOF)
         [] top = "line"  -> LineEOF(RangeEOF)

-----------------------------------------------------------------------------
(* What else callbacks call, Shutdown(), and the peer.                     *)

Acknowledge(r, bytes) ==
    /\ MayCall(r) /\ top = "ack"
    /\ Acknowledges(bytes)
    /\ delivered' = delivered \o Acknowledged(bytes)
    /\ UNCHANGED <<socketVars, rangeVars, autoack, remainder, lines, callVars, closing>>

SetAutoAck(r, on) ==
    /\ MayCall(r) /\ top = "ack"
    /\ autoack' = on
    /\ UNCHANGED <<socketVars, rangeVars, buffer, remainder, lines, callVars, closing,
                   delivered>>

\* Every decorator hands it down.  A recv() that already blocks would go on
\* blocking; not modelled, so nobody may be in one.
SetBlocking(r, on) ==
    /\ MayCall(r) /\ \A q \in Readers : at[q] # "receiving"
    /\ SwitchesBlocking(on)
    /\ UNCHANGED <<rangeVars, bufferVars, callVars, closing, delivered>>

\* Shutdown() of the top decorator: Deregister(), ...
ShutdownBegins ==
    /\ closing = "no"
    /\ closing' = "waiting"
    /\ UNCHANGED <<socketVars, rangeVars, bufferVars, callVars, delivered>>

\* ... Lock(), once every callback has given its hold back, ...
ShutdownLocks ==
    /\ closing = "waiting" /\ \A r \in Readers : at[r] = "out"
    /\ closing' = "draining"
    /\ UNCHANGED <<socketVars, rangeVars, bufferVars, callVars, delivered>>

\* A range reader that is shut down, as the top or as what the top owns.
Drains == Ranged /\ (top = "range" \/ owned)

ShutdownDrains ==
    /\ closing = "draining" /\ Drains
    /\ Drain
    /\ UNCHANGED <<bufferVars, callVars, closing, delivered>>

\* ... and the wrapped socket's Shutdown(), if it is owned, and `delete this'.
ShutdownEnds ==
    /\ closing = "draining" /\ (Drains => RangeEOF)
    /\ closing' = "closed"
    /\ IF owned THEN SetEOF ELSE UNCHANGED socketVars
    /\ UNCHANGED <<rangeVars, bufferVars, callVars, delivered>>

\* The undecorated connection, which ConnectionEstablished() was given, is shut
\* down: eof_ is raised under the callbacks that read.
RawShutdown ==
    /\ closing # "closed" /\ ~eof
    /\ SetEOF
    /\ UNCHANGED <<rangeVars, bufferVars, callVars, closing, delivered>>

\* What the peer sends after `delete this' is not this stack's any more.
PeerActs ==
    /\ closing # "closed"
    /\ (\E b \in Byte : PeerWrites(b)) \/ PeerCloses
    /\ UNCHANGED <<rangeVars, bufferVars, callVars, closing, delivered>>

Step(r) == SocketAnswers(r) \/ RangeReturns(r) \/ AckReturns(r) \/ LineReturns(r)

Call(r) ==
    \/ ReceiveLine(r)
    \/ \E m \in Sizes : ReceiveFromRange(r, m) \/ ReceiveUnacknowledged(r, m)

Shutdown == ShutdownBegins \/ ShutdownLocks \/ ShutdownDrains \/ ShutdownEnds

Next ==
    \/ \E r \in Readers : \/ Step(r) \/ Call(r)
                          \/ \E n \in Sizes : Acknowledge(r, n)
                          \/ \E on \in BOOLEAN : SetAutoAck(r, on) \/ SetBlocking(r, on)
    \/ Shutdown \/ RawShutdown \/ PeerActs

Spec == Init /\ [][Next]_vars

\* Threads keep running, and callbacks call Receive() until it returns nothing.
\* A deregistered connection gets no new callbacks, so the ones that are left
\* cannot keep Lock() out for ever.
FairSpec ==
    /\ Spec
    /\ \A r \in Readers : WF_vars(Step(r)) /\ WF_vars(Call(r))
    /\ SF_vars(ShutdownLocks) /\ WF_vars(ShutdownDrains) /\ WF_vars(ShutdownEnds)
=============================================================================
