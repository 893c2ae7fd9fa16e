------------------------ MODULE DecoratorStreamProofs ------------------------
(***************************************************************************)
(* Theorems about what the decorators hand out, for any bytes, limits,     *)
(* ranges, sizes and packet boundaries: the types and the end of file for  *)
(* any number of callbacks, and, for callbacks that come one at a time,    *)
(* that no byte is lost and that the stack implements ByteStream.          *)
(***************************************************************************)
EXTENDS DecoratorProofs, TextProofs

-----------------------------------------------------------------------------
(* Types.                                                                  *)

\* Lines are only there when there are newlines, and what is left over of the
\* text that was cut has none.
TypeInv ==
    /\ TypeOK
    /\ lines # <<>> => LF \in Byte
    /\ ~HasNewline(remainder)

CallsOK ==
    /\ at \in [Readers -> {"out", "receiving", "buffering"}]
    /\ want \in [Readers -> Nat]
    /\ chunk \in [Readers -> Seq(Byte)]

BuffersOK ==
    /\ buffer \in Seq(Byte) /\ autoack \in BOOLEAN
    /\ remainder \in Seq(Byte) /\ ~HasNewline(remainder)
    /\ lines \in Seq(Seq(Byte)) /\ (lines # <<>> => LF \in Byte)

\* The parts of the invariant.
LEMMA TypeParts ==
    TypeInv <=> /\ SocketOK /\ RangeOK /\ CallsOK /\ BuffersOK
                /\ top \in Tops /\ owned \in BOOLEAN
                /\ closing \in {"no", "waiting", "draining", "closed"}
                /\ delivered \in Seq(Byte)
BY DEF TypeInv, TypeOK, CallsOK, BuffersOK

\* The same of the next state.
LEMMA TypePartsNext ==
    ASSUME SocketOK', RangeOK', CallsOK', BuffersOK', top' \in Tops, owned' \in BOOLEAN,
           closing' \in {"no", "waiting", "draining", "closed"}, delivered' \in Seq(Byte)
    PROVE  TypeInv'
BY DEF TypeInv, TypeOK, CallsOK, BuffersOK

\* The types hold at the beginning.
LEMMA StreamTypeInit == Init => TypeInv
<1> SUFFICES ASSUME Init PROVE TypeInv OBVIOUS
<1>1. <<>> \in Seq(Byte) /\ <<>> \in Seq(Seq(Byte)) /\ ~HasNewline(<<>>) BY DEF HasNewline
<1>2. SocketOK /\ RangeOK BY InitRange DEF RangeInv, SizesOK
<1>3. BuffersOK BY <1>1 DEF Init, AckInit, LineInit, BuffersOK
<1>4. CallsOK BY <1>1 DEF Init, CallsOK
<1> QED BY <1>1, <1>2, <1>3, <1>4, TypeParts DEF Init

\* Entering a Receive() of the wrapped connection.
LEMMA FetchTypes ==
    ASSUME TypeInv, NEW r \in Readers, NEW len \in Nat, Fetch(r, len)
    PROVE  CallsOK'
<1>1. /\ CallsOK /\ RangeOK BY TypeParts
<1>2. ~Exhausted => ToRead(len) \in Nat
  BY <1>1, RangeAssumption DEF RangeOK, Exhausted, Ranged, ToRead
<1>3. <<>> \in Seq(Byte) OBVIOUS
<1> QED BY <1>1, <1>2, <1>3 DEF Fetch, CallsOK

\* Returning from a callback's Receive().
LEMMA ReturnTypes ==
    ASSUME TypeInv, NEW r \in Readers, Returns(r)
    PROVE  CallsOK'
<1>1. CallsOK BY TypeParts
<1>2. <<>> \in Seq(Byte) OBVIOUS
<1> QED BY <1>1, <1>2 DEF Returns, CallsOK

\* What recv() returned is counted.
LEMMA ConsumeTypes ==
    ASSUME SocketOK, RangeOK, NEW n \in Nat, NEW data \in Received(n), Consumes(data),
           UNCHANGED max
    PROVE  SocketOK' /\ RangeOK' /\ data \in Seq(Byte)
<1>1. data \in Seq(Byte) /\ Len(data) \in 0 .. Len(sent) - taken BY ReceivedLength
<1>2. /\ taken' = taken + Len(data) /\ UNCHANGED <<sent, peerOpen, blocking, eof>>
      /\ offset' = IF ~Ranged THEN offset
                   ELSE IF eof THEN max ELSE offset + Len(data)
  BY DEF Consumes, SocketConsumes
<1>3. taken \in Nat /\ Len(sent) \in Nat /\ offset \in Nat /\ Len(data) \in Nat
  BY <1>1 DEF SocketOK, RangeOK
<1>4. SocketOK' BY <1>1, <1>2, <1>3 DEF SocketOK
<1>5. RangeOK' BY <1>1, <1>2, <1>3, RangeAssumption DEF RangeOK, Ranged
<1> QED BY <1>1, <1>4, <1>5

\* The socket answers a Receive().
LEMMA AnswerTypes ==
    ASSUME TypeInv, NEW r \in Readers, SocketAnswers(r)
    PROVE  TypeInv'
<1>1. PICK data \in Received(want[r]) : Consumes(data) /\ chunk' = [chunk EXCEPT ![r] = data]
  BY DEF SocketAnswers
<1>2. /\ at' = [at EXCEPT ![r] = "buffering"]
      /\ UNCHANGED <<max, bufferVars, top, owned, want, closing, delivered>>
  BY DEF SocketAnswers
<1>3. CallsOK /\ SocketOK /\ RangeOK /\ BuffersOK BY TypeParts
<1>4. want[r] \in Nat BY <1>3 DEF CallsOK
<1>5. SocketOK' /\ RangeOK' /\ data \in Seq(Byte) BY <1>1, <1>2, <1>3, <1>4, ConsumeTypes
<1>6. CallsOK' BY <1>1, <1>2, <1>3, <1>5 DEF CallsOK
<1>7. BuffersOK' BY <1>2, <1>3 DEF BuffersOK, bufferVars
<1> QED BY <1>2, <1>5, <1>6, <1>7, TypeParts, TypePartsNext

\* A step that leaves the socket and the range alone.
LEMMA CallTypes ==
    ASSUME TypeInv, UNCHANGED <<socketVars, rangeVars, top, owned, closing>>,
           CallsOK', BuffersOK', delivered' \in Seq(Byte)
    PROVE  TypeInv'
<1>1. SocketOK /\ RangeOK /\ top \in Tops /\ owned \in BOOLEAN
      /\ closing \in {"no", "waiting", "draining", "closed"}
  BY TypeParts
<1>2. SocketOK' /\ RangeOK' BY <1>1 DEF SocketOK, RangeOK, socketVars, rangeVars
<1> QED BY <1>1, <1>2, TypePartsNext

\* A Receive() of the range reader or the acknowledgement buffer begins.
LEMMA BeginTypes ==
    ASSUME TypeInv, NEW r \in Readers, NEW m \in Sizes,
           ReceiveFromRange(r, m) \/ ReceiveUnacknowledged(r, m)
    PROVE  TypeInv'
<1>1. BuffersOK /\ delivered \in Seq(Byte) BY TypeParts
<1>2. m \in Nat /\ Request(m) \in Nat BY <1>1, StackAssumption DEF Request, BuffersOK
<1>3. CallsOK' BY <1>2, FetchTypes DEF ReceiveFromRange, ReceiveUnacknowledged
<1>4. UNCHANGED <<socketVars, rangeVars, bufferVars, top, owned, closing, delivered>>
  BY DEF ReceiveFromRange, ReceiveUnacknowledged
<1>5. BuffersOK' BY <1>1, <1>4 DEF BuffersOK, bufferVars
<1> QED BY <1>1, <1>3, <1>4, <1>5, CallTypes

\* The first of the lines that are waiting is handed out.
LEMMA HandOut ==
    ASSUME NEW L \in Seq(Seq(Byte)), L # <<>>, LF \in Byte, delivered \in Seq(Byte)
    PROVE  /\ Append(Head(L), LF) \in Seq(Byte) /\ Tail(L) \in Seq(Seq(Byte))
           /\ delivered \o Append(Head(L), LF) \in Seq(Byte)
<1>1. Head(L) \in Seq(Byte) /\ Tail(L) \in Seq(Seq(Byte)) BY FlatHead
<1>2. Append(Head(L), LF) \in Seq(Byte) BY <1>1
<1> QED BY <1>1, <1>2

\* A Receive() of the line buffer begins, or is over at once.
LEMMA LineBeginTypes ==
    ASSUME TypeInv, NEW r \in Readers, ReceiveLine(r)
    PROVE  TypeInv'
<1>1. BuffersOK /\ CallsOK /\ delivered \in Seq(Byte) BY TypeParts
<1>2. UNCHANGED <<socketVars, rangeVars, buffer, autoack, remainder, top, owned, closing>>
  BY DEF ReceiveLine
<1>3. CASE lines # <<>>
  <2>1. /\ delivered' = delivered \o Append(Head(lines), LF) /\ lines' = Tail(lines)
        /\ UNCHANGED <<at, want, chunk>>
    BY <1>3 DEF ReceiveLine
  <2>2. LF \in Byte /\ lines \in Seq(Seq(Byte)) BY <1>1, <1>3 DEF BuffersOK
  <2>3. lines' \in Seq(Seq(Byte)) /\ delivered' \in Seq(Byte) BY <1>1, <1>3, <2>1, <2>2, HandOut
  <2>4. BuffersOK' BY <1>1, <1>2, <2>2, <2>3 DEF BuffersOK
  <2>5. CallsOK' BY <1>1, <2>1 DEF CallsOK
  <2> QED BY <1>2, <2>3, <2>4, <2>5, CallTypes
<1>4. CASE lines = <<>>
  <2>1. UNCHANGED <<lines, delivered>> BY <1>4 DEF ReceiveLine
  <2>2. \/ Fetch(r, 0)
        \/ at' = [at EXCEPT ![r] = "buffering"] /\ UNCHANGED <<want, chunk>>
    BY <1>4 DEF ReceiveLine
  <2>3. CallsOK'
    <3>1. CASE Fetch(r, 0)
      <4>1. 0 \in Nat OBVIOUS
      <4> QED BY <3>1, <4>1, FetchTypes
    <3>2. CASE at' = [at EXCEPT ![r] = "buffering"] /\ UNCHANGED <<want, chunk>>
      BY <1>1, <3>2 DEF CallsOK
    <3> QED BY <2>2, <3>1, <3>2
  <2>4. BuffersOK' BY <1>1, <1>2, <2>1 DEF BuffersOK
  <2> QED BY <1>1, <1>2, <2>1, <2>3, <2>4, CallTypes
<1> QED BY <1>3, <1>4

\* The acknowledgement buffer keeps and hands out bytes.
LEMMA AckTypes ==
    ASSUME TypeInv, NEW r \in Readers,
           AckReturns(r) \/ \E n \in Sizes : Acknowledge(r, n)
    PROVE  TypeInv'
<1>1. BuffersOK /\ CallsOK /\ delivered \in Seq(Byte) BY TypeParts
<1>2. buffer \in Seq(Byte) /\ <<>> \in Seq(Byte) BY <1>1 DEF BuffersOK
<1>3. CASE AckReturns(r)
  <2> DEFINE all == buffer \o chunk[r]
  <2>1. chunk[r] \in Seq(Byte) BY <1>1 DEF CallsOK
  <2>2. all \in Seq(Byte) BY <1>2, <2>1
  <2>3. buffer' \in Seq(Byte) BY <1>2, <1>3, <2>2 DEF AckReturns, Buffers
  <2>4. AutoAcknowledged(chunk[r]) \in Seq(Byte) BY <1>2, <2>2 DEF AutoAcknowledged
  <2>5. delivered' \in Seq(Byte) BY <1>1, <1>3, <2>4 DEF AckReturns
  <2>6. UNCHANGED <<socketVars, rangeVars, autoack, remainder, lines, top, owned, closing>>
        /\ Returns(r)
    BY <1>3 DEF AckReturns
  <2>7. BuffersOK' BY <1>1, <2>3, <2>6 DEF BuffersOK
  <2>8. CallsOK' BY <2>6, ReturnTypes
  <2> QED BY <2>5, <2>6, <2>7, <2>8, CallTypes
<1>4. ASSUME NEW n \in Sizes, Acknowledge(r, n) PROVE TypeInv'
  <2>1. n \in Nat BY StackAssumption
  <2>2. n <= Len(buffer) => /\ SubSeq(buffer, 1, n) \in Seq(Byte)
                            /\ SubSeq(buffer, n + 1, Len(buffer)) \in Seq(Byte)
    <3>1. n <= Len(buffer) => n \in 0 .. Len(buffer) BY <1>2, <2>1
    <3> QED BY <1>2, <3>1, Halves
  <2>3. buffer' \in Seq(Byte) BY <1>2, <1>4, <2>1, <2>2 DEF Acknowledge, Acknowledges
  <2>4. Acknowledged(n) \in Seq(Byte) BY <1>2, <2>1, <2>2 DEF Acknowledged
  <2>5. delivered' \in Seq(Byte) BY <1>1, <1>4, <2>4 DEF Acknowledge
  <2>6. UNCHANGED <<socketVars, rangeVars, autoack, remainder, lines, callVars, closing>>
    BY <1>4 DEF Acknowledge
  <2>7. BuffersOK' BY <1>1, <2>3, <2>6 DEF BuffersOK
  <2>8. CallsOK' /\ UNCHANGED <<top, owned>> BY <1>1, <2>6 DEF CallsOK, callVars
  <2> QED BY <2>5, <2>6, <2>7, <2>8, CallTypes
<1> QED BY <1>3, <1>4

\* A Receive() of the range reader returns.
LEMMA RangeReturnTypes ==
    ASSUME TypeInv, NEW r \in Readers, RangeReturns(r)
    PROVE  TypeInv'
<1>1. BuffersOK /\ CallsOK /\ delivered \in Seq(Byte) BY TypeParts
<1>2. chunk[r] \in Seq(Byte) BY <1>1 DEF CallsOK
<1>3. /\ delivered' = delivered \o chunk[r] /\ Returns(r)
      /\ UNCHANGED <<socketVars, rangeVars, bufferVars, top, owned, closing>>
  BY DEF RangeReturns
<1>4. delivered' \in Seq(Byte) BY <1>1, <1>2, <1>3
<1>5. BuffersOK' BY <1>1, <1>3 DEF BuffersOK, bufferVars
<1> QED BY <1>3, <1>4, <1>5, ReturnTypes, CallTypes

\* What the second loop of the line buffer's Receive() hands out and keeps.
LEMMA ReadyLines ==
    ASSUME TypeInv, NEW text \in Seq(Byte)
    PROVE  /\ Rest(text) \in Seq(Byte) /\ ~HasNewline(Rest(text))
           /\ LinesOf(text) \in Seq(Seq(Byte))
           /\ lines \o LinesOf(text) \in Seq(Seq(Byte))
           /\ lines \o LinesOf(text) # <<>> => LF \in Byte
<1>1. lines \in Seq(Seq(Byte)) /\ (lines # <<>> => LF \in Byte) BY TypeParts DEF BuffersOK
<1>2. LinesOf(text) \in Seq(Seq(Byte)) /\ (LinesOf(text) # <<>> => LF \in Byte) BY LinesType
<1>3. lines \o LinesOf(text) \in Seq(Seq(Byte)) BY <1>1, <1>2
<1>4. lines = <<>> /\ LinesOf(text) = <<>> => lines \o LinesOf(text) = <<>> BY <1>2
<1> QED BY <1>1, <1>2, <1>3, <1>4, Cut

\* The line buffer goes round its loop, or cuts the text and returns.
LEMMA LineReturnTypes ==
    ASSUME TypeInv, NEW r \in Readers, LineReturns(r)
    PROVE  TypeInv'
<1> DEFINE text == remainder \o chunk[r]
           ready == lines \o LinesOf(text)
<1>1. BuffersOK /\ CallsOK /\ delivered \in Seq(Byte) BY TypeParts
<1>2. text \in Seq(Byte) BY <1>1 DEF BuffersOK, CallsOK
<1>3. UNCHANGED <<socketVars, rangeVars, buffer, autoack, top, owned, closing>>
  BY DEF LineReturns
<1>4. CASE chunk[r] # <<>> /\ WantsMore(text, RangeEOF)
  <2>1. remainder' = text /\ Fetch(r, 0) /\ UNCHANGED <<lines, delivered>>
    BY <1>4 DEF LineReturns
  <2>2. ~HasNewline(text) BY <1>4 DEF WantsMore
  <2>3. BuffersOK' BY <1>1, <1>2, <1>3, <2>1, <2>2 DEF BuffersOK
  <2>4. 0 \in Nat OBVIOUS
  <2>5. CallsOK' BY <2>1, <2>4, FetchTypes
  <2> QED BY <1>1, <1>3, <2>1, <2>3, <2>5, CallTypes
<1>5. CASE ~(chunk[r] # <<>> /\ WantsMore(text, RangeEOF))
  <2>1. /\ remainder' = Rest(text)
        /\ lines' = IF ready = <<>> THEN <<>> ELSE Tail(ready)
        /\ delivered' = IF ready = <<>> THEN delivered
                        ELSE delivered \o Append(Head(ready), LF)
        /\ Returns(r)
    BY <1>5 DEF LineReturns
  <2>2. /\ Rest(text) \in Seq(Byte) /\ ~HasNewline(Rest(text))
        /\ ready \in Seq(Seq(Byte)) /\ (ready # <<>> => LF \in Byte)
    BY <1>2, ReadyLines
  <2> HIDE DEF text, ready
  <2>3. CallsOK' BY <2>1, ReturnTypes
  <2>4. CASE ready = <<>>
    <3>1. lines' = <<>> /\ delivered' = delivered BY <2>1, <2>4
    <3>2. <<>> \in Seq(Seq(Byte)) OBVIOUS
    <3>3. BuffersOK' BY <1>1, <1>3, <2>1, <2>2, <3>1, <3>2 DEF BuffersOK
    <3> QED BY <1>1, <1>3, <2>3, <3>1, <3>3, CallTypes
  <2>5. CASE ready # <<>>
    <3>1. lines' = Tail(ready) /\ delivered' = delivered \o Append(Head(ready), LF)
      BY <2>1, <2>5
    <3>2. lines' \in Seq(Seq(Byte)) /\ delivered' \in Seq(Byte) BY <1>1, <2>2, <2>5, <3>1, HandOut
    <3>3. BuffersOK' BY <1>1, <1>3, <2>1, <2>2, <2>5, <3>2 DEF BuffersOK
    <3> QED BY <1>3, <2>3, <3>2, <3>3, CallTypes
  <2> QED BY <2>4, <2>5
<1> QED BY <1>4, <1>5

\* What the peer, Shutdown() and the switches do.
LEMMA OtherTypes ==
    ASSUME TypeInv,
           \/ Shutdown \/ RawShutdown \/ PeerActs
           \/ \E r \in Readers, on \in BOOLEAN : SetAutoAck(r, on) \/ SetBlocking(r, on)
    PROVE  TypeInv'
<1>1. /\ SocketOK /\ RangeOK /\ CallsOK /\ BuffersOK /\ top \in Tops /\ owned \in BOOLEAN
      /\ closing \in {"no", "waiting", "draining", "closed"} /\ delivered \in Seq(Byte)
  BY TypeParts
<1>2. UNCHANGED <<max, buffer, remainder, lines, callVars, delivered>>
  BY DEF Shutdown, ShutdownBegins, ShutdownLocks, ShutdownDrains, ShutdownEnds, Drain,
     RawShutdown, PeerActs, SetAutoAck, SetBlocking, rangeVars, bufferVars
<1>3. autoack' \in BOOLEAN
  BY <1>1 DEF Shutdown, ShutdownBegins, ShutdownLocks, ShutdownDrains, ShutdownEnds,
     RawShutdown, PeerActs, SetAutoAck, SetBlocking, bufferVars, BuffersOK
<1>4. closing' \in {"no", "waiting", "draining", "closed"}
  BY <1>1 DEF Shutdown, ShutdownBegins, ShutdownLocks, ShutdownDrains, ShutdownEnds,
     RawShutdown, PeerActs, SetAutoAck, SetBlocking
<1>5. CallsOK' /\ BuffersOK' /\ UNCHANGED <<top, owned>>
  BY <1>1, <1>2, <1>3 DEF CallsOK, BuffersOK, callVars
<1>6. SocketOK' /\ RangeOK'
  <2>1. CASE ShutdownDrains
    <3>1. PICK data \in Received(max - offset) : Consumes(data)
      BY <2>1 DEF ShutdownDrains, Drain
    <3>2. max - offset \in Nat
      BY <1>1, <2>1, RangeAssumption DEF ShutdownDrains, Drain, RangeOK, Ranged
    <3> QED BY <1>1, <1>2, <3>1, <3>2, ConsumeTypes
  <2>2. CASE ShutdownBegins \/ ShutdownLocks \/ ShutdownEnds \/ RawShutdown
    BY <1>1, <2>2 DEF ShutdownBegins, ShutdownLocks, ShutdownEnds, RawShutdown, SetEOF,
       SocketOK, RangeOK, socketVars, rangeVars
  <2>3. CASE PeerActs
    <3>1. UNCHANGED rangeVars BY <2>3 DEF PeerActs
    <3>2. ASSUME NEW b \in Byte, PeerWrites(b) PROVE SocketOK'
      <4>1. sent \in Seq(Byte) /\ Len(sent) < MaxSent /\ sent' = Append(sent, b)
        BY <1>1, <3>2 DEF PeerWrites, SocketOK
      <4>2. sent' \in Seq(Byte) /\ Len(sent') = Len(sent) + 1 BY <4>1
      <4>3. Len(sent) \in Nat /\ taken \in 0 .. Len(sent) BY <1>1, <4>1 DEF SocketOK
      <4>4. Len(sent') <= MaxSent /\ taken \in 0 .. Len(sent')
        BY <4>1, <4>2, <4>3, SocketAssumption
      <4>5. UNCHANGED <<taken, peerOpen, blocking, eof>> BY <3>2 DEF PeerWrites
      <4> QED BY <1>1, <4>2, <4>4, <4>5 DEF SocketOK
    <3>3. ASSUME PeerCloses PROVE SocketOK' BY <1>1, <3>3 DEF PeerCloses, SocketOK
    <3>4. SocketOK' BY <2>3, <3>2, <3>3 DEF PeerActs
    <3> QED BY <1>1, <3>1, <3>4 DEF RangeOK, rangeVars
  <2>4. CASE \E r \in Readers, on \in BOOLEAN : SetAutoAck(r, on) \/ SetBlocking(r, on)
    BY <1>1, <2>4 DEF SetAutoAck, SetBlocking, SwitchesBlocking, SocketOK, RangeOK, socketVars,
       rangeVars
  <2> QED BY <2>1, <2>2, <2>3, <2>4 DEF Shutdown
<1> QED BY <1>1, <1>2, <1>4, <1>5, <1>6, TypePartsNext

\* The types are kept.
LEMMA StreamTypeStep == TypeInv /\ [Next]_vars => TypeInv'
<1> SUFFICES ASSUME TypeInv, [Next]_vars PROVE TypeInv' OBVIOUS
<1>1. CASE UNCHANGED vars
  BY <1>1 DEF vars, socketVars, rangeVars, bufferVars, callVars, TypeInv, TypeOK, SocketOK,
     RangeOK, HasNewline
<1>2. ASSUME NEW r \in Readers, Step(r) \/ Call(r) \/ \E n \in Sizes : Acknowledge(r, n)
      PROVE  TypeInv'
  BY <1>2, AnswerTypes, RangeReturnTypes, AckTypes, LineReturnTypes, LineBeginTypes, BeginTypes
  DEF Step, Call
<1>3. CASE \/ Shutdown \/ RawShutdown \/ PeerActs
           \/ \E r \in Readers, on \in BOOLEAN : SetAutoAck(r, on) \/ SetBlocking(r, on)
  BY <1>3, OtherTypes
<1> QED BY <1>1, <1>2, <1>3 DEF Next

\* Every variable of the stack keeps its type, whatever its callbacks, the peer
\* and Shutdown() do, at the same time or not.
THEOREM StackTypeCorrect == Spec => []TypeOK
<1>1. TypeInv => TypeOK BY DEF TypeInv
<1> QED BY StreamTypeInit, StreamTypeStep, <1>1, PTL DEF Spec

-----------------------------------------------------------------------------
(* The end of file.                                                        *)

\* Without a newline nothing is cut off.
LEMMA NothingToCut ==
    ASSUME NEW B, NEW s \in Seq(B), ~HasNewline(s)
    PROVE  LinesOf(s) = <<>>
<1> DEFINE nl == Newlines(s)
           L == LinesOf(s)
<1>1. nl \in Seq(Nat) /\ \A k \in 1 .. Len(nl) : nl[k] \in 1 .. Len(s) /\ s[nl[k]] = LF
  BY NewlinesAre
<1>2. L \in Seq(Seq(B)) /\ Len(L) = Len(nl) BY LinesType
<1>3. DOMAIN s = 1 .. Len(s) OBVIOUS
<1> HIDE DEF nl, L
<1>4. Len(nl) \in Nat BY <1>1
<1>5. ASSUME Len(nl) # 0 PROVE FALSE
  <2>1. 1 \in 1 .. Len(nl) BY <1>4, <1>5
  <2>2. nl[1] \in DOMAIN s /\ s[nl[1]] = LF BY <1>1, <1>3, <2>1
  <2> QED BY <2>2 DEF HasNewline
<1>6. L = <<>> BY <1>2, <1>5
<1> QED BY <1>6 DEF L

\* At the end of file nothing is waiting, so nothing is handed out.
LEMMA NothingAfterEnd ==
    ASSUME TypeInv, [Next]_vars, EOF, ~eof, \A r \in Readers : chunk[r] = <<>>
    PROVE  UNCHANGED delivered
<1>0. BuffersOK /\ CallsOK /\ delivered \in Seq(Byte) /\ top \in {"ack", "line", "range"}
  BY TypeParts, StackAssumption
<1>1. ASSUME NEW r \in Readers, RangeReturns(r) PROVE UNCHANGED delivered
  <2>1. delivered' = delivered \o <<>> BY <1>1 DEF RangeReturns
  <2> QED BY <1>0, <2>1
<1>2. ASSUME NEW r \in Readers, AckReturns(r) PROVE UNCHANGED delivered
  <2>1. buffer = <<>> BY <1>2 DEF EOF, AckEOF, AckReturns
  <2>2. buffer \o chunk[r] = <<>> BY <2>1
  <2>3. AutoAcknowledged(chunk[r]) = <<>> BY <2>2 DEF AutoAcknowledged
  <2>4. delivered' = delivered \o <<>> BY <1>2, <2>3 DEF AckReturns
  <2> QED BY <1>0, <2>4
<1>3. ASSUME NEW r \in Readers, NEW n \in Sizes, Acknowledge(r, n) PROVE UNCHANGED delivered
  <2>1. buffer = <<>> /\ n \in Nat BY <1>3, StackAssumption DEF EOF, AckEOF, Acknowledge
  <2>2. n = 0 => SubSeq(buffer, 1, n) = <<>> BY <2>1
  <2>3. Acknowledged(n) = <<>> BY <2>1, <2>2 DEF Acknowledged
  <2>4. delivered' = delivered \o <<>> BY <1>3, <2>3 DEF Acknowledge
  <2> QED BY <1>0, <2>4
<1>4. ASSUME NEW r \in Readers, ReceiveLine(r) PROVE UNCHANGED delivered
  <2>1. lines = <<>> BY <1>4 DEF EOF, LineEOF, ReceiveLine
  <2> QED BY <1>4, <2>1 DEF ReceiveLine
<1>5. ASSUME NEW r \in Readers, LineReturns(r) PROVE UNCHANGED delivered
  <2>1. lines = <<>> /\ chunk[r] = <<>> BY <1>5 DEF EOF, LineEOF, LineReturns
  <2>2. remainder \in Seq(Byte) /\ ~HasNewline(remainder) BY <1>0 DEF BuffersOK
  <2>3. remainder \o chunk[r] = remainder BY <2>1, <2>2
  <2>4. LinesOf(remainder) = <<>> BY <2>2, NothingToCut
  <2>5. lines \o LinesOf(remainder \o chunk[r]) = <<>> BY <2>1, <2>3, <2>4
  <2> QED BY <1>5, <2>1, <2>5 DEF LineReturns
<1>6. ASSUME NEW r \in Readers, NEW n \in Sizes,
             ReceiveFromRange(r, n) \/ ReceiveUnacknowledged(r, n)
      PROVE  UNCHANGED delivered
  BY <1>6 DEF ReceiveFromRange, ReceiveUnacknowledged
<1>7. ASSUME NEW r \in Readers, SocketAnswers(r) PROVE UNCHANGED delivered
  BY <1>7 DEF SocketAnswers
<1>8. CASE \/ Shutdown \/ RawShutdown \/ PeerActs
           \/ \E r \in Readers, on \in BOOLEAN : SetAutoAck(r, on) \/ SetBlocking(r, on)
  BY <1>8 DEF Shutdown, ShutdownBegins, ShutdownLocks, ShutdownDrains, ShutdownEnds,
     RawShutdown, PeerActs, SetAutoAck, SetBlocking
<1>9. CASE UNCHANGED vars BY <1>9 DEF vars
<1> QED BY <1>1, <1>2, <1>3, <1>4, <1>5, <1>6, <1>7, <1>8, <1>9 DEF Next, Step, Call

\* Once the end of a range was announced with no answer of recv() under way, no
\* callback is handed anything, however many callbacks there are at a time.
THEOREM EndOfFileIsFinal == Spec => EOFIsFinal
<1>1. TypeInv /\ [Next]_vars =>
        [EOF /\ ~eof /\ (\A r \in Readers : chunk[r] = <<>>) => UNCHANGED delivered]_vars
  BY NothingAfterEnd
<1> QED BY StreamTypeInit, StreamTypeStep, <1>1, PTL DEF Spec, EOFIsFinal


-----------------------------------------------------------------------------
(* Where the bytes are.                                                    *)

\* c, which a callback was just answered, and the buffers of the top decorator
\* hold what is missing from delivered of the bytes gone from the socket.
Accounted(c, gone) ==
    CASE top = "range" -> delivered \o c = gone
      [] top = "ack"   -> delivered \o (buffer \o c) = gone
      [] top = "line"  ->
            \E p \in Seq(Byte) : /\ Whole(p) /\ gone = p \o (remainder \o c)
                                 /\ delivered \o Flat(lines) = Text(p)

\* gone is all that was taken, until Shutdown() drains a range.
Held(c, n) ==
    /\ c \in Seq(Byte) /\ n \in 0 .. taken
    /\ \A r \in Readers : chunk[r] = c /\ (at[r] # "buffering" => c = <<>>)
    /\ closing \in {"no", "waiting"} => n = taken
    /\ Accounted(c, SubSeq(sent, 1, n))

HeldInv == \E c, n : Held(c, n)

\* With RangeInv, which says that nobody reads any more once Shutdown() drains.
StreamInv == TypeInv /\ RangeInv /\ HeldInv

\* The parts of it that the steps below depend on.
LEMMA StreamParts ==
    ASSUME StreamInv
    PROVE  /\ sent \in Seq(Byte) /\ Len(sent) \in Nat /\ taken \in 0 .. Len(sent)
           /\ chunk \in [Readers -> Seq(Byte)]
           /\ at \in [Readers -> {"out", "receiving", "buffering"}]
           /\ want \in [Readers -> Nat]
           /\ buffer \in Seq(Byte) /\ remainder \in Seq(Byte) /\ delivered \in Seq(Byte)
           /\ lines \in Seq(Seq(Byte)) /\ (lines # <<>> => LF \in Byte)
           /\ top \in {"ack", "line", "range"}
           /\ closing \in {"no", "waiting", "draining", "closed"}
           /\ closing \in {"draining", "closed"} => \A r \in Readers : at[r] = "out"
<1>1. SocketOK /\ CallsOK /\ BuffersOK /\ top \in Tops /\ delivered \in Seq(Byte)
      /\ closing \in {"no", "waiting", "draining", "closed"}
  BY TypeParts DEF StreamInv
<1>2. sent \in Seq(Byte) /\ Len(sent) \in Nat /\ taken \in 0 .. Len(sent)
  BY <1>1 DEF SocketOK
<1>3. closing \in {"draining", "closed"} => \A r \in Readers : at[r] = "out"
  BY DEF StreamInv, RangeInv, CountOK
<1> QED BY <1>1, <1>2, <1>3, StackAssumption DEF CallsOK, BuffersOK

\* At the beginning nothing is taken.
LEMMA HeldInit == Init => HeldInv
<1> SUFFICES ASSUME Init PROVE HeldInv OBVIOUS
<1>1. /\ sent = <<>> /\ taken = 0 /\ buffer = <<>> /\ remainder = <<>> /\ lines = <<>>
      /\ delivered = <<>> /\ closing = "no" /\ top \in Tops
      /\ chunk = [r \in Readers |-> <<>>]
  BY DEF Init, SocketInit, AckInit, LineInit
<1>2. <<>> \in Seq(Byte) /\ <<>> \o <<>> = <<>> /\ SubSeq(sent, 1, 0) = <<>> BY <1>1
<1>3. Text(<<>>) = <<>>
  <2>1. <<>> \in Seq(Byte) /\ ~HasNewline(<<>>) BY DEF HasNewline
  <2> QED BY <2>1, TextFree
<1>4. Accounted(<<>>, <<>>)
  <2>1. CASE top = "range" BY <1>1, <1>2, <2>1 DEF Accounted
  <2>2. CASE top = "ack" BY <1>1, <1>2, <2>2 DEF Accounted
  <2>3. CASE top = "line"
    <3>1. Whole(<<>>) /\ <<>> = <<>> \o (remainder \o <<>>) BY <1>1, <1>2 DEF Whole
    <3>2. delivered \o Flat(lines) = Text(<<>>) BY <1>1, <1>2, <1>3, FlatEmpty
    <3> QED BY <1>2, <2>3, <3>1, <3>2 DEF Accounted
  <2> QED BY <1>1, <2>1, <2>2, <2>3, StackAssumption
<1>5. Held(<<>>, 0)
  <2>1. 0 \in 0 .. taken /\ <<>> \in Seq(Byte) BY <1>1
  <2>2. \A r \in Readers : chunk[r] = <<>> BY <1>1
  <2>3. Accounted(<<>>, SubSeq(sent, 1, 0)) BY <1>2, <1>4
  <2> QED BY <1>1, <2>1, <2>2, <2>3 DEF Held
<1> QED BY <1>5 DEF HeldInv

\* A step that hands out, keeps and takes nothing.
LEMMA HeldKeeps ==
    ASSUME StreamInv,
           UNCHANGED <<sent, taken, top, delivered, buffer, remainder, lines, chunk>>,
           \A r \in Readers : at'[r] = at[r] \/ at[r] = "out",
           closing' \in {"no", "waiting"} => closing \in {"no", "waiting"}
    PROVE  HeldInv'
<1>1. PICK c, n : Held(c, n) BY DEF StreamInv, HeldInv
<1>2. Held(c, n)'
  <2>1. Accounted(c, SubSeq(sent, 1, n))' <=> Accounted(c, SubSeq(sent, 1, n)) BY DEF Accounted
  <2>2. \A r \in Readers : at'[r] # "buffering" => c = <<>> BY <1>1 DEF Held
  <2> QED BY <1>1, <2>1, <2>2 DEF Held
<1> QED BY <1>2 DEF HeldInv


\* The socket answers: c is what it returned.
LEMMA AnswerHeld ==
    ASSUME OneAtATime, StreamInv, NEW r \in Readers, SocketAnswers(r)
    PROVE  HeldInv'
<1>1. PICK data \in Received(want[r]) : Consumes(data) /\ chunk' = [chunk EXCEPT ![r] = data]
  BY DEF SocketAnswers
<1>2. /\ at[r] = "receiving" /\ at' = [at EXCEPT ![r] = "buffering"]
      /\ UNCHANGED <<bufferVars, top, closing, delivered>>
  BY DEF SocketAnswers
<1>3. /\ sent \in Seq(Byte) /\ Len(sent) \in Nat /\ taken \in 0 .. Len(sent)
      /\ chunk \in [Readers -> Seq(Byte)]
      /\ at \in [Readers -> {"out", "receiving", "buffering"}]
      /\ want \in [Readers -> Nat]
      /\ buffer \in Seq(Byte) /\ remainder \in Seq(Byte) /\ delivered \in Seq(Byte)
      /\ top \in {"ack", "line", "range"}
      /\ closing \in {"no", "waiting"}
  BY <1>2, StreamParts
<1>4. want[r] \in Nat BY <1>3
<1>5. SocketOK BY TypeParts DEF StreamInv
<1>6. data \in Seq(Byte) /\ Len(data) \in 0 .. Len(sent) - taken
  BY <1>4, <1>5, ReceivedLength
<1>7. taken' = taken + Len(data) /\ sent' = sent BY <1>1 DEF Consumes, SocketConsumes
<1>8. PICK c, n : Held(c, n) BY DEF StreamInv, HeldInv
<1>9. c = <<>> /\ n = taken BY <1>2, <1>3, <1>8 DEF Held
<1>m. PICK m : m = taken + Len(data) OBVIOUS
<1>g. PICK g : g = SubSeq(sent, 1, taken) OBVIOUS
<1>10. g \in Seq(Byte) /\ m \in Nat /\ m \in taken .. Len(sent)
  <2>1. g \in Seq(Byte) BY <1>3, <1>g, Halves
  <2> QED BY <1>3, <1>6, <1>m, <2>1
<1>11. SubSeq(sent, 1, m) = g \o data
  <2>1. SubSeq(sent, 1, m) = g \o SubSeq(sent, taken + 1, m) BY <1>3, <1>10, <1>g, Segments
  <2>2. data = SubSeq(sent, taken + 1, m)
    <3>1. data = SubSeq(sent, taken + 1, taken + Min({Limit(want[r]), Len(sent) - taken}))
      BY <1>1 DEF Received
    <3> DEFINE k == Min({Limit(want[r]), Len(sent) - taken})
    <3>2. k \in 0 .. Len(sent) - taken
      <4> DEFINE a == Limit(want[r])
                 b == Len(sent) - taken
      <4>1. a \in Nat /\ b \in Nat BY <1>3, <1>4, SocketAssumption DEF Limit
      <4> HIDE DEF a, b
      <4>2. a \in Int /\ b \in Int BY <4>1
      <4>3. Min({a, b}) \in {a, b} /\ Min({a, b}) <= b BY <4>2, MinOfTwo
      <4>4. Min({a, b}) \in 0 .. b BY <4>1, <4>3
      <4> QED BY <4>4 DEF a, b
    <3> HIDE DEF k
    <3>3. Len(SubSeq(sent, taken + 1, taken + k)) = k BY <1>3, <3>2
    <3>4. data = SubSeq(sent, taken + 1, taken + k) BY <3>1 DEF k
    <3> QED BY <1>m, <3>3, <3>4
  <2> QED BY <2>1, <2>2
<1>12. Accounted(<<>>, g) BY <1>8, <1>9, <1>g DEF Held
<1>types. /\ delivered \in Seq(Byte) /\ buffer \in Seq(Byte) /\ remainder \in Seq(Byte)
          /\ data \in Seq(Byte)
  BY <1>3, <1>6
<1>13. Accounted(data, g \o data)'
  <2>1. CASE top = "range"
    <3>1. delivered = g BY <1>3, <1>12, <2>1 DEF Accounted
    <3> QED BY <1>2, <2>1, <3>1 DEF Accounted
  <2>2. CASE top = "ack"
    <3>1. delivered \o buffer = g
      <4>1. delivered \o (buffer \o <<>>) = g BY <1>12, <2>2 DEF Accounted
      <4>2. buffer \o <<>> = buffer BY <1>3
      <4> QED BY <4>1, <4>2
    <3>0. delivered \in Seq(Byte) /\ buffer \in Seq(Byte) /\ data \in Seq(Byte) BY <1>types
    <3>2. (delivered \o buffer) \o data = delivered \o (buffer \o data) BY <3>0, ConcatAssoc, SMTT(30)
    <3> QED BY <1>2, <2>2, <3>1, <3>2 DEF Accounted, bufferVars
  <2>3. CASE top = "line"
    <3>1. PICK p \in Seq(Byte) : /\ Whole(p) /\ g = p \o (remainder \o <<>>)
                                 /\ delivered \o Flat(lines) = Text(p)
      BY <1>12, <2>3 DEF Accounted
    <3>2. remainder \o <<>> = remainder BY <1>3
    <3>3. g \o data = p \o (remainder \o data)
      <4>0. p \in Seq(Byte) /\ remainder \in Seq(Byte) /\ data \in Seq(Byte)
        BY <1>types, <3>1
      <4>1. (p \o remainder) \o data = p \o (remainder \o data) BY <4>0, ConcatAssoc, SMTT(30)
      <4> QED BY <3>1, <3>2, <4>1
    <3> QED BY <1>2, <2>3, <3>1, <3>3 DEF Accounted, bufferVars
  <2> QED BY <1>3, <2>1, <2>2, <2>3
<1>14. \A q \in Readers : chunk'[q] = data /\ at'[q] = "buffering"
  BY <1>1, <1>2, <1>3 DEF OneAtATime
<1>15. m \in 0 .. m BY <1>10
<1>16. Held(data, m)'
  <2>1. taken' = m /\ SubSeq(sent', 1, m) = g \o data BY <1>7, <1>11, <1>m
  <2>2. Accounted(data, SubSeq(sent, 1, m))' BY <1>13, <2>1 DEF Accounted
  <2> QED BY <1>types, <1>14, <1>15, <2>1, <2>2 DEF Held
<1> QED BY <1>16 DEF HeldInv

\* The range reader returns what the socket returned.
LEMMA RangeReturnHeld ==
    ASSUME OneAtATime, StreamInv, NEW r \in Readers, RangeReturns(r)
    PROVE  HeldInv'
<1>1. /\ at[r] = "buffering" /\ top = "range" /\ delivered' = delivered \o chunk[r]
      /\ Returns(r) /\ UNCHANGED <<socketVars, bufferVars, top, closing>>
  BY DEF RangeReturns
<1>2. PICK c, n : Held(c, n) BY DEF StreamInv, HeldInv
<1>3. chunk \in [Readers -> Seq(Byte)] /\ delivered \in Seq(Byte)
      /\ at \in [Readers -> {"out", "receiving", "buffering"}]
  BY StreamParts
<1>4. c = chunk[r] /\ c \in Seq(Byte) /\ delivered \o c = SubSeq(sent, 1, n)
  BY <1>1, <1>2 DEF Held, Accounted
<1>5. delivered' \o <<>> = SubSeq(sent, 1, n) BY <1>1, <1>3, <1>4
<1>6. Accounted(<<>>, SubSeq(sent, 1, n))' BY <1>1, <1>5 DEF Accounted, socketVars
<1>7. \A q \in Readers : chunk'[q] = <<>>
  BY <1>1, <1>3 DEF Returns, OneAtATime
<1>8. <<>> \in Seq(Byte) OBVIOUS
<1>9. Held(<<>>, n)' BY <1>1, <1>2, <1>6, <1>7, <1>8 DEF Held, socketVars
<1> QED BY <1>9 DEF HeldInv

\* Acknowledgements split the buffer.
LEMMA AckReturnHeld ==
    ASSUME OneAtATime, StreamInv, NEW r \in Readers, AckReturns(r)
    PROVE  HeldInv'
<1>1. /\ at[r] = "buffering" /\ top = "ack" /\ Buffers(chunk[r])
      /\ delivered' = delivered \o AutoAcknowledged(chunk[r])
      /\ Returns(r) /\ UNCHANGED <<socketVars, remainder, lines, top, closing>>
  BY DEF AckReturns
<1>2. PICK c, n : Held(c, n) BY DEF StreamInv, HeldInv
<1>3. chunk \in [Readers -> Seq(Byte)] /\ delivered \in Seq(Byte) /\ buffer \in Seq(Byte)
  BY StreamParts
<1>4. c = chunk[r] /\ c \in Seq(Byte) /\ delivered \o (buffer \o c) = SubSeq(sent, 1, n)
  BY <1>1, <1>2 DEF Held, Accounted
<1> DEFINE all == buffer \o c
<1>5. all \in Seq(Byte) BY <1>3, <1>4
<1>6. \/ buffer' = <<>> /\ delivered' = delivered \o all
      \/ buffer' = all /\ delivered' = delivered \o <<>>
  BY <1>1, <1>4 DEF Buffers, AutoAcknowledged
<1> HIDE DEF all
<1>7. delivered' \o (buffer' \o <<>>) = SubSeq(sent, 1, n)
  <2>1. CASE buffer' = <<>> /\ delivered' = delivered \o all
    <3>1. <<>> \o <<>> = <<>> OBVIOUS
    <3>2. (delivered \o all) \o <<>> = delivered \o all BY <1>3, <1>5
    <3> QED BY <1>4, <2>1, <3>1, <3>2 DEF all
  <2>2. CASE buffer' = all /\ delivered' = delivered \o <<>>
    <3>1. delivered \o <<>> = delivered /\ all \o <<>> = all BY <1>3, <1>5
    <3> QED BY <1>4, <2>2, <3>1 DEF all
  <2> QED BY <1>6, <2>1, <2>2
<1>8. Accounted(<<>>, SubSeq(sent, 1, n))' BY <1>1, <1>7 DEF Accounted, socketVars
<1>9. \A q \in Readers : chunk'[q] = <<>> BY <1>1, <1>3 DEF Returns, OneAtATime
<1>10. <<>> \in Seq(Byte) OBVIOUS
<1>11. Held(<<>>, n)' BY <1>1, <1>2, <1>8, <1>9, <1>10 DEF Held, socketVars
<1> QED BY <1>11 DEF HeldInv

\* The user acknowledges.
LEMMA AcknowledgeHeld ==
    ASSUME StreamInv, NEW r \in Readers, NEW bytes \in Sizes, Acknowledge(r, bytes)
    PROVE  HeldInv'
<1>1. /\ at[r] = "out" /\ top = "ack" /\ Acknowledges(bytes)
      /\ delivered' = delivered \o Acknowledged(bytes)
      /\ UNCHANGED <<socketVars, callVars, closing>>
  BY DEF Acknowledge, MayCall
<1>2. PICK c, n : Held(c, n) BY DEF StreamInv, HeldInv
<1>3. delivered \in Seq(Byte) /\ buffer \in Seq(Byte) /\ bytes \in Nat
  BY StreamParts, StackAssumption
<1>4. c = <<>> /\ delivered \o (buffer \o <<>>) = SubSeq(sent, 1, n)
  BY <1>1, <1>2 DEF Held, Accounted
<1>5. delivered \o buffer = SubSeq(sent, 1, n)
  <2>1. buffer \o <<>> = buffer BY <1>3
  <2> QED BY <1>4, <2>1
<1>6. delivered' \o (buffer' \o <<>>) = SubSeq(sent, 1, n)
  <2>1. CASE bytes > Len(buffer)
    <3>1. buffer' = buffer /\ delivered' = delivered \o <<>>
      BY <1>1, <2>1 DEF Acknowledges, Acknowledged
    <3>2. delivered \o <<>> = delivered BY <1>3
    <3> QED BY <1>4, <3>1, <3>2
  <2>2. CASE ~(bytes > Len(buffer))
    <3> DEFINE x == SubSeq(buffer, 1, bytes)
               y == SubSeq(buffer, bytes + 1, Len(buffer))
    <3>1. buffer' = y /\ delivered' = delivered \o x
      BY <1>1, <2>2 DEF Acknowledges, Acknowledged
    <3>2. bytes \in 0 .. Len(buffer) BY <1>3, <2>2
    <3>3. x \in Seq(Byte) /\ y \in Seq(Byte) /\ buffer = x \o y BY <1>3, <3>2, Halves
    <3> HIDE DEF x, y
    <3>4. (delivered \o x) \o y = delivered \o (x \o y) BY <1>3, <3>3, ConcatAssoc, SMTT(30)
    <3>5. y \o <<>> = y BY <3>3
    <3> QED BY <1>5, <3>1, <3>3, <3>4, <3>5
  <2> QED BY <2>1, <2>2
<1>7. Accounted(<<>>, SubSeq(sent, 1, n))' BY <1>1, <1>6 DEF Accounted, socketVars, callVars
<1>8. Held(<<>>, n)' BY <1>1, <1>2, <1>4, <1>7 DEF Held, socketVars, callVars
<1> QED BY <1>8 DEF HeldInv


\* The bytes the lemmas about text are used for: with the newline that ends what
\* is handed out, whether or not the peer can write one.
TextByte == Byte \cup {LF}

\* Texts of the peer's bytes are such texts.
LEMMA TextBytes ==
    /\ LF \in TextByte
    /\ \A s \in Seq(Byte) : s \in Seq(TextByte)
    /\ \A L \in Seq(Seq(Byte)) : L \in Seq(Seq(TextByte))
<1>1. \A s \in Seq(Byte) : s \in Seq(TextByte) BY DEF TextByte
<1>2. \A L \in Seq(Seq(Byte)) : L \in Seq(Seq(TextByte)) BY <1>1
<1> QED BY <1>1, <1>2 DEF TextByte

\* Handing out the first line that is ready.
LEMMA FirstLine ==
    ASSUME NEW d \in Seq(Byte), NEW L \in Seq(Seq(Byte)), L # <<>>
    PROVE  (d \o Append(Head(L), LF)) \o Flat(Tail(L)) = d \o Flat(L)
<1>1. LF \in TextByte /\ d \in Seq(TextByte) /\ L \in Seq(Seq(TextByte)) BY TextBytes
<1>2. /\ Head(L) \in Seq(TextByte) /\ Tail(L) \in Seq(Seq(TextByte))
      /\ Flat(L) = Append(Head(L), LF) \o Flat(Tail(L))
  BY <1>1, FlatHead
<1> DEFINE x == Append(Head(L), LF)
           y == Flat(Tail(L))
<1>3. x \in Seq(TextByte) BY <1>1, <1>2
<1>4. y \in Seq(TextByte) BY <1>1, <1>2, FlatType
<1> HIDE DEF x, y
<1>5. (d \o x) \o y = d \o (x \o y) BY <1>1, <1>3, <1>4, ConcatAssoc, SMTT(30)
<1> QED BY <1>2, <1>5 DEF x, y

\* A line that is waiting is handed out, or a Receive() of the line buffer begins.
LEMMA LineBeginHeld ==
    ASSUME StreamInv, NEW r \in Readers, ReceiveLine(r)
    PROVE  HeldInv'
<1>1. /\ at[r] = "out" /\ top = "line"
      /\ UNCHANGED <<socketVars, buffer, remainder, top, closing>>
  BY DEF ReceiveLine, MayCall
<1>2. /\ delivered \in Seq(Byte) /\ lines \in Seq(Seq(Byte))
      /\ chunk \in [Readers -> Seq(Byte)]
      /\ at \in [Readers -> {"out", "receiving", "buffering"}]
  BY StreamParts
<1>3. PICK c, n : Held(c, n) BY DEF StreamInv, HeldInv
<1>4. CASE lines # <<>>
  <2>1. /\ delivered' = delivered \o Append(Head(lines), LF) /\ lines' = Tail(lines)
        /\ UNCHANGED <<at, want, chunk>>
    BY <1>4 DEF ReceiveLine
  <2>2. delivered' \o Flat(lines') = delivered \o Flat(lines) BY <1>2, <1>4, <2>1, FirstLine
  <2>3. Accounted(c, SubSeq(sent, 1, n)) BY <1>3 DEF Held
  <2>4. Accounted(c, SubSeq(sent, 1, n))'
    BY <1>1, <2>2, <2>3 DEF Accounted, socketVars
  <2>5. Held(c, n)' BY <1>1, <1>3, <2>1, <2>4 DEF Held, socketVars
  <2> QED BY <2>5 DEF HeldInv
<1>5. CASE lines = <<>>
  <2>1. UNCHANGED <<lines, delivered>> BY <1>5 DEF ReceiveLine
  <2>2. \/ Fetch(r, 0)
        \/ at' = [at EXCEPT ![r] = "buffering"] /\ UNCHANGED <<want, chunk>>
    BY <1>5 DEF ReceiveLine
  <2>3. chunk[r] = <<>> BY <1>1, <1>3 DEF Held
  <2>4. chunk' = chunk BY <1>2, <2>2, <2>3 DEF Fetch
  <2>5. \A q \in Readers : at'[q] = at[q] \/ at[q] = "out" BY <1>1, <1>2, <2>2 DEF Fetch
  <2> QED BY <1>1, <2>1, <2>4, <2>5, HeldKeeps DEF socketVars
<1> QED BY <1>4, <1>5

\* Lines that become ready come after those that wait.
LEMMA LinesAdd ==
    ASSUME NEW d \in Seq(TextByte), NEW L \in Seq(Seq(TextByte)), NEW M \in Seq(Seq(TextByte))
    PROVE  d \o Flat(L \o M) = (d \o Flat(L)) \o Flat(M)
<1>1. LF \in TextByte BY TextBytes
<1>2. Flat(L \o M) = Flat(L) \o Flat(M) BY <1>1, FlatConcat
<1>3. PICK x, y : x = Flat(L) /\ y = Flat(M) OBVIOUS
<1>4. x \in Seq(TextByte) /\ y \in Seq(TextByte) BY <1>1, <1>3, FlatType
<1>5. (d \o x) \o y = d \o (x \o y) BY <1>4, ConcatAssoc, SMTT(30)
<1> QED BY <1>2, <1>3, <1>5

\* The text is cut: what is cut off becomes lines, and the rest stays.
LEMMA CutAccounts ==
    ASSUME ByteBefore # CR,
           NEW d \in Seq(Byte), NEW L \in Seq(Seq(Byte)), NEW p \in Seq(Byte),
           NEW text \in Seq(Byte), Whole(p), d \o Flat(L) = Text(p)
    PROVE  \E w \in Seq(Byte) : /\ Whole(w) /\ p \o text = w \o (Rest(text) \o <<>>)
                                /\ d \o Flat(L \o LinesOf(text)) = Text(w)
<1>1. /\ Rest(text) \in Seq(Byte) /\ ~HasNewline(Rest(text))
      /\ \E q \in Seq(Byte) : text = q \o Rest(text) /\ Whole(q)
  BY Cut
<1>2. PICK q \in Seq(Byte) : text = q \o Rest(text) /\ Whole(q) BY <1>1
<1> DEFINE w == p \o q
           rest == Rest(text)
           M == LinesOf(text)
<1>3. w \in Seq(Byte) /\ rest \in Seq(Byte) BY <1>1
<1>4. Whole(w)
  <2>1. CASE q = <<>>
    <3>1. w = p BY <2>1
    <3> QED BY <3>1
  <2>2. CASE q # <<>>
    <3>1. Len(q) \in 1 .. Len(q) /\ q[Len(q)] = LF BY <1>2, <2>2 DEF Whole
    <3>2. Len(w) = Len(p) + Len(q) OBVIOUS
    <3>3. w[Len(p) + Len(q)] = q[Len(q)] BY <3>1
    <3> QED BY <3>1, <3>2, <3>3 DEF Whole
  <2> QED BY <2>1, <2>2
<1>5. p \o text = w \o (rest \o <<>>)
  <2>0. rest \in Seq(Byte) BY <1>3
  <2> HIDE DEF rest
  <2>1. (p \o q) \o rest = p \o (q \o rest) BY <2>0, ConcatAssoc, SMTT(30)
  <2>2. rest \o <<>> = rest BY <2>0
  <2> QED BY <1>2, <2>1, <2>2 DEF rest
<1>6. Text(w) = Text(p) \o Text(q) BY TextConcat
<1>7. Text(q) = Text(text)
  <2>1. Text(q \o rest) = Text(q) \o Text(rest) BY <1>2, <1>3, TextConcat
  <2>2. Text(rest) = <<>> BY <1>1, TextFree
  <2>3. Text(q) \in Seq(Byte) BY TextType
  <2>4. Text(q) \o <<>> = Text(q) BY <2>3
  <2> QED BY <1>2, <2>1, <2>2, <2>4
<1>8. /\ LF \in TextByte /\ d \in Seq(TextByte) /\ text \in Seq(TextByte)
      /\ L \in Seq(Seq(TextByte)) /\ M \in Seq(Seq(TextByte))
  <2>1. M \in Seq(Seq(Byte)) BY LinesType
  <2> HIDE DEF M
  <2> QED BY <2>1, TextBytes
<1>9. Flat(M) = Text(text) BY <1>8, LinesText
<1> HIDE DEF w, rest, M
<1>10. d \o Flat(L \o M) = (d \o Flat(L)) \o Flat(M) BY <1>8, LinesAdd
<1>11. d \o Flat(L \o M) = Text(w) BY <1>6, <1>7, <1>9, <1>10
<1> QED BY <1>3, <1>4, <1>5, <1>11 DEF rest, M

\* The line buffer goes round its loop, or cuts the text and hands out a line.
LEMMA LineReturnHeld ==
    ASSUME OneAtATime, ByteBefore # CR, StreamInv, NEW r \in Readers, LineReturns(r)
    PROVE  HeldInv'
<1> DEFINE text == remainder \o chunk[r]
           ready == lines \o LinesOf(text)
<1>1. /\ at[r] = "buffering" /\ top = "line"
      /\ UNCHANGED <<socketVars, buffer, top, closing>>
  BY DEF LineReturns
<1>2. /\ chunk \in [Readers -> Seq(Byte)] /\ delivered \in Seq(Byte)
      /\ remainder \in Seq(Byte) /\ lines \in Seq(Seq(Byte))
      /\ at \in [Readers -> {"out", "receiving", "buffering"}]
      /\ closing \in {"no", "waiting"}
  BY <1>1, StreamParts
<1>3. PICK c, n : Held(c, n) BY DEF StreamInv, HeldInv
<1>4. c = chunk[r] /\ c \in Seq(Byte) BY <1>3 DEF Held
<1>5. PICK p \in Seq(Byte) : /\ Whole(p) /\ SubSeq(sent, 1, n) = p \o (remainder \o c)
                             /\ delivered \o Flat(lines) = Text(p)
  BY <1>1, <1>3 DEF Held, Accounted
<1>6. text \in Seq(Byte) BY <1>2
<1>7. SubSeq(sent, 1, n) = p \o text BY <1>4, <1>5
<1>8. chunk' = [chunk EXCEPT ![r] = <<>>]
  BY DEF LineReturns, Fetch, Returns
<1>9. \A q \in Readers : chunk'[q] = <<>> BY <1>2, <1>8 DEF OneAtATime
<1>10. <<>> \in Seq(Byte) OBVIOUS
<1>11. CASE chunk[r] # <<>> /\ WantsMore(text, RangeEOF)
  <2>1. remainder' = text /\ UNCHANGED <<lines, delivered>> BY <1>11 DEF LineReturns
  <2>2. remainder' \o <<>> = text BY <1>6, <2>1
  <2>3. Accounted(<<>>, SubSeq(sent, 1, n))'
    BY <1>1, <1>5, <1>7, <2>1, <2>2 DEF Accounted, socketVars
  <2>4. Held(<<>>, n)' BY <1>1, <1>3, <1>9, <1>10, <2>3 DEF Held, socketVars
  <2> QED BY <2>4 DEF HeldInv
<1>12. CASE ~(chunk[r] # <<>> /\ WantsMore(text, RangeEOF))
  <2>1. /\ remainder' = Rest(text)
        /\ lines' = IF ready = <<>> THEN <<>> ELSE Tail(ready)
        /\ delivered' = IF ready = <<>> THEN delivered
                        ELSE delivered \o Append(Head(ready), LF)
    BY <1>12 DEF LineReturns
  <2>2. ready \in Seq(Seq(Byte)) BY <1>6, ReadyLines DEF StreamInv
  <2>3. PICK w \in Seq(Byte) : /\ Whole(w) /\ p \o text = w \o (Rest(text) \o <<>>)
                               /\ delivered \o Flat(ready) = Text(w)
    BY <1>2, <1>5, <1>6, CutAccounts
  <2> HIDE DEF text, ready
  <2>4. delivered' \o Flat(lines') = delivered \o Flat(ready)
    <3>1. CASE ready = <<>> BY <2>1, <3>1
    <3>2. CASE ready # <<>> BY <1>2, <2>1, <2>2, <3>2, FirstLine
    <3> QED BY <3>1, <3>2
  <2>5. Accounted(<<>>, SubSeq(sent, 1, n))'
    <3>1. SubSeq(sent', 1, n) = w \o (remainder' \o <<>>)
      BY <1>1, <1>7, <2>1, <2>3 DEF socketVars
    <3>2. delivered' \o Flat(lines') = Text(w) BY <2>3, <2>4
    <3>3. top' = "line" BY <1>1
    <3> QED BY <2>3, <3>1, <3>2, <3>3 DEF Accounted
  <2>6. Held(<<>>, n)' BY <1>1, <1>3, <1>9, <1>10, <2>5 DEF Held, socketVars
  <2> QED BY <2>6 DEF HeldInv
<1> QED BY <1>11, <1>12


\* Shutdown() eats the rest of a range, which is no callback's loss.
LEMMA DrainHeld ==
    ASSUME StreamInv, ShutdownDrains
    PROVE  HeldInv'
<1>1. /\ closing = "draining" /\ UNCHANGED <<bufferVars, callVars, closing, delivered>>
  BY DEF ShutdownDrains
<1>2. PICK data \in Received(max - offset) : Consumes(data) BY DEF ShutdownDrains, Drain
<1>3. max - offset \in Nat /\ SocketOK
  <2>1. SocketOK /\ RangeOK BY TypeParts DEF StreamInv
  <2>2. Ranged /\ offset < max BY DEF ShutdownDrains, Drain
  <2>3. max \in Nat /\ offset \in Nat BY <2>1, <2>2, RangeAssumption DEF RangeOK, Ranged
  <2> QED BY <2>1, <2>2, <2>3
<1>4. taken' = taken + Len(data) /\ sent' = sent /\ Len(data) \in Nat /\ taken \in Nat
  <2>1. Len(data) \in 0 .. Len(sent) - taken BY <1>3, ReceivedLength
  <2> QED BY <1>2, <1>3, <2>1 DEF Consumes, SocketConsumes, SocketOK
<1>5. PICK c, n : Held(c, n) BY DEF StreamInv, HeldInv
<1>6. n \in 0 .. taken' BY <1>4, <1>5 DEF Held
<1>7. Accounted(c, SubSeq(sent, 1, n)) BY <1>5 DEF Held
<1>8. Accounted(c, SubSeq(sent, 1, n))'
  BY <1>1, <1>4, <1>7 DEF Accounted, bufferVars, callVars
<1>9. \A r \in Readers : chunk'[r] = c /\ (at'[r] # "buffering" => c = <<>>)
  BY <1>1, <1>5 DEF Held, callVars
<1>10. Held(c, n)' BY <1>1, <1>5, <1>6, <1>8, <1>9 DEF Held
<1> QED BY <1>10 DEF HeldInv

\* The peer writes: what was taken stays what it was.
LEMMA PeerHeld ==
    ASSUME StreamInv, PeerActs
    PROVE  HeldInv'
<1>1. UNCHANGED <<taken, bufferVars, callVars, closing, delivered>>
  BY DEF PeerActs, PeerWrites, PeerCloses
<1>2. PICK c, n : Held(c, n) BY DEF StreamInv, HeldInv
<1>3. sent \in Seq(Byte) /\ Len(sent) \in Nat /\ taken \in 0 .. Len(sent) BY StreamParts
<1>4. n \in 0 .. Len(sent) BY <1>2, <1>3 DEF Held
<1>5. SubSeq(sent', 1, n) = SubSeq(sent, 1, n)
  <2>1. ASSUME NEW b \in Byte, sent' = Append(sent, b)
        PROVE  SubSeq(sent', 1, n) = SubSeq(sent, 1, n)
    BY <1>3, <1>4, <2>1
  <2> QED BY <2>1 DEF PeerActs, PeerWrites, PeerCloses
<1>6. Accounted(c, SubSeq(sent, 1, n)) BY <1>2 DEF Held
<1>7. Accounted(c, SubSeq(sent, 1, n))'
  BY <1>1, <1>5, <1>6 DEF Accounted, bufferVars, callVars
<1>8. Held(c, n)' BY <1>1, <1>2, <1>7 DEF Held, callVars
<1> QED BY <1>8 DEF HeldInv

\* The other steps hand out, keep and take nothing.
LEMMA OtherHeld ==
    ASSUME StreamInv,
           \/ ShutdownBegins \/ ShutdownLocks \/ ShutdownEnds \/ RawShutdown
           \/ \E r \in Readers, on \in BOOLEAN : SetAutoAck(r, on) \/ SetBlocking(r, on)
    PROVE  HeldInv'
<1>1. UNCHANGED <<sent, taken, top, delivered, buffer, remainder, lines, chunk, at>>
  BY DEF ShutdownBegins, ShutdownLocks, ShutdownEnds, RawShutdown, SetEOF, SetAutoAck,
     SetBlocking, SwitchesBlocking, socketVars, bufferVars, callVars
<1>2. closing' \in {"no", "waiting"} => closing \in {"no", "waiting"}
  BY DEF ShutdownBegins, ShutdownLocks, ShutdownEnds, RawShutdown, SetAutoAck, SetBlocking
<1> QED BY <1>1, <1>2, HeldKeeps

\* A Receive() of the range reader or of the acknowledgement buffer begins.
LEMMA BeginHeld ==
    ASSUME StreamInv, NEW r \in Readers, NEW m \in Sizes,
           ReceiveFromRange(r, m) \/ ReceiveUnacknowledged(r, m)
    PROVE  HeldInv'
<1>1. /\ at[r] = "out"
      /\ UNCHANGED <<socketVars, rangeVars, bufferVars, top, owned, closing, delivered>>
  BY DEF ReceiveFromRange, ReceiveUnacknowledged, MayCall
<1>2. chunk' = [chunk EXCEPT ![r] = <<>>]
      /\ at' = [at EXCEPT ![r] = IF Exhausted THEN "buffering" ELSE "receiving"]
  BY DEF ReceiveFromRange, ReceiveUnacknowledged, Fetch
<1>3. chunk \in [Readers -> Seq(Byte)] /\ at \in [Readers -> {"out", "receiving", "buffering"}]
  BY StreamParts
<1>4. PICK c, n : Held(c, n) BY DEF StreamInv, HeldInv
<1>5. chunk[r] = <<>> BY <1>1, <1>4 DEF Held
<1>6. chunk' = chunk BY <1>2, <1>3, <1>5
<1>7. \A q \in Readers : at'[q] = at[q] \/ at[q] = "out" BY <1>1, <1>2, <1>3
<1> QED BY <1>1, <1>6, <1>7, HeldKeeps DEF socketVars, bufferVars

\* The invariant is kept.
LEMMA StreamStep ==
    ASSUME OneAtATime, ByteBefore # CR, StreamInv, [Next]_vars
    PROVE  StreamInv'
<1>1. TypeInv' BY StreamTypeStep DEF StreamInv
<1>2. RangeInv' BY RangeStep DEF StreamInv
<1>3. HeldInv'
  <2>1. CASE UNCHANGED vars
    <3>1. UNCHANGED <<sent, taken, top, delivered, buffer, remainder, lines, chunk, at, closing>>
      BY <2>1 DEF vars, socketVars, bufferVars, callVars
    <3> QED BY <3>1, HeldKeeps
  <2>2. ASSUME NEW r \in Readers, Step(r) PROVE HeldInv'
    BY <2>2, AnswerHeld, RangeReturnHeld, AckReturnHeld, LineReturnHeld DEF Step
  <2>3. ASSUME NEW r \in Readers, Call(r) PROVE HeldInv'
    BY <2>3, LineBeginHeld, BeginHeld DEF Call
  <2>4. ASSUME NEW r \in Readers, NEW n \in Sizes, Acknowledge(r, n) PROVE HeldInv'
    BY <2>4, AcknowledgeHeld
  <2>5. CASE ShutdownDrains \/ PeerActs BY <2>5, DrainHeld, PeerHeld
  <2>6. CASE \/ ShutdownBegins \/ ShutdownLocks \/ ShutdownEnds \/ RawShutdown
             \/ \E r \in Readers, on \in BOOLEAN : SetAutoAck(r, on) \/ SetBlocking(r, on)
    BY <2>6, OtherHeld
  <2> QED BY <2>1, <2>2, <2>3, <2>4, <2>5, <2>6 DEF Next, Shutdown
<1> QED BY <1>1, <1>2, <1>3 DEF StreamInv

\* It holds at the beginning.
LEMMA StreamInit == Init => StreamInv
BY StreamTypeInit, InitRange, HeldInit DEF StreamInv

\* What is accounted for is not lost.
LEMMA AccountedIsNotLost == StreamInv => NothingLost
<1> SUFFICES ASSUME StreamInv, closing \in {"no", "waiting"}, NEW r \in Readers
             PROVE  CASE top = "range" -> delivered \o chunk[r] = Consumed
                      [] top = "ack"   -> delivered \o buffer \o chunk[r] = Consumed
                      [] top = "line"  ->
                            /\ IsSuffix(remainder \o chunk[r], Consumed)
                            /\ delivered \o FlattenSeq([i \in DOMAIN lines |-> Append(lines[i], LF)])
                                 \o Text(remainder \o chunk[r]) = Text(Consumed)
  BY DEF NothingLost
<1>1. PICK c, n : Held(c, n) BY DEF StreamInv, HeldInv
<1>2. c = chunk[r] /\ c \in Seq(Byte) /\ Accounted(c, Consumed)
  BY <1>1 DEF Held, Consumed
<1>3. /\ delivered \in Seq(Byte) /\ buffer \in Seq(Byte) /\ remainder \in Seq(Byte)
      /\ top \in {"ack", "line", "range"}
  BY StreamParts
<1>4. CASE top = "range" BY <1>2, <1>4 DEF Accounted
<1>5. CASE top = "ack"
  <2>0. delivered \in Seq(Byte) /\ buffer \in Seq(Byte) /\ c \in Seq(Byte) BY <1>2, <1>3
  <2>1. (delivered \o buffer) \o c = delivered \o (buffer \o c) BY <2>0, ConcatAssoc, SMTT(30)
  <2> QED BY <1>2, <1>5, <2>1 DEF Accounted
<1>6. CASE top = "line"
  <2>1. PICK p \in Seq(Byte) : /\ Whole(p) /\ Consumed = p \o (remainder \o c)
                               /\ delivered \o Flat(lines) = Text(p)
    BY <1>2, <1>6 DEF Accounted
  <2> DEFINE text == remainder \o c
  <2>2. text \in Seq(Byte) BY <1>2, <1>3
  <2> HIDE DEF text
  <2>3. IsSuffix(text, p \o text) BY <2>2, SuffixOfConcat
  <2>4. Text(p \o text) = Text(p) \o Text(text) BY <2>1, <2>2, TextConcat
  <2>5. Flat(lines) = FlattenSeq([i \in DOMAIN lines |-> Append(lines[i], LF)])
    BY DEF Flat, Ended
  <2>6. IsSuffix(remainder \o chunk[r], Consumed) BY <1>2, <2>1, <2>3 DEF text
  <2>7. delivered \o Flat(lines) \o Text(remainder \o chunk[r]) = Text(Consumed)
    BY <1>2, <2>1, <2>4 DEF text
  <2> QED BY <1>6, <2>5, <2>6, <2>7
<1> QED BY <1>3, <1>4, <1>5, <1>6

\* Until Shutdown() has the lock, every byte taken from the socket was handed
\* out, is in a buffer or is the answer a callback was just given.
THEOREM NothingIsLost ==
    ASSUME OneAtATime, ByteBefore # CR
    PROVE  Spec => []NothingLost
<1>1. StreamInv /\ [Next]_vars => StreamInv' BY StreamStep
<1> QED BY StreamInit, <1>1, AccountedIsNotLost, PTL DEF Spec


-----------------------------------------------------------------------------
(* The refinement.                                                         *)

\* What a reader may be handed begins with what was taken.
LEMMA InRangeIs ==
    ASSUME StreamInv
    PROVE  \E k \in taken .. Len(sent) : InRange = SubSeq(sent, 1, k)
<1>1. sent \in Seq(Byte) /\ Len(sent) \in Nat /\ taken \in 0 .. Len(sent) BY StreamParts
<1>2. CASE ~Ranged
  <2>1. InRange = SubSeq(sent, 1, Len(sent)) BY <1>1, <1>2 DEF InRange
  <2>2. Len(sent) \in taken .. Len(sent) BY <1>1
  <2> QED BY <2>1, <2>2
<1>3. CASE Ranged
  <2>1. RangeOK BY TypeParts DEF StreamInv
  <2>2. max \in Nat BY <1>3, <2>1, RangeAssumption DEF RangeOK, Ranged
  <2>3. taken <= max BY <1>3 DEF StreamInv, RangeInv, RangeIsExact
  <2>4. PICK l : l = Len(sent) OBVIOUS
  <2>5. max \in Int /\ l \in Int BY <1>1, <2>2, <2>4
  <2>6. Min({max, l}) \in {max, l} /\ Min({max, l}) <= l BY <2>5, MinOfTwo
  <2>7. Min({max, l}) \in taken .. l BY <1>1, <2>2, <2>3, <2>4, <2>6
  <2>8. InRange = SubSeq(sent, 1, Min({max, l})) BY <1>3, <2>4 DEF InRange
  <2> QED BY <2>4, <2>7, <2>8
<1> QED BY <1>2, <1>3

\* What was handed out is the beginning of what is promised.
LEMMA DeliveredIsPromised ==
    ASSUME StreamInv
    PROVE  IsPrefix(delivered, Promised)
<1>1. /\ sent \in Seq(Byte) /\ Len(sent) \in Nat /\ taken \in 0 .. Len(sent)
      /\ delivered \in Seq(Byte) /\ buffer \in Seq(Byte) /\ remainder \in Seq(Byte)
      /\ lines \in Seq(Seq(Byte)) /\ top \in {"ack", "line", "range"}
  BY StreamParts
<1>2. PICK c, n : Held(c, n) BY DEF StreamInv, HeldInv
<1>3. c \in Seq(Byte) /\ n \in 0 .. taken /\ Accounted(c, SubSeq(sent, 1, n)) BY <1>2 DEF Held
<1>4. PICK k \in taken .. Len(sent) : InRange = SubSeq(sent, 1, k) BY InRangeIs
<1>5. PICK g, t : g = SubSeq(sent, 1, n) /\ t = SubSeq(sent, n + 1, k) OBVIOUS
<1>6. InRange = g \o t /\ g \in Seq(Byte) /\ t \in Seq(Byte)
  <2>1. n \in 0 .. Len(sent) /\ k \in n .. Len(sent) BY <1>1, <1>3
  <2>2. SubSeq(sent, 1, k) = SubSeq(sent, 1, n) \o SubSeq(sent, n + 1, k)
    BY <1>1, <2>1, Segments
  <2>3. g \in Seq(Byte) BY <1>1, <1>5, <2>1, Halves
  <2>4. t \in Seq(Byte)
    <3>1. n + 1 \in 1 .. Len(sent) + 1 /\ k \in n + 1 - 1 .. Len(sent) BY <1>1, <2>1
    <3> QED BY <1>1, <1>5, <3>1, Segment
  <2> QED BY <1>4, <1>5, <2>2, <2>3, <2>4
<1>7. CASE top \in {"range", "ack"}
  <2>1. \E u \in Seq(Byte) : g = delivered \o u
    <3>1. CASE top = "range" BY <1>3, <1>5, <3>1 DEF Accounted
    <3>2. CASE top = "ack"
      <4>1. buffer \o c \in Seq(Byte) BY <1>1, <1>3
      <4> QED BY <1>3, <1>5, <3>2, <4>1 DEF Accounted
    <3> QED BY <1>7, <3>1, <3>2
  <2>2. PICK u \in Seq(Byte) : g = delivered \o u BY <2>1
  <2>0. delivered \in Seq(Byte) /\ u \in Seq(Byte) /\ t \in Seq(Byte) BY <1>1, <1>6, <2>2
  <2>3. (delivered \o u) \o t = delivered \o (u \o t) BY <2>0, ConcatAssoc, SMTT(30)
  <2>4. u \o t \in Seq(Byte) BY <1>6
  <2>5. IsPrefix(delivered, delivered \o (u \o t)) BY <1>1, <2>4, PrefixOfConcat
  <2>6. Promised = delivered \o (u \o t) BY <1>6, <1>7, <2>2, <2>3 DEF Promised
  <2> QED BY <2>5, <2>6
<1>8. CASE top = "line"
  <2>1. PICK p \in Seq(Byte) : /\ Whole(p) /\ g = p \o (remainder \o c)
                               /\ delivered \o Flat(lines) = Text(p)
    BY <1>3, <1>5, <1>8 DEF Accounted
  <2>0. remainder \in Seq(Byte) /\ c \in Seq(Byte) BY <1>1, <1>3
  <2>2. PICK u \in Seq(Byte) : u = remainder \o c
    <3>1. remainder \o c \in Seq(Byte) BY <2>0
    <3> QED BY <3>1
  <2>3. u \o t \in Seq(Byte) BY <1>6
  <2>u. p \in Seq(Byte) /\ u \in Seq(Byte) /\ t \in Seq(Byte) BY <1>6
  <2>4. (p \o u) \o t = p \o (u \o t) BY <2>u, ConcatAssoc, SMTT(30)
  <2>5. Text(p \o (u \o t)) = Text(p) \o Text(u \o t) BY <2>1, <2>3, TextConcat
  <2>6. Promised = Text(p) \o Text(u \o t)
    BY <1>6, <1>8, <2>1, <2>2, <2>4, <2>5 DEF Promised
  <2>7. PICK x \in Seq(TextByte), y \in Seq(TextByte) : x = Flat(lines) /\ y = Text(u \o t)
    <3>1. LF \in TextByte /\ lines \in Seq(Seq(TextByte)) BY <1>1, TextBytes
    <3>2. Flat(lines) \in Seq(TextByte) BY <3>1, FlatType
    <3>3. Text(u \o t) \in Seq(Byte) BY <2>3, TextType
    <3>4. Text(u \o t) \in Seq(TextByte) BY <3>3, TextBytes
    <3> QED BY <3>2, <3>4
  <2>8. delivered \in Seq(TextByte) BY <1>1, TextBytes
  <2>9. (delivered \o x) \o y = delivered \o (x \o y) BY <2>8, ConcatAssoc, SMTT(30)
  <2>10. x \o y \in Seq(TextByte) OBVIOUS
  <2>11. IsPrefix(delivered, delivered \o (x \o y)) BY <2>8, <2>10, PrefixOfConcat
  <2>12. Promised = delivered \o (x \o y) BY <2>1, <2>6, <2>7, <2>9
  <2> QED BY <2>11, <2>12
<1> QED BY <1>1, <1>7, <1>8

\* What was handed out is not taken back.
LEMMA DeliveredGrows ==
    ASSUME StreamInv, [Next]_vars
    PROVE  IsPrefix(delivered, delivered')
<1>0. /\ delivered \in Seq(TextByte) /\ buffer \in Seq(Byte) /\ remainder \in Seq(Byte)
      /\ lines \in Seq(Seq(Byte)) /\ chunk \in [Readers -> Seq(Byte)]
  BY StreamParts, TextBytes
<1> SUFFICES \E x \in Seq(TextByte) : delivered' = delivered \o x
  BY <1>0, PrefixOfConcat
<1>1. <<>> \in Seq(TextByte) /\ delivered \o <<>> = delivered BY <1>0
<1>2. CASE UNCHANGED delivered BY <1>1, <1>2
<1>3. ASSUME NEW r \in Readers, RangeReturns(r)
      PROVE  \E x \in Seq(TextByte) : delivered' = delivered \o x
  <2>1. chunk[r] \in Seq(TextByte) BY <1>0, TextBytes
  <2> QED BY <1>3, <2>1 DEF RangeReturns
<1>4. ASSUME NEW r \in Readers, AckReturns(r)
      PROVE  \E x \in Seq(TextByte) : delivered' = delivered \o x
  <2>1. chunk[r] \in Seq(Byte) BY <1>0
  <2>2. buffer \o chunk[r] \in Seq(Byte) BY <1>0, <2>1
  <2>3. buffer \o chunk[r] \in Seq(TextByte) BY <2>2, TextBytes
  <2>4. AutoAcknowledged(chunk[r]) \in Seq(TextByte) BY <1>1, <2>3 DEF AutoAcknowledged
  <2> QED BY <1>4, <2>4 DEF AckReturns
<1>5. ASSUME NEW r \in Readers, NEW n \in Sizes, Acknowledge(r, n)
      PROVE  \E x \in Seq(TextByte) : delivered' = delivered \o x
  <2>1. n \in Nat BY StackAssumption
  <2>2. n <= Len(buffer) => SubSeq(buffer, 1, n) \in Seq(Byte)
    <3>1. n <= Len(buffer) => n \in 0 .. Len(buffer) BY <1>0, <2>1
    <3> QED BY <1>0, <3>1, Halves
  <2>3. n <= Len(buffer) => SubSeq(buffer, 1, n) \in Seq(TextByte) BY <2>2, TextBytes
  <2>4. Acknowledged(n) \in Seq(TextByte) BY <1>0, <1>1, <2>1, <2>3 DEF Acknowledged
  <2> QED BY <1>5, <2>4 DEF Acknowledge
<1>6. ASSUME NEW L \in Seq(Seq(Byte)), L # <<>>, delivered' = delivered \o Append(Head(L), LF)
      PROVE  \E x \in Seq(TextByte) : delivered' = delivered \o x
  <2>1. LF \in TextByte /\ L \in Seq(Seq(TextByte)) BY TextBytes
  <2>2. Head(L) \in Seq(TextByte) BY <1>6, <2>1, FlatHead
  <2>3. Append(Head(L), LF) \in Seq(TextByte) BY <2>1, <2>2
  <2> QED BY <1>6, <2>3
<1>7. ASSUME NEW r \in Readers, ReceiveLine(r)
      PROVE  \E x \in Seq(TextByte) : delivered' = delivered \o x
  <2>1. CASE lines # <<>>
    <3>1. delivered' = delivered \o Append(Head(lines), LF) BY <1>7, <2>1 DEF ReceiveLine
    <3> QED BY <1>0, <1>6, <2>1, <3>1
  <2>2. CASE lines = <<>> BY <1>2, <1>7, <2>2 DEF ReceiveLine
  <2> QED BY <2>1, <2>2
<1>8. ASSUME NEW r \in Readers, LineReturns(r)
      PROVE  \E x \in Seq(TextByte) : delivered' = delivered \o x
  <2> DEFINE text == remainder \o chunk[r]
             ready == lines \o LinesOf(text)
  <2>1. text \in Seq(Byte) BY <1>0
  <2>2. ready \in Seq(Seq(Byte)) BY <2>1, ReadyLines DEF StreamInv
  <2>3. \/ delivered' = delivered
        \/ ready # <<>> /\ delivered' = delivered \o Append(Head(ready), LF)
    <3>1. CASE chunk[r] # <<>> /\ WantsMore(text, RangeEOF)
      <4>1. UNCHANGED <<lines, delivered>> BY <1>8, <3>1 DEF LineReturns
      <4> QED BY <4>1
    <3>2. CASE ~(chunk[r] # <<>> /\ WantsMore(text, RangeEOF))
      <4>1. delivered' = IF ready = <<>> THEN delivered
                         ELSE delivered \o Append(Head(ready), LF)
        BY <1>8, <3>2 DEF LineReturns
      <4> QED BY <4>1
    <3> QED BY <3>1, <3>2
  <2> HIDE DEF ready
  <2> QED BY <1>2, <1>6, <2>2, <2>3
<1>9. ASSUME NEW r \in Readers, NEW n \in Sizes,
             ReceiveFromRange(r, n) \/ ReceiveUnacknowledged(r, n)
      PROVE  UNCHANGED delivered
  BY <1>9 DEF ReceiveFromRange, ReceiveUnacknowledged
<1>10. ASSUME NEW r \in Readers, SocketAnswers(r) PROVE UNCHANGED delivered
  BY <1>10 DEF SocketAnswers
<1>11. CASE \/ Shutdown \/ RawShutdown \/ PeerActs
            \/ \E r \in Readers, on \in BOOLEAN : SetAutoAck(r, on) \/ SetBlocking(r, on)
  <2>1. UNCHANGED delivered
    BY <1>11 DEF Shutdown, ShutdownBegins, ShutdownLocks, ShutdownDrains, ShutdownEnds,
       RawShutdown, PeerActs, SetAutoAck, SetBlocking
  <2> QED BY <1>2, <2>1
<1>12. CASE UNCHANGED vars BY <1>2, <1>12 DEF vars
<1> QED BY <1>2, <1>3, <1>4, <1>5, <1>7, <1>8, <1>9, <1>10, <1>11, <1>12 DEF Next, Step, Call

\* A prefix of what is sent is one of what is promised.
LEMMA PromisedGrows ==
    ASSUME StreamInv, NEW b \in Byte, sent' = Append(sent, b), UNCHANGED <<max, top>>
    PROVE  IsPrefix(Promised, Promised')
<1>1. sent \in Seq(Byte) /\ Len(sent) \in Nat BY StreamParts
<1>2. sent' \in Seq(Byte) /\ Len(sent') = Len(sent) + 1 /\ SubSeq(sent', 1, Len(sent)) = sent
  BY <1>1
<1>3. \A k \in 0 .. Len(sent) : SubSeq(sent', 1, k) = SubSeq(sent, 1, k) BY <1>1
<1>4. \E j \in Nat, k \in Nat : /\ j <= k /\ k <= Len(sent') /\ j <= Len(sent)
                                /\ InRange = SubSeq(sent, 1, j)
                                /\ InRange' = SubSeq(sent', 1, k)
  <2>1. CASE ~Ranged
    <3>1. InRange = sent /\ InRange' = sent' BY <2>1 DEF InRange, Ranged
    <3>2. sent = SubSeq(sent, 1, Len(sent)) /\ sent' = SubSeq(sent', 1, Len(sent'))
      BY <1>1, <1>2
    <3>3. PICK l, h : l = Len(sent) /\ h = Len(sent') OBVIOUS
    <3>4. l \in Nat /\ h \in Nat /\ l <= h /\ h <= h /\ l <= l BY <1>1, <1>2, <3>3
    <3>5. InRange = SubSeq(sent, 1, l) /\ InRange' = SubSeq(sent', 1, h) BY <3>1, <3>2, <3>3
    <3> QED BY <3>3, <3>4, <3>5
  <2>2. CASE Ranged
    <3>1. RangeOK BY TypeParts DEF StreamInv
    <3>2. max \in Nat BY <2>2, <3>1, RangeAssumption DEF RangeOK, Ranged
    <3>3. PICK m, l, h : m = max /\ l = Len(sent) /\ h = Len(sent') OBVIOUS
    <3>4. m \in Nat /\ l \in Nat /\ h = l + 1 BY <1>1, <1>2, <3>2, <3>3
    <3>5. m \in Int /\ l \in Int /\ h \in Int BY <3>4
    <3>6. Min({m, l}) \in {m, l} /\ Min({m, l}) <= m /\ Min({m, l}) <= l BY <3>5, MinOfTwo
    <3>7. Min({m, h}) \in {m, h} /\ Min({m, h}) <= m /\ Min({m, h}) <= h BY <3>5, MinOfTwo
    <3>8. PICK j, k : j = Min({m, l}) /\ k = Min({m, h}) OBVIOUS
    <3>9. j \in Nat /\ k \in Nat /\ j <= k /\ k <= h /\ j <= l BY <3>4, <3>6, <3>7, <3>8
    <3>10. InRange = SubSeq(sent, 1, j) BY <2>2, <3>3, <3>8 DEF InRange
    <3>11. InRange' = SubSeq(sent', 1, k) BY <2>2, <3>3, <3>8 DEF InRange, Ranged
    <3> QED BY <3>3, <3>9, <3>10, <3>11
  <2> QED BY <2>1, <2>2
<1>5. PICK j \in Nat, k \in Nat : /\ j <= k /\ k <= Len(sent') /\ j <= Len(sent)
                                  /\ InRange = SubSeq(sent, 1, j)
                                  /\ InRange' = SubSeq(sent', 1, k)
  BY <1>4
<1>6. InRange = SubSeq(sent', 1, j) BY <1>1, <1>3, <1>5
<1>7. PICK s : s = sent' OBVIOUS
<1>8. PICK p, t : p = SubSeq(s, 1, j) /\ t = SubSeq(s, j + 1, k) OBVIOUS
<1>9. SubSeq(s, 1, k) = p \o t /\ p \in Seq(Byte) /\ t \in Seq(Byte)
  <2>1. s \in Seq(Byte) /\ j \in 0 .. Len(s) /\ k \in j .. Len(s) BY <1>1, <1>2, <1>5, <1>7
  <2>2. SubSeq(s, 1, k) = SubSeq(s, 1, j) \o SubSeq(s, j + 1, k) BY <2>1, Segments
  <2>3. p \in Seq(Byte) BY <1>8, <2>1, Halves
  <2>4. j + 1 \in 1 .. Len(s) + 1 /\ k \in j + 1 - 1 .. Len(s) BY <2>1
  <2>5. t \in Seq(Byte) BY <1>8, <2>1, <2>4, Segment
  <2> QED BY <1>8, <2>2, <2>3, <2>5
<1>10. InRange = p /\ InRange' = p \o t BY <1>5, <1>6, <1>7, <1>8, <1>9
<1>11. IsPrefix(p, p \o t) /\ IsPrefix(Text(p), Text(p \o t))
  BY <1>9, PrefixOfConcat, TextPrefix
<1> QED BY <1>10, <1>11 DEF Promised



\* A step of the stack is one of the stream, or none.
LEMMA StreamAdvances ==
    ASSUME StreamInv, IsPrefix(delivered', Promised'), [Next]_vars
    PROVE  [Stream!Send \/ Stream!Deliver]_<<Promised, delivered>>
<1>0. \A s, t : IsPrefix(s, t) => Stream!IsPrefix(s, t) BY DEF IsPrefix, Stream!IsPrefix
<1>1. CASE /\ \E b \in Byte : sent' = Append(sent, b)
           /\ UNCHANGED <<max, top, delivered>>
  <2>1. IsPrefix(Promised, Promised') BY <1>1, PromisedGrows
  <2> QED BY <1>0, <1>1, <2>1 DEF Stream!Send
<1>2. CASE UNCHANGED <<sent, max, top>>
  <2>1. InRange' = InRange BY <1>2 DEF InRange, Ranged
  <2>2. Promised' = Promised BY <1>2, <2>1 DEF Promised
  <2>3. IsPrefix(delivered, delivered') BY DeliveredGrows
  <2>4. IsPrefix(delivered', Promised) BY <2>2
  <2> QED BY <1>0, <2>2, <2>3, <2>4 DEF Stream!Deliver
<1>3. \/ (\E b \in Byte : sent' = Append(sent, b)) /\ UNCHANGED <<max, top, delivered>>
      \/ UNCHANGED <<sent, max, top>>
  <2>1. ASSUME NEW r \in Readers, SocketAnswers(r) PROVE UNCHANGED <<sent, max, top>>
    BY <2>1 DEF SocketAnswers, Consumes, SocketConsumes
  <2>2. ASSUME NEW r \in Readers, RangeReturns(r) \/ AckReturns(r) \/ LineReturns(r)
        PROVE  UNCHANGED <<sent, max, top>>
    BY <2>2 DEF RangeReturns, AckReturns, LineReturns, socketVars, rangeVars
  <2>3. ASSUME NEW r \in Readers, Call(r) PROVE UNCHANGED <<sent, max, top>>
    BY <2>3 DEF Call, ReceiveLine, ReceiveFromRange, ReceiveUnacknowledged, socketVars, rangeVars
  <2>4. ASSUME NEW r \in Readers, NEW n \in Sizes, Acknowledge(r, n)
        PROVE  UNCHANGED <<sent, max, top>>
    BY <2>4 DEF Acknowledge, socketVars, rangeVars, callVars
  <2>5. ASSUME NEW r \in Readers, NEW on \in BOOLEAN, SetAutoAck(r, on) \/ SetBlocking(r, on)
        PROVE  UNCHANGED <<sent, max, top>>
    BY <2>5 DEF SetAutoAck, SetBlocking, SwitchesBlocking, socketVars, rangeVars, callVars
  <2>6. CASE Shutdown
    <3>1. CASE ShutdownBegins \/ ShutdownLocks
      BY <3>1 DEF ShutdownBegins, ShutdownLocks, socketVars, rangeVars, callVars
    <3>2. CASE ShutdownDrains
      BY <3>2 DEF ShutdownDrains, Drain, Consumes, SocketConsumes, callVars
    <3>3. CASE ShutdownEnds BY <3>3 DEF ShutdownEnds, SetEOF, socketVars, rangeVars, callVars
    <3> QED BY <2>6, <3>1, <3>2, <3>3 DEF Shutdown
  <2>7. CASE RawShutdown BY <2>7 DEF RawShutdown, SetEOF, rangeVars, callVars
  <2>8. CASE PeerActs
    <3>1. UNCHANGED <<max, top, delivered>> BY <2>8 DEF PeerActs, rangeVars, callVars
    <3>2. (\E b \in Byte : sent' = Append(sent, b)) \/ UNCHANGED sent
      BY <2>8 DEF PeerActs, PeerWrites, PeerCloses
    <3> QED BY <3>1, <3>2
  <2>9. CASE UNCHANGED vars BY <2>9 DEF vars, socketVars, rangeVars, callVars
  <2> QED BY <2>1, <2>2, <2>3, <2>4, <2>5, <2>6, <2>7, <2>8, <2>9 DEF Next, Step
<1> QED BY <1>1, <1>2, <1>3

\* Nothing is promised or handed out before anything was sent.
LEMMA StreamBegins == Init => Stream!Init
<1> SUFFICES ASSUME Init PROVE Promised = <<>> /\ delivered = <<>>
  BY DEF Stream!Init
<1>1. StreamInv BY StreamInit
<1>2. sent = <<>> /\ delivered = <<>> BY DEF Init, SocketInit
<1>3. PICK k \in taken .. Len(sent) : InRange = SubSeq(sent, 1, k) BY <1>1, InRangeIs
<1>4. taken \in 0 .. Len(sent) /\ Len(sent) = 0 BY <1>1, <1>2, StreamParts
<1>5. k = 0 BY <1>3, <1>4
<1>6. InRange = <<>> BY <1>2, <1>3, <1>5
<1>7. Text(<<>>) = <<>>
  <2>1. <<>> \in Seq(Byte) /\ ~HasNewline(<<>>) BY DEF HasNewline
  <2> QED BY <2>1, TextFree
<1> QED BY <1>2, <1>6, <1>7 DEF Promised

\* Read by one callback at a time, every stack is a byte stream: what it hands
\* out is the beginning of what the peer sent (in the range, as lines), and it
\* only grows.
THEOREM StackImplementsByteStream ==
    ASSUME OneAtATime, ByteBefore # CR
    PROVE  Spec => ImplementsByteStream
<1>1. StreamInv /\ [Next]_vars => StreamInv' BY StreamStep
<1>2. StreamInv => IsPrefix(delivered, Promised) BY DeliveredIsPromised
<1>3. StreamInv /\ IsPrefix(delivered, Promised)' /\ [Next]_vars
          => [Stream!Send \/ Stream!Deliver]_<<Promised, delivered>>
  BY StreamAdvances
<1> QED
  BY StreamInit, StreamBegins, <1>1, <1>2, <1>3, PTL DEF Spec, ImplementsByteStream, Stream!Spec


=============================================================================
