--------------------------- MODULE DecoratorProofs ---------------------------
(***************************************************************************)
(* Theorems about DecoratorStack for any bytes, limits, ranges and sizes,  *)
(* and callbacks that come one at a time.                                  *)
(***************************************************************************)
EXTENDS DecoratorProperties, TLAPS

\* Callbacks of one connection do not overlap: the code has no lock around
\* offset_ and the buffers.
OneAtATime == \A p, q \in Readers : p = q

\* The types that the sizes depend on.
SizesOK ==
    /\ SocketOK /\ RangeOK
    /\ buffer \in Seq(Byte)
    /\ at \in [Readers -> {"out", "receiving", "buffering"}]
    /\ want \in [Readers -> Nat]
    /\ chunk \in [Readers -> Seq(Byte)]

\* offset_ counts what was taken, until the end of the wrapped connection makes
\* it the whole range; a recv() that is under way asks for no more than is left,
\* and none is under way once Shutdown() has the lock.
CountOK ==
    /\ Ranged => /\ taken <= offset /\ offset <= max
                 /\ ~eof => taken = offset
                 /\ \A r \in Readers : at[r] = "receiving" => want[r] \in 1 .. max - offset
    /\ closing \in {"draining", "closed"} => \A r \in Readers : at[r] = "out"

RangeInv == SizesOK /\ CountOK /\ RangeIsExact

-----------------------------------------------------------------------------
(* How much one Receive() of the socket returns.                           *)

\* Min of two numbers is one of them and not above either.
LEMMA MinOfTwo ==
    ASSUME NEW m \in Int, NEW n \in Int
    PROVE  Min({m, n}) \in {m, n} /\ Min({m, n}) <= m /\ Min({m, n}) <= n
  <1>1. \E x \in {m, n} : \A y \in {m, n} : x <= y OBVIOUS
  <1> QED BY <1>1 DEF Min

\* A Receive(n) with n > 0 returns at most n bytes, and not more than there are.
LEMMA ReceivedLength ==
    ASSUME SocketOK, NEW n \in Nat, NEW data \in Received(n)
    PROVE  /\ data \in Seq(Byte)
           /\ Len(data) \in 0 .. Len(sent) - taken
           /\ n > 0 => Len(data) <= n
  <1> DEFINE k == Min({Limit(n), Len(sent) - taken})
  <1>1. /\ sent \in Seq(Byte) /\ Len(sent) \in Nat /\ taken \in 0 .. Len(sent)
        /\ Limit(n) \in Nat
        /\ n > 0 => Limit(n) <= n
    BY SocketAssumption DEF SocketOK, Limit
  <1>2. k \in 0 .. Len(sent) - taken /\ k <= Limit(n)
    <2>1. Limit(n) \in Int /\ Len(sent) - taken \in Int BY <1>1
    <2>2. k \in {Limit(n), Len(sent) - taken} /\ k <= Limit(n) /\ k <= Len(sent) - taken
      BY <2>1, MinOfTwo
    <2> QED BY <1>1, <2>2
  <1>3. data = SubSeq(sent, taken + 1, taken + k)
    BY DEF Received
  <1> HIDE DEF k
  <1>4. data \in Seq(Byte) /\ Len(data) = k
    BY <1>1, <1>2, <1>3
  <1> QED BY <1>1, <1>2, <1>4

\* What a range reader that is not at its end asks for fits the range.
LEMMA ToReadFits ==
    ASSUME RangeOK, Ranged, ~Exhausted, NEW len \in Nat
    PROVE  ToRead(len) \in 1 .. max - offset
  BY RangeAssumption DEF RangeOK, Ranged, Exhausted, ToRead

-----------------------------------------------------------------------------
(* The invariant.                                                          *)

\* Entering a Receive() keeps the counts.
LEMMA FetchKeeps ==
    ASSUME SizesOK, CountOK, NEW r \in Readers, NEW len \in Nat, Fetch(r, len)
    PROVE  /\ at' \in [Readers -> {"out", "receiving", "buffering"}]
           /\ want' \in [Readers -> Nat]
           /\ chunk' \in [Readers -> Seq(Byte)]
           /\ Ranged => \A q \in Readers :
                            at'[q] = "receiving" => want'[q] \in 1 .. max - offset
  <1>1. Ranged /\ ~Exhausted => ToRead(len) \in 1 .. max - offset
    BY ToReadFits DEF SizesOK
  <1>2. ~Exhausted => ToRead(len) \in Nat
    BY <1>1, RangeAssumption DEF SizesOK, RangeOK, ToRead, Ranged
  <1>3. <<>> \in Seq(Byte) OBVIOUS
  <1> QED BY <1>1, <1>2, <1>3 DEF Fetch, SizesOK, CountOK

\* A range reader starts with its whole range before it.
THEOREM InitRange == Init => RangeInv
  <1> SUFFICES ASSUME Init PROVE RangeInv OBVIOUS
  <1>1. /\ sent = <<>> /\ taken = 0 /\ peerOpen = TRUE /\ blocking \in BOOLEAN /\ eof = FALSE
        /\ max \in Ranges \cup {NoRange} /\ offset = 0 /\ buffer = <<>> /\ closing = "no"
        /\ at = [r \in Readers |-> "out"] /\ want = [r \in Readers |-> 0]
        /\ chunk = [r \in Readers |-> <<>>]
    BY DEF Init, SocketInit, RangeInit, AckInit
  <1>2. SocketOK
    <2>1. <<>> \in Seq(Byte) /\ Len(<<>>) = 0 OBVIOUS
    <2>2. sent \in Seq(Byte) /\ Len(sent) = 0 BY <1>1, <2>1
    <2>3. Len(sent) <= MaxSent /\ taken \in 0 .. Len(sent)
      BY <1>1, <2>2, SocketAssumption
    <2>4. peerOpen \in BOOLEAN /\ blocking \in BOOLEAN /\ eof \in BOOLEAN BY <1>1
    <2> QED BY <2>2, <2>3, <2>4 DEF SocketOK
  <1>3. SizesOK BY <1>1, <1>2 DEF SizesOK, RangeOK
  <1>4. CountOK BY <1>1, RangeAssumption DEF CountOK, Ranged
  <1>5. RangeIsExact BY <1>1, RangeAssumption DEF RangeIsExact, Ranged
  <1> QED BY <1>3, <1>4, <1>5 DEF RangeInv

\* recv() returns and the range reader counts.
LEMMA AnswersKeep ==
    ASSUME OneAtATime, RangeInv, NEW r \in Readers, SocketAnswers(r)
    PROVE  RangeInv'
  <1> USE DEF RangeInv
  <1>1. PICK data \in Received(want[r]) : Consumes(data) /\ chunk' = [chunk EXCEPT ![r] = data]
    BY DEF SocketAnswers
  <1>2. /\ at[r] = "receiving" /\ at' = [at EXCEPT ![r] = "buffering"]
        /\ UNCHANGED <<max, buffer, top, owned, want, closing>>
    BY DEF SocketAnswers, bufferVars
  <1>3. want[r] \in Nat BY DEF SizesOK
  <1>4. /\ data \in Seq(Byte) /\ Len(data) \in 0 .. Len(sent) - taken
        /\ want[r] > 0 => Len(data) <= want[r]
    BY <1>3, ReceivedLength DEF SizesOK
  <1>5. /\ taken' = taken + Len(data) /\ UNCHANGED <<sent, peerOpen, blocking, eof>>
        /\ offset' = IF ~Ranged THEN offset
                     ELSE IF eof THEN max ELSE offset + Len(data)
    BY <1>1 DEF Consumes, SocketConsumes
  <1>6. closing \notin {"draining", "closed"} BY <1>2 DEF CountOK
  <1>7. Ranged => Len(data) <= max - offset
    <2>1. Ranged => want[r] \in 1 .. max - offset /\ max \in Nat /\ offset \in Nat
      BY <1>2, RangeAssumption DEF CountOK, SizesOK, RangeOK, Ranged
    <2> QED BY <1>3, <1>4, <2>1
  <1>8. \A q \in Readers : at'[q] # "receiving"
    BY <1>2 DEF OneAtATime, SizesOK
  <1>9. taken \in Nat /\ Len(sent) \in Nat /\ offset \in Nat /\ Len(data) \in Nat
    BY <1>4 DEF SizesOK, SocketOK, RangeOK
  <1>10. SizesOK'
    BY <1>1, <1>2, <1>4, <1>5, <1>9, RangeAssumption DEF SizesOK, SocketOK, RangeOK, Ranged
  <1>11. CountOK'
    <2>1. Ranged' => /\ taken' <= offset' /\ offset' <= max'
                     /\ ~eof' => taken' = offset'
      BY <1>2, <1>4, <1>5, <1>7, <1>9, RangeAssumption DEF CountOK, SizesOK, RangeOK, Ranged
    <2> QED BY <1>2, <1>6, <1>8, <2>1 DEF CountOK
  <1>12. RangeIsExact'
    BY <1>2, <1>6, <1>9, <1>10, <1>11, RangeAssumption
    DEF CountOK, RangeIsExact, Ranged, SizesOK, RangeOK, SocketOK
  <1> QED BY <1>10, <1>11, <1>12

\* A step of a callback before or after recv().
LEMMA CallsKeep ==
    ASSUME RangeInv, NEW r \in Readers,
           closing \notin {"draining", "closed"} \/ at[r] # "out",
           UNCHANGED <<socketVars, rangeVars, top, owned, closing>>,
           buffer' \in Seq(Byte),
           \/ \E len \in Nat : Fetch(r, len)
           \/ Returns(r)
           \/ at' = [at EXCEPT ![r] = "buffering"] /\ UNCHANGED <<want, chunk>>
           \/ UNCHANGED <<at, want, chunk>>
    PROVE  RangeInv'
  <1> USE DEF RangeInv
  <1>1. UNCHANGED <<sent, taken, peerOpen, blocking, eof, max, offset, top, owned, closing>>
    BY DEF socketVars, rangeVars
  <1>2. closing \notin {"draining", "closed"} BY DEF CountOK
  <1>3. <<>> \in Seq(Byte) /\ 0 \in Nat OBVIOUS
  <1>4. /\ at' \in [Readers -> {"out", "receiving", "buffering"}]
        /\ want' \in [Readers -> Nat]
        /\ chunk' \in [Readers -> Seq(Byte)]
        /\ Ranged => \A q \in Readers :
                         at'[q] = "receiving" => want'[q] \in 1 .. max - offset
    <2>1. CASE \E len \in Nat : Fetch(r, len) BY <2>1, FetchKeeps
    <2>2. CASE Returns(r) BY <1>3, <2>2 DEF Returns, SizesOK, CountOK
    <2>3. CASE at' = [at EXCEPT ![r] = "buffering"] /\ UNCHANGED <<want, chunk>>
      BY <2>3 DEF SizesOK, CountOK
    <2>4. CASE UNCHANGED <<at, want, chunk>> BY <2>4 DEF SizesOK, CountOK
    <2> QED BY <2>1, <2>2, <2>3, <2>4
  <1>5. SizesOK' BY <1>1, <1>4 DEF SizesOK, SocketOK, RangeOK
  <1>6. CountOK' BY <1>1, <1>2, <1>4 DEF CountOK, Ranged
  <1>7. RangeIsExact' BY <1>1 DEF RangeIsExact, Ranged, Drains
  <1> QED BY <1>5, <1>6, <1>7

\* The decorators' own part of a callback.
LEMMA CallbackSteps ==
    ASSUME RangeInv, NEW r \in Readers,
           \/ ReceiveLine(r) \/ RangeReturns(r) \/ AckReturns(r) \/ LineReturns(r)
           \/ \E n \in Sizes : \/ ReceiveFromRange(r, n) \/ ReceiveUnacknowledged(r, n)
                               \/ Acknowledge(r, n)
           \/ \E on \in BOOLEAN : SetAutoAck(r, on)
    PROVE  RangeInv'
  <1>0. /\ SizesOK /\ buffer \in Seq(Byte) /\ chunk[r] \in Seq(Byte)
        /\ Sizes \subseteq Nat /\ 0 \in Nat
    BY StackAssumption DEF RangeInv, SizesOK
  <1>1. CASE ReceiveLine(r)
    BY <1>0, <1>1, CallsKeep DEF ReceiveLine, MayCall, socketVars
  <1>2. CASE RangeReturns(r)
    BY <1>0, <1>2, CallsKeep DEF RangeReturns, bufferVars
  <1>3. CASE AckReturns(r)
    <2>1. buffer' \in Seq(Byte) BY <1>0, <1>3 DEF AckReturns, Buffers
    <2> QED BY <1>0, <1>3, <2>1, CallsKeep DEF AckReturns
  <1>4. CASE LineReturns(r)
    BY <1>0, <1>4, CallsKeep DEF LineReturns
  <1>5. CASE \E n \in Sizes : ReceiveFromRange(r, n)
    BY <1>0, <1>5, CallsKeep DEF ReceiveFromRange, MayCall, bufferVars
  <1>6. CASE \E n \in Sizes : ReceiveUnacknowledged(r, n)
    <2>1. \A n \in Sizes : Request(n) \in Nat BY <1>0 DEF Request
    <2> QED BY <1>0, <1>6, <2>1, CallsKeep DEF ReceiveUnacknowledged, MayCall, bufferVars
  <1>7. CASE \E n \in Sizes : Acknowledge(r, n)
    <2>1. buffer' \in Seq(Byte) BY <1>0, <1>7 DEF Acknowledge, Acknowledges
    <2> QED BY <1>0, <1>7, <2>1, CallsKeep DEF Acknowledge, MayCall, callVars
  <1>8. CASE \E on \in BOOLEAN : SetAutoAck(r, on)
    BY <1>0, <1>8, CallsKeep DEF SetAutoAck, MayCall, callVars
  <1> QED BY <1>1, <1>2, <1>3, <1>4, <1>5, <1>6, <1>7, <1>8

\* One turn of the loop in Shutdown() eats no more than is left of the range.
LEMMA DrainKeeps ==
    ASSUME RangeInv, ShutdownDrains
    PROVE  RangeInv'
  <1> USE DEF RangeInv
  <1>1. /\ closing = "draining" /\ Ranged /\ offset < max /\ ~eof
        /\ UNCHANGED <<max, buffer, top, owned, at, want, chunk, closing>>
    BY DEF ShutdownDrains, Drain, bufferVars, callVars
  <1>2. PICK data \in Received(max - offset) : Consumes(data)
    BY DEF ShutdownDrains, Drain
  <1>3. max \in Nat /\ offset \in Nat /\ max - offset \in Nat /\ max - offset > 0
    BY <1>1, RangeAssumption DEF SizesOK, RangeOK, Ranged
  <1>4. Len(data) \in 0 .. Len(sent) - taken /\ Len(data) <= max - offset
    BY <1>3, <1>2, ReceivedLength DEF SizesOK
  <1>5. /\ taken' = taken + Len(data) /\ UNCHANGED <<sent, peerOpen, blocking, eof>>
        /\ offset' = offset + Len(data)
    BY <1>1, <1>2 DEF Consumes, SocketConsumes
  <1>6. taken \in Nat /\ Len(sent) \in Nat /\ Len(data) \in Nat /\ taken = offset
    BY <1>1, <1>4 DEF SizesOK, SocketOK, CountOK
  <1>7. SizesOK'
    BY <1>1, <1>3, <1>4, <1>5, <1>6 DEF SizesOK, SocketOK, RangeOK
  <1>8. CountOK'
    BY <1>1, <1>3, <1>4, <1>5, <1>6 DEF CountOK, Ranged
  <1>9. RangeIsExact'
    BY <1>1, <1>3, <1>4, <1>5, <1>6 DEF RangeIsExact, Ranged
  <1> QED BY <1>7, <1>8, <1>9

\* The other steps of Shutdown(): when the loop has ended, either the range is
\* read or the wrapped connection was at its end.
LEMMA ShutdownKeeps ==
    ASSUME RangeInv, ShutdownBegins \/ ShutdownLocks \/ ShutdownEnds
    PROVE  RangeInv'
  <1> USE DEF RangeInv
  <1>1. UNCHANGED <<sent, taken, peerOpen, blocking, max, offset, buffer, top, owned,
                    at, want, chunk>>
    BY DEF ShutdownBegins, ShutdownLocks, ShutdownEnds, SetEOF, socketVars, rangeVars,
       bufferVars, callVars
  <1>2. eof' \in BOOLEAN /\ (eof => eof')
    BY DEF ShutdownBegins, ShutdownLocks, ShutdownEnds, SetEOF, socketVars, SizesOK, SocketOK
  <1>3. SizesOK' BY <1>1, <1>2 DEF SizesOK, SocketOK, RangeOK
  <1>4. CountOK'
    <2>1. closing' \in {"draining", "closed"} => \A r \in Readers : at[r] = "out"
      BY DEF ShutdownBegins, ShutdownLocks, ShutdownEnds, CountOK
    <2> QED BY <1>1, <1>2, <2>1 DEF CountOK, Ranged
  <1>5. closing' = "closed" /\ Drains /\ ~eof' => Ranged /\ offset >= max
    BY <1>2 DEF ShutdownBegins, ShutdownLocks, ShutdownEnds, RangeEOF, Exhausted, Drains
  <1>6. RangeIsExact'
    BY <1>1, <1>2, <1>5, RangeAssumption
    DEF RangeIsExact, Ranged, Drains, CountOK, SizesOK, RangeOK, SocketOK
  <1> QED BY <1>3, <1>4, <1>6

\* The peer, a shutdown of the undecorated socket and SetBlocking() take nothing.
LEMMA SocketKeeps ==
    ASSUME RangeInv,
           \/ PeerActs \/ RawShutdown
           \/ \E r \in Readers, on \in BOOLEAN : SetBlocking(r, on)
    PROVE  RangeInv'
  <1> USE DEF RangeInv
  <1>1. UNCHANGED <<taken, max, offset, buffer, top, owned, at, want, chunk, closing>>
    BY DEF PeerActs, PeerWrites, PeerCloses, RawShutdown, SetEOF, SetBlocking,
       SwitchesBlocking, rangeVars, bufferVars, callVars
  <1>2. SocketOK' /\ (eof => eof')
    <2>1. CASE PeerActs
      <3>1. ASSUME NEW b \in Byte, PeerWrites(b) PROVE SocketOK' /\ (eof => eof')
        <4>1. sent \in Seq(Byte) /\ Len(sent) < MaxSent /\ sent' = Append(sent, b)
          BY <3>1 DEF PeerWrites, SizesOK, SocketOK
        <4>2. sent' \in Seq(Byte) /\ Len(sent') = Len(sent) + 1 BY <4>1
        <4>3. Len(sent) \in Nat /\ taken \in 0 .. Len(sent)
          BY <4>1 DEF SizesOK, SocketOK
        <4>4. Len(sent') <= MaxSent /\ taken \in 0 .. Len(sent')
          BY <4>1, <4>2, <4>3, SocketAssumption
        <4>5. UNCHANGED <<taken, peerOpen, blocking, eof>> BY <3>1 DEF PeerWrites
        <4> QED BY <4>2, <4>4, <4>5 DEF SizesOK, SocketOK
      <3>2. ASSUME PeerCloses PROVE SocketOK' /\ (eof => eof')
        BY <3>2 DEF PeerCloses, SizesOK, SocketOK
      <3> QED BY <2>1, <3>1, <3>2 DEF PeerActs
    <2>2. CASE RawShutdown
      BY <2>2 DEF RawShutdown, SetEOF, SizesOK, SocketOK
    <2>3. CASE \E r \in Readers, on \in BOOLEAN : SetBlocking(r, on)
      BY <2>3 DEF SetBlocking, SwitchesBlocking, SizesOK, SocketOK
    <2> QED BY <2>1, <2>2, <2>3
  <1>3. SizesOK' BY <1>1, <1>2 DEF SizesOK, RangeOK
  <1>4. CountOK' BY <1>1, <1>2 DEF CountOK, Ranged
  <1>5. RangeIsExact' BY <1>1, <1>2 DEF RangeIsExact, Ranged, Drains
  <1> QED BY <1>3, <1>4, <1>5

\* Every step keeps the invariant.
LEMMA RangeStep ==
    ASSUME OneAtATime, RangeInv, [Next]_vars
    PROVE  RangeInv'
  <1>1. CASE UNCHANGED vars
    BY <1>1 DEF vars, socketVars, rangeVars, bufferVars, callVars, RangeInv, SizesOK,
       SocketOK, RangeOK, CountOK, RangeIsExact, Ranged, Drains
  <1>2. CASE \E r \in Readers : SocketAnswers(r)
    BY <1>2, AnswersKeep
  <1>3. CASE Shutdown
    BY <1>3, DrainKeeps, ShutdownKeeps DEF Shutdown
  <1>4. CASE \/ PeerActs \/ RawShutdown
             \/ \E r \in Readers, on \in BOOLEAN : SetBlocking(r, on)
    BY <1>4, SocketKeeps
  <1>5. CASE \E r \in Readers :
                  \/ ReceiveLine(r) \/ RangeReturns(r) \/ AckReturns(r) \/ LineReturns(r)
                  \/ \E n \in Sizes : \/ ReceiveFromRange(r, n)
                                      \/ ReceiveUnacknowledged(r, n)
                                      \/ Acknowledge(r, n)
                  \/ \E on \in BOOLEAN : SetAutoAck(r, on)
    BY <1>5, CallbackSteps
  <1> QED BY <1>1, <1>2, <1>3, <1>4, <1>5 DEF Next, Step, Call

\* A range reader takes its range from the connection it was delegated and not a
\* byte more, for every range, every size of recv() and every packet boundary,
\* as long as callbacks come one at a time.
THEOREM RangesAreExact ==
    ASSUME OneAtATime
    PROVE  Spec => []RangeIsExact
  <1>1. RangeInv /\ [Next]_vars => RangeInv' BY RangeStep
  <1>2. RangeInv => RangeIsExact BY DEF RangeInv
  <1> QED BY InitRange, <1>1, <1>2, PTL DEF Spec
=============================================================================
