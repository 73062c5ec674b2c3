-------------------------- MODULE ESLFraming_proofs --------------------------
(***************************************************************************)
(* What holds of ESLFraming and EventBody for every alphabet, every set of *)
(* limits, every timeout and every set of peer streams.                    *)
(***************************************************************************)
EXTENDS EventBody, NaturalLemmas, SequenceTheorems, FiniteSetTheorems, TLAPS

(* The end of the first header block of a sequence that has one. *)
LEMMA BlockEndIsEnd ==
  ASSUME NEW s \in Seq(Byte), HasBlock(s)
  PROVE  /\ BlockEnd(s) \in 2..Len(s)
         /\ s[BlockEnd(s)] = LF /\ s[BlockEnd(s) - 1] = LF
<1>1. BlockEnds(s) \subseteq Nat /\ BlockEnds(s) # {}
  BY DEF BlockEnds, HasBlock
<1>2. \E e \in BlockEnds(s) : \A f \in BlockEnds(s) : e <= f
  BY <1>1, LeastNatural
<1>3. BlockEnd(s) \in BlockEnds(s)
  BY <1>2 DEF BlockEnd
<1> QED BY <1>3 DEF BlockEnds

(* Concatenation of byte sequences, the forms the accounting below needs.   *)
LEMMA Concatenation ==
  /\ <<>> \in Seq(Byte)
  /\ \A s \in Seq(Byte) : s \o <<>> = s /\ <<>> \o s = s
  /\ \A s, t \in Seq(Byte) : s \o t \in Seq(Byte)
  /\ \A s, t, u \in Seq(Byte) : (s \o t) \o u = s \o (t \o u)
<1>1. <<>> \in Seq(Byte)
  BY EmptySeq
<1>2. \A s \in Seq(Byte) : s \o <<>> = s /\ <<>> \o s = s
  BY ConcatEmptySeq
<1>3. \A s, t \in Seq(Byte) : s \o t \in Seq(Byte)
  BY ConcatProperties
<1>4. \A s, t, u \in Seq(Byte) : (s \o t) \o u = s \o (t \o u)
  BY ConcatAssociative
<1> QED BY <1>1, <1>2, <1>3, <1>4

(* Cutting a sequence in two. *)
LEMMA SplitSequence ==
  ASSUME NEW s \in Seq(Byte), NEW e \in 0..Len(s)
  PROVE  /\ SubSeq(s, 1, e) \in Seq(Byte) /\ Len(SubSeq(s, 1, e)) = e
         /\ SubSeq(s, e + 1, Len(s)) \in Seq(Byte)
         /\ Len(SubSeq(s, e + 1, Len(s))) = Len(s) - e
         /\ s = SubSeq(s, 1, e) \o SubSeq(s, e + 1, Len(s))
<1>1. Len(s) \in Nat /\ \A i \in 1..Len(s) : s[i] \in Byte
  BY LenProperties
<1>2. SubSeq(s, 1, e) \in Seq(Byte) /\ Len(SubSeq(s, 1, e)) = e
  BY <1>1, SubSeqProperties
<1>3. /\ SubSeq(s, e + 1, Len(s)) \in Seq(Byte)
      /\ Len(SubSeq(s, e + 1, Len(s))) = Len(s) - e
  BY <1>1, SubSeqProperties
<1>4. SubSeq(s, 1, Len(s)) = SubSeq(s, 1, e) \o SubSeq(s, e + 1, Len(s))
  <2>1. 1 \in 1..Len(s) + 1 /\ e \in (1 - 1)..Len(s) /\ Len(s) \in e..Len(s)
    BY <1>1
  <2> QED BY <2>1, ConcatAdjacentSubSeq
<1> QED BY <1>2, <1>3, <1>4, SubSeqFull

(* The header block a sequence starts with, its terminator and the rest.    *)
LEMMA BlockIsPrefix ==
  ASSUME NEW s \in Seq(Byte), HasBlock(s)
  PROVE  Encoding(SubSeq(s, 1, BlockEnd(s) - 2), <<>>) = SubSeq(s, 1, BlockEnd(s))
<1> DEFINE e == BlockEnd(s)
<1>1. e \in 2..Len(s) /\ s[e] = LF /\ s[e - 1] = LF
  BY BlockEndIsEnd
<1>2. Len(s) \in Nat /\ \A i \in 1..Len(s) : s[i] \in Byte
  BY LenProperties
<1> HIDE DEF e
<1>3. SubSeq(s, 1, e - 2) \in Seq(Byte) /\ <<LF>> \in Seq(Byte)
  BY <1>1, <1>2, SubSeqProperties, AlphabetAssumption
<1>4. SubSeq(s, 1, e) = SubSeq(s, 1, e - 1) \o <<LF>>
  BY <1>1, <1>2, SubSeqRecursiveSecond
<1>5. SubSeq(s, 1, e - 1) = SubSeq(s, 1, e - 2) \o <<LF>>
  <2>1. e - 1 \in 1..Len(s) /\ 1 \in 1..Len(s) /\ (e - 1) - 1 = e - 2
    BY <1>1, <1>2
  <2> QED BY <1>1, <2>1, SubSeqRecursiveSecond
<1>6. SubSeq(s, 1, e) = SubSeq(s, 1, e - 2) \o <<LF, LF>>
  <2>1. (SubSeq(s, 1, e - 2) \o <<LF>>) \o <<LF>> = SubSeq(s, 1, e - 2) \o (<<LF>> \o <<LF>>)
    BY <1>3, Concatenation, ZenonT(30)
  <2>2. <<LF>> \o <<LF>> = <<LF, LF>>
    <3>1. <<LF>> \o <<LF>> \in Seq(Byte) /\ <<LF, LF>> \in Seq(Byte)
      BY <1>3, AlphabetAssumption, Concatenation
    <3>2. /\ Len(<<LF>> \o <<LF>>) = 2 /\ Len(<<LF, LF>>) = 2
          /\ \A i \in 1..2 : (<<LF>> \o <<LF>>)[i] = <<LF, LF>>[i]
      BY <1>3, ConcatProperties
    <3> QED BY <3>1, <3>2, SeqEqual
  <2> QED BY <1>4, <1>5, <2>1, <2>2
<1>7. SubSeq(s, 1, e - 2) \o <<LF, LF>> \o <<>> = SubSeq(s, 1, e - 2) \o <<LF, LF>>
  <2>1. <<LF, LF>> \in Seq(Byte)
    BY AlphabetAssumption
  <2> QED BY <1>3, <2>1, Concatenation
<1> QED BY <1>6, <1>7 DEF Encoding, e

LEMMA SplitAtBlock ==
  ASSUME NEW s \in Seq(Byte), HasBlock(s)
  PROVE  s = Encoding(SubSeq(s, 1, BlockEnd(s) - 2), <<>>)
             \o SubSeq(s, BlockEnd(s) + 1, Len(s))
<1> DEFINE e == BlockEnd(s)
<1>1. e \in 0..Len(s)
  BY BlockEndIsEnd, LenProperties
<1>2. s = SubSeq(s, 1, e) \o SubSeq(s, e + 1, Len(s))
  <2> HIDE DEF e
  <2> QED BY <1>1, SplitSequence
<1> QED BY <1>2, BlockIsPrefix

(* A read that returns leaves nothing of itself behind. *)
LEMMA ReturnIsTyped ==
  ASSUME NEW r \in Results, Return(r), open' \in BOOLEAN,
         stream' \in Seq(Byte), wire' \in Seq(Byte), buffer' \in Seq(Byte),
         frames' \in Seq(Frame), taken' \in Seq(Byte)
  PROVE  TypeOK'
<1>1. 0 \in 0..MaxBody /\ 0 \in 0..Timeout /\ <<>> \in Seq(Byte)
  BY LimitAssumption, EmptySeq
<1> QED BY <1>1 DEF Return, TypeOK

(* And so does one that ends by closing the connection. *)
LEMMA ShutIsTyped ==
  ASSUME TypeOK, Shut, UNCHANGED log, NEW r \in Results, Return(r)
  PROVE  TypeOK'
<1>1. open' \in BOOLEAN /\ stream' \in Seq(Byte) /\ wire' \in Seq(Byte) /\ buffer' \in Seq(Byte)
  BY EmptySeq DEF TypeOK, Shut
<1>2. frames' \in Seq(Frame) /\ taken' \in Seq(Byte)
  BY DEF TypeOK, log
<1> QED BY <1>1, <1>2, ReturnIsTyped

-----------------------------------------------------------------------------
(* The shape of the state, and with it that no read outlives its connection *)
(* and no body is read that the cap forbids.                                *)
THEOREM TypeCorrect == Spec => []TypeOK
<1> USE AlphabetAssumption, LimitAssumption
<1>1. Init => TypeOK
  <2> SUFFICES ASSUME Init PROVE TypeOK
    OBVIOUS
  <2>1. /\ stream \in Seq(Byte) /\ wire \in Seq(Byte) /\ buffer \in Seq(Byte)
        /\ head \in Seq(Byte) /\ taken \in Seq(Byte) /\ frames \in Seq(Frame)
    BY EmptySeq DEF Init
  <2>2. open \in BOOLEAN /\ head = <<>>
    BY DEF Init
  <2>3. pc = "idle" /\ pc \in {"idle", "header", "body"} /\ result \in Results
    BY DEF Init, Results
  <2>4. need \in 0..MaxBody /\ left \in 0..Timeout /\ spent \in Nat
    BY DEF Init
  <2> QED BY <2>1, <2>2, <2>3, <2>4 DEF TypeOK
<1>2. TypeOK /\ [Next]_vars => TypeOK'
  <2> SUFFICES ASSUME TypeOK, [Next]_vars PROVE TypeOK'
    OBVIOUS
  <2>1. ASSUME NEW s \in Streams, Connect(s) PROVE TypeOK'
    BY <2>1, StreamAssumption, EmptySeq DEF TypeOK, Connect, read, Results
  <2>2. CASE Close
    BY <2>2, EmptySeq DEF TypeOK, Close, Shut, read, log, Results
  <2>3. ASSUME NEW d \in 1..Timeout, ReadFrame(d) PROVE TypeOK'
    BY <2>3 DEF TypeOK, ReadFrame, conn, log, Results
  <2>4. CASE ReadClosed
    BY <2>4, ReturnIsTyped DEF TypeOK, ReadClosed, conn, log, Results
  <2>5. CASE TakeHeader
    <3> DEFINE e == BlockEnd(buffer)
               h == SubSeq(buffer, 1, e - 2)
    <3>1. e \in 2..Len(buffer) /\ h \in Seq(Byte)
          /\ SubSeq(buffer, e + 1, Len(buffer)) \in Seq(Byte)
      BY <2>5, BlockEndIsEnd DEF TypeOK, TakeHeader
    <3>2. CASE ~Acceptable(e, h) /\ Refuse
      BY <3>2, ShutIsTyped DEF Refuse, Results
    <3>3. CASE /\ Acceptable(e, h)
               /\ buffer' = SubSeq(buffer, e + 1, Len(buffer))
               /\ BodyLength(h) = 0 /\ Yield(h, <<>>)
      <4>1. Encoding(h, <<>>) \in Seq(Byte) /\ [head |-> h, body |-> <<>>] \in Frame
        BY <3>1 DEF Encoding, Frame
      <4> HIDE DEF e, h
      <4> QED BY <3>1, <3>3, <4>1, ReturnIsTyped DEF TypeOK, Yield, conn, Results
    <3>4. CASE /\ Acceptable(e, h)
               /\ buffer' = SubSeq(buffer, e + 1, Len(buffer))
               /\ BodyLength(h) > 0
               /\ pc' = "body" /\ head' = h /\ need' = BodyLength(h)
               /\ UNCHANGED <<conn, left, spent, log, result>>
      BY <2>5, <3>1, <3>4 DEF TypeOK, TakeHeader, Acceptable, LengthAccepted, conn, log, Results
    <3> QED BY <2>5, <3>2, <3>3, <3>4 DEF TakeHeader
  <2>6. CASE HeaderTooLong
    BY <2>6, ShutIsTyped DEF HeaderTooLong, Refuse, Results
  <2>7. CASE TakeBody
    <3> DEFINE b == SubSeq(buffer, 1, need)
    <3>1. b \in Seq(Byte) /\ SubSeq(buffer, need + 1, Len(buffer)) \in Seq(Byte)
      BY <2>7 DEF TypeOK, TakeBody
    <3>2. Encoding(head, b) \in Seq(Byte) /\ [head |-> head, body |-> b] \in Frame
      BY <3>1 DEF TypeOK, Encoding, Frame
    <3> HIDE DEF b
    <3>3. buffer' \in Seq(Byte) /\ Yield(head, b)
      BY <2>7, <3>1 DEF b, TakeBody
    <3> QED BY <3>2, <3>3, ReturnIsTyped DEF TypeOK, Yield, conn, Results
  <2>8. CASE Tick
    BY <2>8 DEF TypeOK, Tick, conn, log, Results
  <2>9. CASE Expire
    <3>1. CASE Shut /\ Return("lost") /\ UNCHANGED log
      BY <3>1, ShutIsTyped DEF Results
    <3>2. CASE Return("timeout") /\ UNCHANGED <<conn, buffer>> /\ UNCHANGED log
      BY <3>2, ReturnIsTyped DEF TypeOK, conn, log, Results
    <3> QED BY <2>9, <3>1, <3>2 DEF Expire
  <2>10. ASSUME NEW k \in 1..RecvMax, Recv(k) PROVE TypeOK'
    <3>1. SubSeq(wire, 1, k) \in Seq(Byte) /\ SubSeq(wire, k + 1, Len(wire)) \in Seq(Byte)
      BY <2>10, SMTT(20) DEF TypeOK, Recv
    <3> QED BY <2>10, <3>1 DEF TypeOK, Recv, read, log, Results
  <2>11. CASE Lose
    BY <2>11, ShutIsTyped DEF Lose, Results
  <2>12. CASE UNCHANGED vars
    BY <2>12 DEF TypeOK, vars, Results
  <2> QED BY <2>1, <2>2, <2>3, <2>4, <2>5, <2>6, <2>7, <2>8, <2>9, <2>10, <2>11, <2>12
          DEF Next, Step
<1> QED BY <1>1, <1>2, PTL DEF Spec

-----------------------------------------------------------------------------
(* A read takes no longer than the timeout, however the peer spreads its    *)
(* bytes.                                                                   *)
THEOREM DeadlineHolds == Spec => []FrameDeadline
<1>1. Init => FrameDeadline
  BY LimitAssumption DEF Init, FrameDeadline
<1>2. TypeOK /\ FrameDeadline /\ [Next]_vars => FrameDeadline'
  <2> SUFFICES ASSUME TypeOK, FrameDeadline, [Next]_vars PROVE FrameDeadline'
    OBVIOUS
  <2> USE LimitAssumption DEF FrameDeadline
  <2>1. ASSUME NEW r \in Results, Return(r) PROVE FrameDeadline'
    BY <2>1 DEF Return
  <2>2. ASSUME UNCHANGED <<left, spent>> PROVE FrameDeadline'
    BY <2>2
  <2>3. ASSUME NEW d \in 1..Timeout, ReadFrame(d) PROVE FrameDeadline'
    BY <2>3 DEF ReadFrame
  <2>4. CASE Tick
    BY <2>4 DEF Tick, TypeOK
  <2>5. CASE TakeHeader
    BY <2>1, <2>2, <2>5 DEF TakeHeader, Refuse, Yield, Results
  <2>6. CASE HeaderTooLong \/ TakeBody \/ Expire \/ Lose \/ ReadClosed
    BY <2>1, <2>6 DEF HeaderTooLong, TakeBody, Expire, Lose, ReadClosed, Refuse, Yield, Results
  <2>7. ASSUME NEW k \in 1..RecvMax, Recv(k) PROVE FrameDeadline'
    BY <2>2, <2>7 DEF Recv, read
  <2>8. ASSUME NEW s \in Streams, Connect(s) PROVE FrameDeadline'
    BY <2>2, <2>8 DEF Connect, read
  <2>9. CASE Close \/ UNCHANGED vars
    BY <2>2, <2>9 DEF Close, read, vars
  <2> QED BY <2>3, <2>4, <2>5, <2>6, <2>7, <2>8, <2>9 DEF Next, Step
<1> QED BY <1>1, <1>2, TypeCorrect, PTL DEF Spec

-----------------------------------------------------------------------------
(* self._buffer is bounded whatever the peer sends. *)
THEOREM BufferIsBounded == Spec => []BufferBound
<1>1. Init => BufferBound
  <2> SUFFICES ASSUME Init PROVE Len(buffer) = 0
    BY LimitAssumption DEF BufferBound
  <2> QED BY DEF Init
<1>2. TypeOK /\ TypeOK' /\ BufferBound /\ [Next]_vars => BufferBound'
  <2> SUFFICES ASSUME TypeOK, TypeOK', BufferBound, [Next]_vars PROVE BufferBound'
    OBVIOUS
  <2> USE LimitAssumption
  <2>1. ASSUME Len(buffer') <= Len(buffer) PROVE BufferBound'
    BY <2>1 DEF BufferBound, TypeOK
  <2>2. ASSUME Shut PROVE BufferBound'
    BY <2>2, <2>1, EmptySeq DEF Shut, TypeOK
  <2>3. ASSUME UNCHANGED buffer PROVE BufferBound'
    BY <2>3 DEF BufferBound
  <2>4. ASSUME NEW s \in Streams, Connect(s) PROVE BufferBound'
    BY <2>4, <2>1, EmptySeq DEF Connect, TypeOK
  <2>5. CASE TakeHeader
    <3>1. CASE Refuse
      BY <3>1, <2>2 DEF Refuse
    <3>2. CASE buffer' = SubSeq(buffer, BlockEnd(buffer) + 1, Len(buffer))
      <4>1. BlockEnd(buffer) \in 2..Len(buffer)
        BY <2>5, BlockEndIsEnd DEF TakeHeader, TypeOK
      <4>2. BlockEnd(buffer) \in 0..Len(buffer) /\ buffer \in Seq(Byte) /\ Len(buffer) \in Nat
        BY <4>1, SMTT(20) DEF TypeOK
      <4>3. Len(buffer') = Len(buffer) - BlockEnd(buffer)
        BY <3>2, <4>2, SplitSequence
      <4> QED BY <4>2, <4>3, <2>1
    <3> QED BY <2>5, <3>1, <3>2 DEF TakeHeader
  <2>6. CASE TakeBody
    <3>1. Len(buffer') <= Len(buffer)
      BY <2>6, SMTT(20) DEF TakeBody, TypeOK
    <3> QED BY <3>1, <2>1
  <2>7. ASSUME NEW k \in 1..RecvMax, Recv(k) PROVE BufferBound'
    <3>1. SubSeq(wire, 1, k) \in Seq(Byte) /\ Len(SubSeq(wire, 1, k)) = k
      BY <2>7 DEF Recv, TypeOK
    <3>2. Len(buffer') = Len(buffer) + k
      BY <2>7, <3>1 DEF Recv, TypeOK
    <3>3. Len(buffer) < MaxHeader \/ Len(buffer) < MaxBody
      BY <2>7 DEF Recv, InRecv, TypeOK
    <3>4. k <= RecvMax /\ k \in Nat /\ Len(buffer) \in Nat
      BY <2>7 DEF Recv, TypeOK
    <3> HIDE DEF BufferBound
    <3>5. Len(buffer') < (IF MaxHeader > MaxBody THEN MaxHeader ELSE MaxBody) + RecvMax
      BY <3>2, <3>3, <3>4
    <3> QED BY <3>5 DEF BufferBound
  <2>8. CASE HeaderTooLong \/ Lose \/ Close
    BY <2>8, <2>2 DEF HeaderTooLong, Refuse, Lose, Close
  <2>9. CASE Expire
    BY <2>9, <2>2, <2>3 DEF Expire
  <2>10. ASSUME NEW d \in 1..Timeout, ReadFrame(d) PROVE BufferBound'
    BY <2>10, <2>3 DEF ReadFrame
  <2>11. CASE ReadClosed \/ Tick \/ UNCHANGED vars
    BY <2>11, <2>3 DEF ReadClosed, Tick, vars
  <2> QED BY <2>4, <2>5, <2>6, <2>7, <2>8, <2>9, <2>10, <2>11 DEF Next, Step
<1> QED BY <1>1, <1>2, TypeCorrect, PTL DEF Spec

-----------------------------------------------------------------------------
(* No byte is lost, repeated or taken out of order, however the stream was  *)
(* cut: the accounting holds in every state, and with it an idle tick       *)
(* (ESLTimeout with the connection left open) consumes nothing.             *)
THEOREM NoByteLost == Spec => []StreamAccounted
<1>1. Init => StreamAccounted
  BY DEF Init, StreamAccounted
<1>2. TypeOK /\ TypeOK' /\ StreamAccounted /\ [Next]_vars => StreamAccounted'
  <2> SUFFICES ASSUME TypeOK, TypeOK', StreamAccounted, [Next]_vars
               PROVE  StreamAccounted'
    OBVIOUS
  <2>1. ASSUME ~open' PROVE StreamAccounted'
    BY <2>1 DEF StreamAccounted
  <2>2. ASSUME UNCHANGED <<open, stream, wire, buffer, taken, head>>, Partial' = Partial
        PROVE  StreamAccounted'
    BY <2>2 DEF StreamAccounted
  <2>3. ASSUME NEW s \in Streams, Connect(s) PROVE StreamAccounted'
    <3>1. s \in Seq(Byte)
      BY StreamAssumption
    <3>2. taken' = <<>> /\ buffer' = <<>> /\ Partial' = <<>> /\ wire' = s /\ stream' = s
      BY <2>3 DEF Connect, Partial, read
    <3>3. <<>> \o <<>> \o <<>> \o s = s
      BY <3>1, Concatenation
    <3> QED BY <3>2, <3>3 DEF StreamAccounted
  <2>4. CASE Close \/ HeaderTooLong \/ Lose
    BY <2>1, <2>4 DEF Close, HeaderTooLong, Refuse, Lose, Shut
  <2>5. CASE ReadClosed
    BY <2>1, <2>5 DEF ReadClosed, conn
  <2>6. ASSUME NEW d \in 1..Timeout, ReadFrame(d) PROVE StreamAccounted'
    BY <2>2, <2>6 DEF ReadFrame, conn, log, Partial
  <2>7. CASE Tick \/ UNCHANGED vars
    BY <2>2, <2>7 DEF Tick, conn, log, vars, Partial
  <2>8. CASE Expire
    <3>1. CASE pc = "body" \/ buffer # <<>>
      BY <2>1, <2>8, <3>1 DEF Expire, Shut
    <3>2. CASE pc # "body" /\ buffer = <<>>
      <4>1. Partial = <<>> /\ Partial' = <<>> /\ head = <<>> /\ head' = <<>>
        BY <2>8, <3>2 DEF Expire, Return, Partial, TypeOK
      <4> QED BY <2>2, <2>8, <3>2, <4>1 DEF Expire, conn, log
    <3> QED BY <3>1, <3>2
  <2>9. ASSUME NEW k \in 1..RecvMax, Recv(k) PROVE StreamAccounted'
    <3> DEFINE done == taken \o Partial
               more == SubSeq(wire, 1, k)
               rest == SubSeq(wire, k + 1, Len(wire))
    <3>1. /\ Partial' = Partial /\ UNCHANGED <<open, stream, taken>>
          /\ buffer' = buffer \o more /\ wire' = rest
      BY <2>9 DEF Recv, read, log, Partial
    <3>2. more \in Seq(Byte) /\ rest \in Seq(Byte) /\ wire = more \o rest
      <4>1. wire \in Seq(Byte) /\ k \in 0..Len(wire)
        BY <2>9, LimitAssumption DEF Recv, TypeOK
      <4> QED BY <4>1, SplitSequence
    <3>3. done \in Seq(Byte)
      <4>1. Partial \in Seq(Byte)
        BY AlphabetAssumption, EmptySeq DEF Partial, Encoding, TypeOK
      <4> QED BY <4>1, Concatenation DEF TypeOK
    <3> HIDE DEF done, more, rest
    <3>4. (done \o buffer) \o (more \o rest) = (done \o (buffer \o more)) \o rest
      <4>1. buffer \in Seq(Byte)
        BY DEF TypeOK
      <4>2. done \o buffer \in Seq(Byte) /\ (done \o buffer) \o more = done \o (buffer \o more)
        BY <3>2, <3>3, <4>1, Concatenation, SMTT(20)
      <4>3. (done \o buffer) \o (more \o rest) = ((done \o buffer) \o more) \o rest
        BY <3>2, <4>2, Concatenation, ZenonT(30)
      <4> QED BY <4>2, <4>3
    <3>5. taken' \o Partial' = done
      BY <3>1 DEF done
    <3> QED BY <3>1, <3>2, <3>4, <3>5 DEF StreamAccounted, done
  <2>10. CASE TakeHeader
    <3> DEFINE e == BlockEnd(buffer)
               h == SubSeq(buffer, 1, e - 2)
               rest == SubSeq(buffer, e + 1, Len(buffer))
    <3>1. CASE Refuse
      BY <3>1, <2>1 DEF Refuse, Shut
    <3>2. CASE ~Refuse
      <4>1. /\ buffer' = rest /\ Partial = <<>>
            /\ UNCHANGED <<open, stream, wire>>
            /\ \/ Partial' = <<>> /\ taken' = taken \o Encoding(h, <<>>)
               \/ Partial' = Encoding(h, <<>>) /\ taken' = taken
        BY <2>10, <3>2 DEF TakeHeader, Yield, Return, Partial, conn, log
      <4>2. buffer = Encoding(h, <<>>) \o rest
        BY <2>10, SplitAtBlock DEF TakeHeader, TypeOK
      <4>3. Encoding(h, <<>>) \in Seq(Byte) /\ rest \in Seq(Byte)
        <5>1. buffer \in Seq(Byte) /\ e \in 2..Len(buffer) /\ Len(buffer) \in Nat
          BY <2>10, BlockEndIsEnd DEF TakeHeader, TypeOK
        <5>2. e - 2 \in 0..Len(buffer) /\ e \in 0..Len(buffer)
          BY <5>1
        <5> HIDE DEF e
        <5>3. h \in Seq(Byte) /\ rest \in Seq(Byte)
          BY <5>1, <5>2, SplitSequence
        <5>4. <<LF, LF>> \in Seq(Byte)
          BY AlphabetAssumption
        <5> HIDE DEF h, rest
        <5> QED BY <5>3, <5>4, Concatenation DEF Encoding
      <4> DEFINE block == Encoding(h, <<>>)
      <4> HIDE DEF block, rest
      <4>4. /\ taken \in Seq(Byte) /\ wire \in Seq(Byte)
            /\ block \in Seq(Byte) /\ rest \in Seq(Byte) /\ taken \o block \in Seq(Byte)
        BY <4>3, Concatenation DEF TypeOK, block
      <4>5. taken \o <<>> = taken /\ (taken \o block) \o <<>> = taken \o block
        BY <4>4, Concatenation
      <4>6. taken \o (block \o rest) = (taken \o block) \o rest
        BY <4>4, ConcatAssociative, SMTT(20)
      <4> QED BY <4>1, <4>2, <4>4, <4>5, <4>6 DEF StreamAccounted, block
    <3> QED BY <3>1, <3>2
  <2>11. CASE TakeBody
    <3> DEFINE b == SubSeq(buffer, 1, need)
               rest == SubSeq(buffer, need + 1, Len(buffer))
    <3>1. /\ buffer' = rest /\ UNCHANGED <<open, stream, wire>>
          /\ Partial = Encoding(head, <<>>) /\ Partial' = <<>>
          /\ taken' = taken \o Encoding(head, b)
      BY <2>11 DEF TakeBody, Yield, Return, Partial, conn
    <3>2. b \in Seq(Byte) /\ rest \in Seq(Byte) /\ buffer = b \o rest
      <4>1. buffer \in Seq(Byte) /\ need \in 0..Len(buffer)
        BY <2>11, LimitAssumption DEF TakeBody, TypeOK
      <4> QED BY <4>1, SplitSequence
    <3> HIDE DEF b, rest
    <3>3. Encoding(head, b) = Encoding(head, <<>>) \o b /\ Encoding(head, <<>>) \in Seq(Byte)
      <4>1. <<LF, LF>> \in Seq(Byte) /\ head \in Seq(Byte)
        BY AlphabetAssumption DEF TypeOK
      <4>2. head \o <<LF, LF>> \in Seq(Byte)
        BY <4>1, Concatenation
      <4> QED BY <3>2, <4>2, Concatenation DEF Encoding
    <3> DEFINE block == Encoding(head, <<>>)
    <3> HIDE DEF block
    <3>4. taken \o block \o (b \o rest) \o wire = taken \o (block \o b) \o <<>> \o rest \o wire
      <4>1. taken \in Seq(Byte) /\ wire \in Seq(Byte) /\ block \in Seq(Byte)
        BY <3>3 DEF TypeOK, block
      <4>2. (taken \o block) \o (b \o rest) = (taken \o (block \o b)) \o rest
        <5>1. b \in Seq(Byte) /\ rest \in Seq(Byte)
          BY <3>2
        <5>2. taken \o block \in Seq(Byte) /\ (taken \o block) \o b = taken \o (block \o b)
          BY <4>1, <5>1, Concatenation, SMTT(20)
        <5>3. (taken \o block) \o (b \o rest) = ((taken \o block) \o b) \o rest
          BY <5>1, <5>2, Concatenation, ZenonT(30)
        <5> QED BY <5>2, <5>3
      <4>3. block \o b \in Seq(Byte) /\ taken \o (block \o b) \in Seq(Byte)
        BY <3>2, <4>1, Concatenation
      <4>4. (taken \o (block \o b)) \o <<>> = taken \o (block \o b)
        BY <4>3, Concatenation
      <4> QED BY <4>2, <4>4
    <3> QED BY <3>1, <3>2, <3>3, <3>4 DEF StreamAccounted, block
  <2> QED BY <2>3, <2>4, <2>5, <2>6, <2>7, <2>8, <2>9, <2>10, <2>11 DEF Next, Step
<1> QED BY <1>1, <1>2, TypeCorrect, PTL DEF Spec

(* ESLTimeout from a read means an idle connection at a frame boundary:     *)
(* nothing of the stream was consumed, and the next read may go on.         *)
THEOREM IdleTickConsumesNothing == Spec => IdleTickIsClean
<1> DEFINE Clean == result' = "timeout" /\ result # "timeout" =>
                      open' /\ buffer' = <<>> /\ stream' = taken' \o wire'
<1>1. TypeOK /\ StreamAccounted /\ [Next]_vars => [Clean]_vars
  <2> SUFFICES ASSUME TypeOK, StreamAccounted, Next,
                      result' = "timeout", result # "timeout"
               PROVE  open' /\ buffer' = <<>> /\ stream' = taken' \o wire'
    BY DEF vars
  <2>1. Expire /\ Return("timeout")
    <3>1. ASSUME NEW r, Return(r) PROVE r = "timeout"
      BY <3>1 DEF Return
    <3>2. ~\E s \in Streams : Connect(s)
      BY DEF Connect
    <3>3. ~\E d \in 1..Timeout : ReadFrame(d)
      BY DEF ReadFrame
    <3>4. ~\E k \in 1..RecvMax : Recv(k)
      BY DEF Recv
    <3>5. ~Close /\ ~Tick
      BY DEF Close, Tick
    <3>6. ~Return("lost") /\ ~Return("protocol") /\ ~Return("frame")
      BY <3>1
    <3>7. ~ReadClosed /\ ~HeaderTooLong /\ ~TakeBody /\ ~Lose
      BY <3>6 DEF ReadClosed, HeaderTooLong, Refuse, TakeBody, Yield, Lose
    <3>8. ~TakeHeader
      BY <3>6 DEF TakeHeader, Refuse, Yield
    <3> QED BY <3>2, <3>3, <3>4, <3>5, <3>6, <3>7, <3>8 DEF Next, Step, Expire
  <2>2. pc # "body" /\ buffer = <<>>
        /\ UNCHANGED <<open, stream, wire, buffer, taken>>
    <3>1. ~Return("lost")
      BY DEF Return
    <3> QED BY <2>1, <3>1 DEF Expire, conn, log
  <2>3. open
    BY <2>1 DEF Expire, InRecv, TypeOK
  <2>4. taken \o <<>> \o <<>> \o wire = taken \o wire
    BY Concatenation DEF TypeOK
  <2> QED BY <2>2, <2>3, <2>4 DEF StreamAccounted, Partial
<1> QED BY <1>1, TypeCorrect, NoByteLost, PTL DEF Spec, IdleTickIsClean

-----------------------------------------------------------------------------
(* A refusal is deserved.  The first block of a stream is looked for in     *)
(* what has arrived of it, and it is the same block that the reference      *)
(* definition finds in the first MaxHeader bytes of the whole stream.       *)
LEMMA BlockEndIsLeast ==
  ASSUME NEW s \in Seq(Byte), HasBlock(s)
  PROVE  BlockEnd(s) \in BlockEnds(s) /\ \A f \in BlockEnds(s) : BlockEnd(s) <= f
<1>1. BlockEnds(s) \subseteq Nat /\ BlockEnds(s) # {}
  BY DEF BlockEnds, HasBlock
<1>2. \E e \in BlockEnds(s) : \A f \in BlockEnds(s) : e <= f
  BY <1>1, LeastNatural
<1> QED BY <1>2 DEF BlockEnd

LEMMA BlockEndOfPrefix ==
  ASSUME NEW s \in Seq(Byte), NEW b \in Seq(Byte), HasBlock(s),
         Len(b) <= Len(s), \A i \in 1..Len(b) : b[i] = s[i]
  PROVE  /\ BlockEnd(s) <= Len(b) => HasBlock(b) /\ BlockEnd(b) = BlockEnd(s)
         /\ BlockEnd(s) > Len(b) => ~HasBlock(b)
<1> DEFINE e == BlockEnd(s)
<1>1. Len(s) \in Nat /\ Len(b) \in Nat
  BY LenProperties
<1>2. BlockEnds(b) = {x \in 2..Len(b) : s[x] = LF /\ s[x - 1] = LF}
  BY <1>1 DEF BlockEnds
<1>3. e \in BlockEnds(s) /\ \A f \in BlockEnds(s) : e <= f
  BY BlockEndIsLeast
<1>4. BlockEnds(b) = {x \in BlockEnds(s) : x <= Len(b)}
  BY <1>1, <1>2 DEF BlockEnds
<1>5. e \in Nat /\ BlockEnds(s) \subseteq Nat
  BY <1>3 DEF BlockEnds
<1> HIDE DEF e
<1>6. ASSUME e <= Len(b) PROVE HasBlock(b) /\ BlockEnd(b) = e
  <2>1. e \in BlockEnds(b) /\ HasBlock(b)
    BY <1>3, <1>4, <1>6 DEF HasBlock
  <2>2. BlockEnd(b) \in BlockEnds(b) /\ \A f \in BlockEnds(b) : BlockEnd(b) <= f
    BY <2>1, BlockEndIsLeast
  <2>3. BlockEnd(b) <= e /\ e <= BlockEnd(b) /\ BlockEnd(b) \in Nat
    BY <1>3, <1>4, <1>5, <2>1, <2>2
  <2> QED BY <1>5, <2>1, <2>3
<1>7. ASSUME e > Len(b) PROVE ~HasBlock(b)
  BY <1>1, <1>3, <1>4, <1>5, <1>7 DEF HasBlock
<1> QED BY <1>6, <1>7 DEF e

LEMMA NoBlockInPrefix ==
  ASSUME NEW s \in Seq(Byte), NEW b \in Seq(Byte), ~HasBlock(s),
         Len(b) <= Len(s), \A i \in 1..Len(b) : b[i] = s[i]
  PROVE  ~HasBlock(b)
<1>1. Len(s) \in Nat /\ Len(b) \in Nat
  BY LenProperties
<1> QED BY <1>1 DEF HasBlock, BlockEnds

(* A prefix of what has arrived is a prefix of the whole. *)
LEMMA PrefixOfConcat ==
  ASSUME NEW b \in Seq(Byte), NEW w \in Seq(Byte), NEW m \in 0..Len(b)
  PROVE  SubSeq(b \o w, 1, m) = SubSeq(b, 1, m)
<1>1. Len(b) \in Nat /\ Len(w) \in Nat /\ b \o w \in Seq(Byte) /\ Len(b \o w) = Len(b) + Len(w)
      /\ \A i \in 1..Len(b) : (b \o w)[i] = b[i]
  BY ConcatProperties, LenProperties
<1>2. SubSeq(b \o w, 1, m) \in Seq(Byte) /\ Len(SubSeq(b \o w, 1, m)) = m
      /\ \A i \in 1..m : SubSeq(b \o w, 1, m)[i] = (b \o w)[i]
  BY <1>1, SubSeqProperties
<1>3. SubSeq(b, 1, m) \in Seq(Byte) /\ Len(SubSeq(b, 1, m)) = m
      /\ \A i \in 1..m : SubSeq(b, 1, m)[i] = b[i]
  BY <1>1, SubSeqProperties
<1>4. \A i \in 1..m : SubSeq(b \o w, 1, m)[i] = SubSeq(b, 1, m)[i]
  BY <1>1, <1>2, <1>3
<1> QED BY <1>2, <1>3, <1>4, SeqEqual

(* What is left of a stream of which a has been taken. *)
LEMMA RestOfConcat ==
  ASSUME NEW a \in Seq(Byte), NEW r \in Seq(Byte)
  PROVE  SubSeq(a \o r, Len(a) + 1, Len(a \o r)) = r
<1> DEFINE c == a \o r
           t == SubSeq(c, Len(a) + 1, Len(c))
<1>1. Len(a) \in Nat /\ Len(r) \in Nat /\ c \in Seq(Byte) /\ Len(c) = Len(a) + Len(r)
      /\ \A i \in 1..Len(r) : c[Len(a) + i] = r[i]
  <2>1. Len(a) \in Nat /\ Len(r) \in Nat /\ c \in Seq(Byte) /\ Len(c) = Len(a) + Len(r)
        /\ \A i \in Len(a) + 1 .. Len(a) + Len(r) : c[i] = r[i - Len(a)]
    BY ConcatProperties, LenProperties
  <2>2. ASSUME NEW i \in 1..Len(r) PROVE c[Len(a) + i] = r[i]
    <3>1. Len(a) + i \in Len(a) + 1 .. Len(a) + Len(r) /\ (Len(a) + i) - Len(a) = i
      BY <2>1
    <3> QED BY <2>1, <3>1
  <2> QED BY <2>1, <2>2
<1> HIDE DEF c
<1>2. t \in Seq(Byte) /\ Len(t) = Len(r)
  <2>1. Len(a) \in 0..Len(c)
    BY <1>1
  <2> QED BY <1>1, <2>1, SplitSequence
<1>3. \A i \in 1..Len(r) : t[i] = c[Len(a) + i]
  <2>1. ASSUME NEW i \in 1..Len(r) PROVE t[i] = c[Len(a) + i]
    <3>1. Len(a) + 1 \in 1..Len(c) + 1 /\ Len(c) \in (Len(a) + 1) - 1 .. Len(c)
      BY <1>1
    <3>2. i \in 1..(Len(c) - (Len(a) + 1) + 1) /\ (Len(a) + 1) + i - 1 = Len(a) + i
      BY <1>1
    <3> QED BY <1>1, <3>1, <3>2, SubSeqProperties
  <2> QED BY <2>1
<1>4. t = r
  BY <1>1, <1>2, <1>3, SeqEqual
<1> QED BY <1>4 DEF c

(* With b received and w still to come: no block within the header cap.     *)
LEMMA TooLongIsRefusable ==
  ASSUME NEW b \in Seq(Byte), NEW w \in Seq(Byte), Len(b) >= MaxHeader,
         \/ ~HasBlock(b)
         \/ HasBlock(b) /\ BlockEnd(b) > MaxHeader
  PROVE  Refusable(b \o w)
<1> DEFINE first == SubSeq(b \o w, 1, MaxHeader)
<1>1. Len(b) \in Nat /\ Len(w) \in Nat /\ Len(b \o w) = Len(b) + Len(w) /\ MaxHeader \in 0..Len(b)
  BY ConcatProperties, LenProperties, LimitAssumption
<1>2. /\ first \in Seq(Byte) /\ Len(first) = MaxHeader
      /\ \A i \in 1..Len(first) : first[i] = b[i]
  BY <1>1, PrefixOfConcat, SubSeqProperties
<1>3. ~HasBlock(first)
  <2> HIDE DEF first
  <2> QED BY <1>1, <1>2, BlockEndOfPrefix, NoBlockInPrefix
<1>4. (IF Len(b \o w) < MaxHeader THEN Len(b \o w) ELSE MaxHeader) = MaxHeader
      /\ Len(b \o w) >= MaxHeader
  BY <1>1
<1> QED BY <1>3, <1>4 DEF Refusable

(* A block within the cap that must not be accepted. *)
LEMMA UnacceptableIsRefusable ==
  ASSUME NEW b \in Seq(Byte), NEW w \in Seq(Byte), HasBlock(b), BlockEnd(b) <= MaxHeader,
         ~Acceptable(BlockEnd(b), SubSeq(b, 1, BlockEnd(b) - 2))
  PROVE  Refusable(b \o w)
<1> DEFINE s == b \o w
           m == IF Len(s) < MaxHeader THEN Len(s) ELSE MaxHeader
           first == SubSeq(s, 1, m)
           e == BlockEnd(b)
           h == SubSeq(b, 1, e - 2)
<1>1. /\ Len(b) \in Nat /\ Len(w) \in Nat /\ s \in Seq(Byte) /\ Len(s) = Len(b) + Len(w)
      /\ \A i \in 1..Len(b) : s[i] = b[i]
  BY ConcatProperties, LenProperties
<1>2. e \in 2..Len(b) /\ b[e] = LF /\ b[e - 1] = LF
  BY BlockEndIsEnd
<1>3. m \in 0..Len(s) /\ e <= m
  BY <1>1, <1>2, LimitAssumption
<1>4. first \in Seq(Byte) /\ Len(first) = m /\ \A i \in 1..m : first[i] = s[i]
  <2> HIDE DEF m, s
  <2> QED BY <1>1, <1>3, SubSeqProperties
<1>5. HasBlock(s) /\ BlockEnd(s) = e
  <2>1. e \in BlockEnds(s)
    BY <1>1, <1>2 DEF BlockEnds
  <2>2. HasBlock(s)
    BY <2>1 DEF HasBlock
  <2>3. BlockEnd(s) <= e
    BY <1>1, <2>1, <2>2, BlockEndIsLeast
  <2>4. BlockEnd(s) \in 2..Len(s)
    BY <1>1, <2>2, BlockEndIsEnd
  <2>5. BlockEnd(s) <= Len(b)
    BY <1>1, <1>2, <2>3, <2>4
  <2> HIDE DEF s, e
  <2> QED BY <1>1, <2>2, <2>5, BlockEndOfPrefix DEF e
<1>6. HasBlock(first) /\ BlockEnd(first) = e
  <2>1. Len(first) <= Len(s) /\ \A i \in 1..Len(first) : first[i] = s[i]
    BY <1>1, <1>3, <1>4
  <2>2. BlockEnd(s) <= Len(first)
    BY <1>3, <1>4, <1>5
  <2> HIDE DEF first, s, m, e
  <2> QED BY <1>1, <1>4, <1>5, <2>1, <2>2, BlockEndOfPrefix
<1>7. SubSeq(s, 1, BlockEnd(first) - 2) = h
  <2>1. e - 2 \in 0..Len(b)
    BY <1>1, <1>2
  <2> HIDE DEF first, e
  <2> QED BY <1>6, <2>1, PrefixOfConcat
<1>8. ~LengthAccepted(h) \/ e + BodyLength(h) > MaxFrame
  <2> HIDE DEF h
  <2>1. LengthAccepted(h) => BodyLength(h) \in Nat
    BY LimitAssumption DEF LengthAccepted
  <2>2. e \in Nat /\ MaxFrame \in Nat
    BY <1>1, <1>2, LimitAssumption
  <2> QED BY <2>1, <2>2 DEF Acceptable, h
<1> HIDE DEF h
<1> QED BY <1>6, <1>7, <1>8 DEF Refusable

(* A protocol error is the peer's doing: whatever _read_frame refuses, a    *)
(* decoder that had the whole stream in one piece would refuse, so no frame *)
(* within the limits is ever turned down because of where a recv happened   *)
(* to end (esl.py:693-709, 762-787, 801-825).                               *)
THEOREM RefusalsHaveCause == Spec => []RefusedForCause
<1>1. Init => RefusedForCause
  BY DEF Init, RefusedForCause
<1>2. TypeOK /\ StreamAccounted /\ RefusedForCause /\ [Next]_vars => RefusedForCause'
  <2> SUFFICES ASSUME TypeOK, StreamAccounted, RefusedForCause, [Next]_vars
               PROVE  RefusedForCause'
    OBVIOUS
  <2>1. ASSUME UNCHANGED <<stream, taken, result>> PROVE RefusedForCause'
    BY <2>1 DEF RefusedForCause
  <2>2. ASSUME result' # "protocol" PROVE RefusedForCause'
    BY <2>2 DEF RefusedForCause
  <2>3. ASSUME Refuse, pc = "header", Refusable(buffer \o wire) PROVE RefusedForCause'
    <3>1. open /\ taken \in Seq(Byte) /\ buffer \in Seq(Byte) /\ wire \in Seq(Byte)
      BY <2>3 DEF TypeOK
    <3>2. stream = taken \o <<>> \o buffer \o wire
      BY <2>3, <3>1 DEF StreamAccounted, Partial
    <3>3. stream = taken \o (buffer \o wire) /\ buffer \o wire \in Seq(Byte)
      <4>1. taken \o <<>> = taken
        BY <3>1, Concatenation
      <4> QED BY <3>1, <3>2, <4>1, Concatenation
    <3>4. SubSeq(stream, Len(taken) + 1, Len(stream)) = buffer \o wire
      BY <3>1, <3>3, RestOfConcat
    <3>5. stream' = stream /\ taken' = taken
      BY <2>3 DEF Refuse, Shut, log
    <3> QED BY <2>3, <3>4, <3>5 DEF RefusedForCause
  <2>4. CASE TakeHeader
    <3> DEFINE e == BlockEnd(buffer)
               h == SubSeq(buffer, 1, e - 2)
    <3>1. CASE ~Acceptable(e, h) /\ Refuse
      <4>1. pc = "header" /\ HasBlock(buffer) /\ buffer \in Seq(Byte) /\ wire \in Seq(Byte)
        BY <2>4 DEF TakeHeader, TypeOK
      <4>2. e \in 2..Len(buffer) /\ Len(buffer) \in Nat
        BY <4>1, BlockEndIsEnd, LenProperties
      <4>3. CASE e <= MaxHeader
        BY <2>3, <3>1, <4>1, <4>3, UnacceptableIsRefusable
      <4>4. CASE e > MaxHeader
        <5>1. Len(buffer) >= MaxHeader
          BY <4>2, <4>4, LimitAssumption
        <5> QED BY <2>3, <3>1, <4>1, <4>4, <5>1, TooLongIsRefusable
      <4> QED BY <4>2, <4>3, <4>4, LimitAssumption
    <3>2. CASE ~(~Acceptable(e, h) /\ Refuse)
      BY <2>1, <2>2, <2>4, <3>2 DEF TakeHeader, Yield, Return, conn, log
    <3> QED BY <3>1, <3>2
  <2>5. CASE HeaderTooLong
    <3>1. ~HasBlock(buffer) /\ Len(buffer) >= MaxHeader /\ Refuse /\ pc = "header"
          /\ buffer \in Seq(Byte) /\ wire \in Seq(Byte)
      BY <2>5 DEF HeaderTooLong, TypeOK
    <3> QED BY <2>3, <3>1, TooLongIsRefusable
  <2>6. ASSUME NEW s \in Streams, Connect(s) PROVE RefusedForCause'
    BY <2>2, <2>6 DEF Connect
  <2>7. ASSUME NEW d \in 1..Timeout, ReadFrame(d) PROVE RefusedForCause'
    BY <2>2, <2>7 DEF ReadFrame
  <2>8. CASE ReadClosed \/ TakeBody \/ Expire \/ Lose
    BY <2>2, <2>8 DEF ReadClosed, TakeBody, Yield, Expire, Lose, Return
  <2>9. ASSUME NEW k \in 1..RecvMax, Recv(k) PROVE RefusedForCause'
    BY <2>1, <2>9 DEF Recv, log
  <2>10. CASE Close \/ Tick \/ UNCHANGED vars
    BY <2>1, <2>10 DEF Close, Shut, Tick, conn, log, vars
  <2> QED BY <2>4, <2>5, <2>6, <2>7, <2>8, <2>9, <2>10 DEF Next, Step
<1> QED BY <1>1, <1>2, TypeCorrect, NoByteLost, PTL DEF Spec

-----------------------------------------------------------------------------
(* ESLFraming implements FrameChannel.  What Acceptable says of a block     *)
(* that is there is what Refusable says of all that is to come.             *)
LEMMA AcceptableOrRefusable ==
  ASSUME NEW s \in Seq(Byte), HasBlock(s)
  PROVE  Refusable(s) <=> ~Acceptable(BlockEnd(s), FirstHead(s))
<1> DEFINE m == IF Len(s) < MaxHeader THEN Len(s) ELSE MaxHeader
           first == SubSeq(s, 1, m)
           e == BlockEnd(s)
           h == FirstHead(s)
<1>1. Len(s) \in Nat /\ m \in 0..Len(s) /\ e \in 2..Len(s) /\ MaxHeader \in Nat /\ MaxFrame \in Nat
  BY LenProperties, BlockEndIsEnd, LimitAssumption
<1>2. first \in Seq(Byte) /\ Len(first) = m /\ \A i \in 1..m : first[i] = s[i]
  <2> HIDE DEF m
  <2> QED BY <1>1, SubSeqProperties
<1>3. CASE e <= MaxHeader
  <2>1. HasBlock(first) /\ BlockEnd(first) = e
    <3>1. e <= m
      BY <1>1, <1>3
    <3> HIDE DEF m, first, e
    <3> QED BY <1>1, <1>2, <3>1, BlockEndOfPrefix DEF e
  <2>2. Refusable(s) <=> ~LengthAccepted(h) \/ e + BodyLength(h) > MaxFrame
    <3> HIDE DEF e
    <3>1. SubSeq(s, 1, BlockEnd(first) - 2) = h
      BY <2>1 DEF FirstHead, e
    <3> HIDE DEF h
    <3> QED BY <2>1, <3>1 DEF Refusable
  <2>3. LengthAccepted(h) => BodyLength(h) \in Nat
    BY LimitAssumption DEF LengthAccepted
  <2> HIDE DEF e, h
  <2>4. Acceptable(e, h) <=> ~(~LengthAccepted(h) \/ e + BodyLength(h) > MaxFrame)
    BY <1>1, <1>3, <2>3 DEF Acceptable
  <2> QED BY <2>2, <2>4 DEF e, h
<1>4. CASE e > MaxHeader
  <2>1. m = MaxHeader /\ Len(s) >= MaxHeader /\ e > m
    BY <1>1, <1>4
  <2>2. ~HasBlock(first)
    <3> HIDE DEF m, first, e
    <3> QED BY <1>1, <1>2, <2>1, BlockEndOfPrefix DEF e
  <2>3. Refusable(s)
    BY <2>1, <2>2 DEF Refusable
  <2> QED BY <1>4, <1>1, <2>3 DEF Acceptable
<1> QED BY <1>1, <1>3, <1>4

(* A block stays where it is when more arrives. *)
LEMMA BlockStays ==
  ASSUME NEW b \in Seq(Byte), NEW w \in Seq(Byte), HasBlock(b)
  PROVE  /\ HasBlock(b \o w) /\ BlockEnd(b \o w) = BlockEnd(b)
         /\ FirstHead(b \o w) = FirstHead(b)
<1> DEFINE s == b \o w
           e == BlockEnd(b)
<1>1. /\ Len(b) \in Nat /\ Len(w) \in Nat /\ s \in Seq(Byte) /\ Len(s) = Len(b) + Len(w)
      /\ \A i \in 1..Len(b) : s[i] = b[i]
  BY ConcatProperties, LenProperties
<1>2. e \in 2..Len(b) /\ b[e] = LF /\ b[e - 1] = LF
  BY BlockEndIsEnd
<1> HIDE DEF s, e
<1>3. HasBlock(s) /\ BlockEnd(s) <= e
  <2>1. e \in BlockEnds(s)
    BY <1>1, <1>2 DEF BlockEnds
  <2> QED BY <1>1, <2>1, BlockEndIsLeast DEF HasBlock
<1>4. BlockEnd(s) = e
  <2>1. BlockEnd(s) \in 2..Len(s)
    BY <1>1, <1>3, BlockEndIsEnd
  <2>2. BlockEnd(s) <= Len(b) /\ Len(b) <= Len(s)
    BY <1>1, <1>2, <1>3, <2>1
  <2> QED BY <1>1, <1>3, <2>2, BlockEndOfPrefix DEF e
<1>5. SubSeq(s, 1, e - 2) = SubSeq(b, 1, e - 2)
  <2>1. e - 2 \in 0..Len(b)
    BY <1>1, <1>2
  <2> QED BY <2>1, PrefixOfConcat DEF s
<1> QED BY <1>3, <1>4, <1>5 DEF FirstHead, s, e

LEMMA FrameFits ==
  ASSUME NEW s \in Seq(Byte), StartsWithFrame(s)
  PROVE  /\ FrameSize(s) \in 2..Len(s) /\ FirstFrame(s) \in Frame
         /\ BodyLength(FirstHead(s)) \in Nat
<1> DEFINE e == BlockEnd(s)
           h == FirstHead(s)
<1>1. HasBlock(s) /\ Len(s) \in Nat /\ Len(s) >= FrameSize(s)
  BY LenProperties DEF StartsWithFrame
<1>2. e \in 2..Len(s)
  BY <1>1, BlockEndIsEnd
<1>3. h \in Seq(Byte)
  <2>1. e - 2 \in 0..Len(s)
    BY <1>1, <1>2
  <2> QED BY <1>1, <2>1, SubSeqProperties DEF FirstHead
<1>4. BodyLength(h) \in Nat
  BY <1>1, AcceptableOrRefusable, LimitAssumption DEF StartsWithFrame, Acceptable, LengthAccepted
<1> HIDE DEF e, h
<1>5. FrameSize(s) \in 2..Len(s)
  BY <1>1, <1>2, <1>4 DEF FrameSize, e, h
<1>6. SubSeq(s, e + 1, FrameSize(s)) \in Seq(Byte)
  <2>1. e + 1 \in 1..Len(s) + 1 /\ FrameSize(s) \in (e + 1) - 1 .. Len(s)
    BY <1>1, <1>2, <1>4, <1>5 DEF FrameSize, e, h
  <2> QED BY <1>1, <2>1, SubSeqProperties
<1> QED BY <1>3, <1>4, <1>5, <1>6 DEF FirstFrame, Frame, e, h

(* What the reference decoder computes.  It is a recursive function of the  *)
(* byte from which it reads; as every frame takes at least two bytes, the   *)
(* function can be built from the end of the stream backwards.              *)
Rest(s, p) == SubSeq(s, p, Len(s))

Decoding(s, f, p) ==
  IF StartsWithFrame(Rest(s, p))
  THEN <<FirstFrame(Rest(s, p))>> \o f[p + FrameSize(Rest(s, p))] ELSE <<>>

LEMMA RestOfStream ==
  ASSUME NEW s \in Seq(Byte), NEW p \in 1..Len(s) + 1
  PROVE  /\ Rest(s, p) \in Seq(Byte)
         /\ StartsWithFrame(Rest(s, p)) =>
              /\ FrameSize(Rest(s, p)) \in Nat \ {0}
              /\ p + FrameSize(Rest(s, p)) \in 1..Len(s) + 1
              /\ FirstFrame(Rest(s, p)) \in Frame
<1>1. p - 1 \in 0..Len(s) /\ (p - 1) + 1 = p /\ Len(s) \in Nat
  BY LenProperties
<1>2. Rest(s, p) \in Seq(Byte) /\ Len(Rest(s, p)) = Len(s) - (p - 1)
  BY <1>1, SplitSequence DEF Rest
<1>3. ASSUME StartsWithFrame(Rest(s, p))
      PROVE  FrameSize(Rest(s, p)) \in 2..Len(Rest(s, p)) /\ FirstFrame(Rest(s, p)) \in Frame
  BY <1>2, <1>3, FrameFits
<1> QED BY <1>1, <1>2, <1>3

LEMMA DecodingStep ==
  ASSUME NEW s \in Seq(Byte), NEW f, NEW g, NEW p \in 1..Len(s) + 1,
         \A q \in 1..Len(s) + 1 : q > p => f[q] = g[q]
  PROVE  Decoding(s, f, p) = Decoding(s, g, p)
<1>1. ASSUME StartsWithFrame(Rest(s, p))
      PROVE  f[p + FrameSize(Rest(s, p))] = g[p + FrameSize(Rest(s, p))]
  <2>1. p + FrameSize(Rest(s, p)) \in 1..Len(s) + 1 /\ FrameSize(Rest(s, p)) \in Nat \ {0}
    BY <1>1, RestOfStream
  <2>2. Len(s) \in Nat
    BY LenProperties
  <2> QED BY <2>1, <2>2
<1> QED BY <1>1 DEF Decoding

LEMMA DecodeExists ==
  ASSUME NEW s \in Seq(Byte)
  PROVE  \E f : f = [p \in 1..Len(s) + 1 |-> Decoding(s, f, p)]
<1> DEFINE n == Len(s) + 1
           Agrees(f, k) == \A p \in 1..n : p > n - k => f[p] = Decoding(s, f, p)
           S == {k \in 0..n : \E f : f = [p \in 1..n |-> f[p]] /\ Agrees(f, k)}
<1>1. n \in Nat
  BY LenProperties
<1> HIDE DEF n
<1>2. 0 \in S
  <2>1. Agrees([p \in 1..n |-> <<>>], 0)
    BY <1>1
  <2>2. [p \in 1..n |-> <<>>] = [p \in 1..n |-> [p_1 \in 1..n |-> <<>>][p]]
    OBVIOUS
  <2> QED BY <1>1, <2>1, <2>2
<1>3. ASSUME NEW k \in 0..(n - 1), k \in S PROVE k + 1 \in S
  <2>1. PICK f : f = [p \in 1..n |-> f[p]] /\ Agrees(f, k)
    BY <1>3
  <2> DEFINE g == [p \in 1..n |-> IF p = n - k THEN Decoding(s, f, p) ELSE f[p]]
  <2>2. \A p \in 1..n : p > n - k => g[p] = f[p]
    BY <1>1
  <2>3. ASSUME NEW p \in 1..n, p > n - (k + 1) PROVE g[p] = Decoding(s, g, p)
    <3>1. \A q \in 1..n : q > p => f[q] = g[q]
      BY <1>1, <2>2, <2>3
    <3>2. Decoding(s, f, p) = Decoding(s, g, p)
      <4> HIDE DEF g
      <4> QED BY <3>1, DecodingStep DEF n
    <3>3. CASE p = n - k
      BY <3>2, <3>3
    <3>4. CASE p # n - k
      <4>1. p > n - k
        BY <1>1, <2>3, <3>4
      <4>2. f[p] = Decoding(s, f, p)
        BY <2>1, <4>1
      <4> QED BY <2>2, <3>2, <4>1, <4>2
    <3> QED BY <3>3, <3>4
  <2>4. g = [p \in 1..n |-> g[p]] /\ k + 1 \in 0..n
    BY <1>1
  <2> HIDE DEF g
  <2>5. Agrees(g, k + 1)
    BY <2>3
  <2> QED BY <2>4, <2>5
<1>4. n \in S
  <2> HIDE DEF S
  <2>1. 0..n \subseteq S
    BY <1>1, <1>2, <1>3, SetInduction
  <2> QED BY <1>1, <2>1
<1>5. PICK f : f = [p \in 1..n |-> f[p]] /\ Agrees(f, n)
  BY <1>4
<1>6. \A p \in 1..n : f[p] = Decoding(s, f, p)
  BY <1>1, <1>5
<1>7. f = [p \in 1..n |-> Decoding(s, f, p)]
  BY <1>5, <1>6
<1> QED BY <1>7 DEF n

(* The equation that defines the decoder, and its type. *)
LEMMA DecodeEquation ==
  ASSUME NEW s \in Seq(Byte), NEW p \in 1..Len(s) + 1
  PROVE  Decode(s)[p] = Decoding(s, Decode(s), p)
<1>1. Decode(s) = CHOOSE f : f = [q \in 1..Len(s) + 1 |-> Decoding(s, f, q)]
  BY DEF Decode, Decoding, Rest
<1>2. Decode(s) = [q \in 1..Len(s) + 1 |-> Decoding(s, Decode(s), q)]
  BY <1>1, DecodeExists
<1> QED BY <1>2

LEMMA DecodeType ==
  ASSUME NEW s \in Seq(Byte)
  PROVE  \A p \in 1..Len(s) + 1 : Decode(s)[p] \in Seq(Frame)
<1> DEFINE n == Len(s) + 1
           S == {k \in 0..n : \A p \in 1..n : p > n - k => Decode(s)[p] \in Seq(Frame)}
<1>1. n \in Nat
  BY LenProperties
<1>2. \A p \in 1..n : Decode(s)[p] = Decoding(s, Decode(s), p)
  BY DecodeEquation
<1>3. ASSUME NEW p \in 1..n, \A q \in 1..n : q > p => Decode(s)[q] \in Seq(Frame)
      PROVE  Decode(s)[p] \in Seq(Frame)
  <2>1. CASE StartsWithFrame(Rest(s, p))
    <3>1. /\ FirstFrame(Rest(s, p)) \in Frame
          /\ p + FrameSize(Rest(s, p)) \in 1..n /\ p + FrameSize(Rest(s, p)) > p
      BY <1>1, <2>1, RestOfStream
    <3>2. <<FirstFrame(Rest(s, p))>> \in Seq(Frame) /\ Decode(s)[p + FrameSize(Rest(s, p))] \in Seq(Frame)
      BY <1>3, <3>1
    <3> QED BY <1>2, <2>1, <3>2, ConcatProperties DEF Decoding
  <2>2. CASE ~StartsWithFrame(Rest(s, p))
    BY <1>2, <2>2, EmptySeq DEF Decoding
  <2> QED BY <2>1, <2>2
<1> HIDE DEF n
<1>4. 0 \in S
  BY <1>1
<1>5. ASSUME NEW k \in 0..(n - 1), k \in S PROVE k + 1 \in S
  <2>1. ASSUME NEW p \in 1..n, p > n - (k + 1) PROVE Decode(s)[p] \in Seq(Frame)
    <3>1. \A q \in 1..n : q > n - k => Decode(s)[q] \in Seq(Frame)
      BY <1>5
    <3>2. \A q \in 1..n : q > p => q > n - k
      BY <1>1, <2>1
    <3> QED BY <1>3, <3>1, <3>2
  <2> QED BY <1>1, <2>1
<1>6. n \in S
  <2> HIDE DEF S
  <2>1. 0..n \subseteq S
    BY <1>1, <1>4, <1>5, SetInduction
  <2> QED BY <1>1, <2>1
<1>7. \A p \in 1..n : p > n - n => Decode(s)[p] \in Seq(Frame)
  BY <1>6
<1> QED BY <1>1, <1>7 DEF n

(* The block that a buffer starts with, by itself. *)
LEMMA BlockOfBuffer ==
  ASSUME NEW s \in Seq(Byte), HasBlock(s)
  PROVE  LET e == BlockEnd(s)
             h == SubSeq(s, 1, e - 2)
             block == Encoding(h, <<>>)
             after == SubSeq(s, e + 1, Len(s))
         IN  /\ HasBlock(block) /\ BlockEnd(block) = e /\ Len(block) = e /\ FirstHead(block) = h
             /\ h \in Seq(Byte) /\ block \in Seq(Byte) /\ after \in Seq(Byte) /\ s = block \o after
<1> DEFINE e == BlockEnd(s)
           h == SubSeq(s, 1, e - 2)
           b == SubSeq(s, 1, e)
           after == SubSeq(s, e + 1, Len(s))
<1>1. Len(s) \in Nat /\ e \in 2..Len(s) /\ e \in 0..Len(s) /\ e - 2 \in 0..Len(s)
  BY BlockEndIsEnd, LenProperties
<1>2. Encoding(h, <<>>) = b
  BY BlockIsPrefix
<1>3. /\ b \in Seq(Byte) /\ Len(b) = e /\ \A i \in 1..e : b[i] = s[i]
      /\ after \in Seq(Byte) /\ s = b \o after /\ h \in Seq(Byte)
  <2> HIDE DEF e
  <2>1. \A i \in 1..e : b[i] = s[i]
    BY <1>1, SubSeqProperties
  <2> QED BY <1>1, <2>1, SplitSequence
<1> HIDE DEF b, after
<1>4. HasBlock(b) /\ BlockEnd(b) = e
  <2> HIDE DEF h, e
  <2>1. Len(b) <= Len(s) /\ (\A i \in 1..Len(b) : b[i] = s[i]) /\ BlockEnd(s) <= Len(b)
    BY <1>1, <1>3 DEF e
  <2> QED BY <1>3, <2>1, BlockEndOfPrefix DEF e
<1>5. FirstHead(b) = h
  <2>1. FirstHead(s) = FirstHead(b)
    BY <1>3, <1>4, BlockStays
  <2> QED BY <2>1 DEF FirstHead
<1> HIDE DEF e, h
<1> QED BY <1>2, <1>3, <1>4, <1>5 DEF e, h, after

(* While a body is awaited, its block has been found acceptable.            *)
Block == Encoding(head, <<>>)

BodyAwaited ==
  pc = "body" =>
    /\ HasBlock(Block) /\ BlockEnd(Block) = Len(Block) /\ FirstHead(Block) = head
    /\ Acceptable(Len(Block), head) /\ need = BodyLength(head)

LEMMA BodyAwaitedHolds == Spec => []BodyAwaited
<1>1. Init => BodyAwaited
  BY DEF Init, BodyAwaited
<1>2. TypeOK /\ BodyAwaited /\ [Next]_vars => BodyAwaited'
  <2> SUFFICES ASSUME TypeOK, BodyAwaited, [Next]_vars PROVE BodyAwaited'
    OBVIOUS
  <2>1. ASSUME UNCHANGED <<pc, head, need>> PROVE BodyAwaited'
    BY <2>1 DEF BodyAwaited, Block
  <2>2. ASSUME pc' # "body" PROVE BodyAwaited'
    BY <2>2 DEF BodyAwaited
  <2>3. CASE TakeHeader
    <3> DEFINE e == BlockEnd(buffer)
               h == SubSeq(buffer, 1, e - 2)
    <3>1. CASE Acceptable(e, h) /\ head' = h /\ need' = BodyLength(h)
      <4>1. buffer \in Seq(Byte) /\ HasBlock(buffer)
        BY <2>3 DEF TakeHeader, TypeOK
      <4>2. /\ HasBlock(Encoding(h, <<>>)) /\ BlockEnd(Encoding(h, <<>>)) = e
            /\ Len(Encoding(h, <<>>)) = e /\ FirstHead(Encoding(h, <<>>)) = h
        BY <4>1, BlockOfBuffer
      <4> HIDE DEF h, e
      <4> QED BY <3>1, <4>2 DEF BodyAwaited, Block
    <3>2. CASE pc' # "body"
      BY <2>2, <3>2
    <3> QED BY <2>3, <3>1, <3>2 DEF TakeHeader, Refuse, Yield, Return
  <2>4. ASSUME NEW s \in Streams, Connect(s) PROVE BodyAwaited'
    BY <2>1, <2>4 DEF Connect, read
  <2>5. ASSUME NEW d \in 1..Timeout, ReadFrame(d) PROVE BodyAwaited'
    BY <2>2, <2>5 DEF ReadFrame
  <2>6. CASE ReadClosed \/ HeaderTooLong \/ TakeBody \/ Expire \/ Lose
    BY <2>2, <2>6 DEF ReadClosed, HeaderTooLong, Refuse, TakeBody, Yield, Expire, Lose, Return
  <2>7. ASSUME NEW k \in 1..RecvMax, Recv(k) PROVE BodyAwaited'
    BY <2>1, <2>7 DEF Recv, read
  <2>8. CASE Close \/ Tick \/ UNCHANGED vars
    BY <2>1, <2>8 DEF Close, Tick, read, vars
  <2> QED BY <2>3, <2>4, <2>5, <2>6, <2>7, <2>8 DEF Next, Step
<1> QED BY <1>1, <1>2, TypeCorrect, PTL DEF Spec

LEMMA InnerOfConcat ==
  ASSUME NEW s \in Seq(Byte), NEW t \in Seq(Byte), NEW n \in 0..Len(t)
  PROVE  SubSeq(s \o t, Len(s) + 1, Len(s) + n) = SubSeq(t, 1, n)
<1>1. Len(s) \in Nat /\ Len(t) \in Nat
  BY LenProperties
<1>2. CASE n = 0
  <2>1. Len(s) + n < Len(s) + 1 /\ n < 1
    BY <1>1, <1>2
  <2> QED BY <1>1, <2>1, SubSeqEmpty
<1>3. CASE n # 0
  <2>1. /\ Len(s) + 1 \in Len(s) + 1 .. Len(s) + Len(t) /\ Len(s) + n \in Len(s) + 1 .. Len(s) + Len(t)
        /\ (Len(s) + 1) - Len(s) = 1 /\ (Len(s) + n) - Len(s) = n
    BY <1>1, <1>3
  <2> QED BY <2>1, SubSeqOfConcat2
<1> QED BY <1>2, <1>3

LEMMA HeadOfOne ==
  ASSUME NEW f \in Frame, NEW later \in Seq(Frame)
  PROVE  LET s == <<f>> \o later IN s # <<>> /\ Head(s) = f /\ Tail(s) = later
<1> DEFINE s == <<f>> \o later
<1>1. <<f>> \in Seq(Frame) /\ Len(<<f>>) = 1 /\ <<f>>[1] = f /\ Len(later) \in Nat
  BY LenProperties
<1>2. /\ s \in Seq(Frame) /\ Len(s) = 1 + Len(later) /\ s[1] = f
      /\ \A i \in 1..Len(later) : s[i + 1] = later[i]
  <2>1. s \in Seq(Frame) /\ Len(s) = 1 + Len(later) /\ s[1] = f
        /\ \A i \in 1 + 1 .. 1 + Len(later) : s[i] = later[i - 1]
    BY <1>1, ConcatProperties
  <2>2. ASSUME NEW i \in 1..Len(later) PROVE s[i + 1] = later[i]
    <3>1. i + 1 \in 1 + 1 .. 1 + Len(later) /\ (i + 1) - 1 = i
      BY <1>1
    <3> QED BY <2>1, <3>1
  <2> QED BY <2>1, <2>2
<1> HIDE DEF s
<1>3. s # <<>>
  BY <1>1, <1>2
<1>4. Tail(s) \in Seq(Frame) /\ Len(Tail(s)) = Len(later) /\ \A i \in 1..Len(later) : Tail(s)[i] = later[i]
  BY <1>1, <1>2, <1>3, HeadTailProperties
<1>5. Tail(s) = later
  BY <1>4, SeqEqual
<1>6. Head(s) = s[1]
  BY <1>2, <1>3
<1> QED BY <1>2, <1>3, <1>5, <1>6 DEF s

(* The frame handed over, of header block h and body b, is the first of     *)
(* those the reference decoder still has to give, and it goes on after it.  *)
LEMMA YieldIsDelivery ==
  ASSUME TypeOK, open, NEW h \in Seq(Byte), NEW b \in Seq(Byte), NEW w \in Seq(Byte),
         LET block == Encoding(h, <<>>) IN
           /\ stream = taken \o (block \o (b \o w))
           /\ HasBlock(block) /\ BlockEnd(block) = Len(block) /\ FirstHead(block) = h
           /\ Acceptable(Len(block), h) /\ Len(b) = BodyLength(h),
         Yield(h, b)
  PROVE  Channel!Deliver
<1> DEFINE block == Encoding(h, <<>>)
           after == b \o w
           rest == block \o after
           p == Len(taken) + 1
           e == Len(block)
<1>1. /\ <<LF, LF>> \in Seq(Byte) /\ block \in Seq(Byte) /\ after \in Seq(Byte) /\ rest \in Seq(Byte)
      /\ taken \in Seq(Byte) /\ stream \in Seq(Byte)
  <2>1. <<LF, LF>> \in Seq(Byte) /\ h \o <<LF, LF>> \in Seq(Byte)
    BY AlphabetAssumption, Concatenation
  <2>2. block \in Seq(Byte) /\ after \in Seq(Byte)
    BY <2>1, Concatenation DEF Encoding
  <2> HIDE DEF block, after
  <2> QED BY <2>1, <2>2, Concatenation DEF TypeOK
<1>2. /\ Len(taken) \in Nat /\ Len(block) \in Nat /\ Len(b) \in Nat /\ Len(w) \in Nat
      /\ Len(after) = Len(b) + Len(w) /\ Len(rest) = Len(block) + Len(after)
      /\ Len(stream) = Len(taken) + Len(rest)
  <2> HIDE DEF block
  <2>1. Len(after) = Len(b) + Len(w)
    BY ConcatProperties
  <2> HIDE DEF after
  <2>2. Len(rest) = Len(block) + Len(after)
    BY <1>1, ConcatProperties
  <2>3. Len(stream) = Len(taken) + Len(rest)
    <3> HIDE DEF rest
    <3> QED BY <1>1, ConcatProperties DEF rest, block, after
  <2> QED BY <1>1, <2>1, <2>2, <2>3, LenProperties
<1>3. Rest(stream, p) = rest
  <2> HIDE DEF rest
  <2> QED BY <1>1, RestOfConcat DEF Rest, rest
<1>4. HasBlock(rest) /\ BlockEnd(rest) = e /\ FirstHead(rest) = h
  <2> HIDE DEF block, after
  <2> QED BY <1>1, BlockStays DEF block
<1>5. ~Refusable(rest)
  <2> HIDE DEF rest, block
  <2> QED BY <1>1, <1>4, AcceptableOrRefusable DEF block
<1>6. FrameSize(rest) = e + Len(b)
  <2> HIDE DEF rest, block
  <2> QED BY <1>4 DEF FrameSize
<1>7. StartsWithFrame(rest)
  <2> HIDE DEF rest, block, after
  <2> QED BY <1>2, <1>4, <1>5, <1>6, SMTT(20) DEF StartsWithFrame
<1>8. SubSeq(rest, e + 1, e + Len(b)) = b
  <2>1. SubSeq(after, 1, Len(b)) = b
    <3>1. Len(b) \in 0..Len(b)
      BY <1>2
    <3> QED BY <3>1, PrefixOfConcat, SubSeqFull
  <2>2. SubSeq(rest, e + 1, e + Len(b)) = SubSeq(after, 1, Len(b))
    <3>1. Len(b) \in 0..Len(after)
      BY <1>2
    <3> HIDE DEF block, after
    <3> QED BY <1>1, <3>1, InnerOfConcat, ZenonT(30)
  <2> QED BY <2>1, <2>2
<1>9. FirstFrame(rest) = [head |-> h, body |-> b]
  <2> HIDE DEF rest, block
  <2> QED BY <1>4, <1>6, <1>8 DEF FirstFrame
<1> DEFINE next == p + (e + Len(b))
<1>10. Todo = <<[head |-> h, body |-> b]>> \o Decode(stream)[next]
  <2>1. p \in 1..Len(stream) + 1
    BY <1>2
  <2>2. Todo = Decoding(stream, Decode(stream), p)
    BY <1>1, <2>1, DecodeEquation DEF Todo
  <2> HIDE DEF rest, block, p, e
  <2> QED BY <1>3, <1>6, <1>7, <1>9, <2>2 DEF Decoding
<1>11. next \in 1..Len(stream) + 1
  BY <1>2, SMTT(20)
<1>12. /\ taken' = taken \o (block \o b) /\ Len(taken') + 1 = next
       /\ stream' = stream /\ open' = open /\ frames' = Append(frames, [head |-> h, body |-> b])
  <2>1. Encoding(h, b) = block \o b
    <3>1. h \o <<LF, LF>> \in Seq(Byte)
      BY <1>1, Concatenation
    <3>2. block = h \o <<LF, LF>>
      BY <3>1, Concatenation DEF Encoding
    <3> HIDE DEF block
    <3> QED BY <3>2 DEF Encoding
  <2>2. Len(taken \o (block \o b)) = Len(taken) + (Len(block) + Len(b))
    <3> HIDE DEF block
    <3>1. block \o b \in Seq(Byte) /\ Len(block \o b) = Len(block) + Len(b)
      BY <1>1, ConcatProperties
    <3> QED BY <1>1, <3>1, ConcatProperties
  <2> HIDE DEF block
  <2>3. /\ taken' = taken \o (block \o b) /\ stream' = stream /\ open' = open
        /\ frames' = Append(frames, [head |-> h, body |-> b])
    BY <2>1 DEF Yield, conn
  <2>4. Len(taken') = Len(taken) + (Len(block) + Len(b))
    BY <2>2, <2>3
  <2>5. Len(taken') + 1 = next
    BY <1>2, <2>4, SMTT(20)
  <2> QED BY <2>3, <2>5
<1> HIDE DEF next
<1>13. Todo' = Decode(stream)[next]
  BY <1>12 DEF Todo
<1>14. Decode(stream)[next] \in Seq(Frame)
  BY <1>1, <1>11, DecodeType
<1> DEFINE f == [head |-> h, body |-> b]
           later == Decode(stream)[next]
<1>15. f \in Frame
  BY DEF Frame
<1> HIDE DEF f, later
<1>16. <<f>> \o later # <<>> /\ Head(<<f>> \o later) = f /\ Tail(<<f>> \o later) = later
  <2>1. <<f>> \in Seq(Frame) /\ later \in Seq(Frame)
    BY <1>14, <1>15 DEF later
  <2> QED BY <2>1, HeadOfOne
<1>17. Todo # <<>> /\ Head(Todo) = f /\ Tail(Todo) = Todo'
  BY <1>10, <1>13, <1>16 DEF f, later
<1> QED BY <1>12, <1>17 DEF Channel!Deliver, f

(* Fragmentation is invisible: whatever pieces recv returns, the frames a   *)
(* caller of _read_frame is given on a connection are the first ones of the *)
(* whole stream, in order, none skipped, repeated or cut; what was not      *)
(* given when the connection ends is lost with it (esl.py:693-825).         *)
THEOREM ChannelImplemented == Spec => ImplementsChannel
<1>1. Init => Channel!Init
  BY DEF Init, Channel!Init, Todo
<1>2. /\ TypeOK /\ TypeOK' /\ StreamAccounted /\ StreamAccounted' /\ BodyAwaited /\ [Next]_vars
      => [Channel!Next]_Channel!vars
  <2> SUFFICES ASSUME TypeOK, TypeOK', StreamAccounted, StreamAccounted', BodyAwaited, [Next]_vars
               PROVE  [Channel!Next]_Channel!vars
    OBVIOUS
  <2>1. ASSUME UNCHANGED <<open, stream, taken, frames>> PROVE UNCHANGED Channel!vars
    BY <2>1 DEF Channel!vars, Todo
  <2>2. ASSUME open, Shut, UNCHANGED log PROVE Channel!Next
    BY <2>2 DEF Shut, log, Todo, Channel!Drop, Channel!Next
  <2>3. ASSUME NEW s \in Streams, Connect(s) PROVE Channel!Next
    BY <2>3 DEF Connect, Channel!Open, Channel!Next
  <2>4. CASE TakeHeader
    <3> DEFINE e == BlockEnd(buffer)
               h == SubSeq(buffer, 1, e - 2)
    <3>0. pc = "header" /\ open /\ HasBlock(buffer) /\ buffer \in Seq(Byte) /\ wire \in Seq(Byte)
      BY <2>4 DEF TakeHeader, TypeOK
    <3>1. CASE Refuse
      BY <2>2, <3>0, <3>1 DEF Refuse
    <3>2. CASE UNCHANGED <<conn, log>>
      BY <2>1, <3>2 DEF conn, log
    <3>3. CASE /\ Acceptable(e, h) /\ BodyLength(h) = 0 /\ Yield(h, <<>>)
               /\ buffer' = SubSeq(buffer, e + 1, Len(buffer))
      <4>1. /\ HasBlock(Encoding(h, <<>>)) /\ BlockEnd(Encoding(h, <<>>)) = e
            /\ Len(Encoding(h, <<>>)) = e /\ FirstHead(Encoding(h, <<>>)) = h
            /\ h \in Seq(Byte) /\ buffer' \in Seq(Byte) /\ Encoding(h, <<>>) \in Seq(Byte)
            /\ buffer = Encoding(h, <<>>) \o buffer'
        <5> HIDE DEF e, h
        <5> QED BY <3>0, <3>3, BlockOfBuffer DEF e, h
      <4>2. stream = taken \o (Encoding(h, <<>>) \o (<<>> \o (buffer' \o wire)))
        <5>1. taken \in Seq(Byte) /\ stream = taken \o <<>> \o buffer \o wire
          BY <3>0 DEF StreamAccounted, Partial, TypeOK
        <5> HIDE DEF e, h
        <5>2. stream = taken \o (buffer \o wire)
          BY <3>0, <5>1, Concatenation
        <5>3. buffer \o wire = Encoding(h, <<>>) \o (buffer' \o wire)
          BY <3>0, <4>1, Concatenation, SMTT(20)
        <5>4. <<>> \o (buffer' \o wire) = buffer' \o wire
          BY <3>0, <4>1, Concatenation
        <5> QED BY <5>2, <5>3, <5>4
      <4>3. <<>> \in Seq(Byte) /\ buffer' \o wire \in Seq(Byte) /\ Len(<<>>) = 0
        BY <3>0, <4>1, Concatenation
      <4> HIDE DEF e, h
      <4>4. Channel!Deliver
        BY <3>0, <3>3, <4>1, <4>2, <4>3, YieldIsDelivery
      <4> QED BY <4>4 DEF Channel!Next
    <3> HIDE DEF e, h
    <3> QED BY <2>4, <3>1, <3>2, <3>3 DEF TakeHeader, e, h
  <2>5. CASE TakeBody
    <3> DEFINE b == SubSeq(buffer, 1, need)
               left_ == SubSeq(buffer, need + 1, Len(buffer))
    <3>1. /\ pc = "body" /\ open /\ buffer \in Seq(Byte) /\ wire \in Seq(Byte) /\ need \in 0..Len(buffer)
          /\ head \in Seq(Byte) /\ Yield(head, b) /\ taken \in Seq(Byte)
      BY <2>5, LenProperties DEF TakeBody, TypeOK
    <3>2. b \in Seq(Byte) /\ left_ \in Seq(Byte) /\ Len(b) = need /\ buffer = b \o left_
      BY <3>1, SplitSequence
    <3> HIDE DEF b, left_
    <3>3. Block \in Seq(Byte)
      <4>1. <<LF, LF>> \in Seq(Byte)
        BY AlphabetAssumption
      <4>2. head \o <<LF, LF>> \in Seq(Byte)
        BY <3>1, <4>1, Concatenation
      <4> QED BY <4>2, Concatenation DEF Block, Encoding
    <3>4. stream = taken \o (Block \o (b \o (left_ \o wire)))
      <4>1. stream = taken \o Block \o buffer \o wire
        BY <3>1 DEF StreamAccounted, Partial, Block
      <4>2. taken \o Block \o buffer \o wire = taken \o (Block \o (buffer \o wire))
        <5> DEFINE T == taken \o Block
                   R == buffer \o wire
        <5>1. T \o buffer \o wire = T \o R
          <6>1. T \in Seq(Byte) /\ buffer \in Seq(Byte) /\ wire \in Seq(Byte)
            BY <3>1, <3>3, Concatenation
          <6> HIDE DEF T
          <6> QED BY <6>1, Concatenation
        <5>2. T \o R = taken \o (Block \o R)
          <6>1. R \in Seq(Byte) /\ taken \in Seq(Byte) /\ Block \in Seq(Byte)
            BY <3>1, <3>3, Concatenation
          <6> HIDE DEF R
          <6> QED BY <6>1, Concatenation
        <5> QED BY <5>1, <5>2, Zenon
      <4>3. buffer \o wire = b \o (left_ \o wire)
        <5>1. (b \o left_) \o wire = b \o (left_ \o wire)
          <6>1. b \in Seq(Byte) /\ left_ \in Seq(Byte) /\ wire \in Seq(Byte)
            BY <3>1, <3>2
          <6> QED BY <6>1, ConcatAssociative
        <5> QED BY <3>2, <5>1
      <4> QED BY <4>1, <4>2, <4>3
    <3>5. left_ \o wire \in Seq(Byte)
      BY <3>1, <3>2, Concatenation
    <3>6. Channel!Deliver
      BY <3>1, <3>2, <3>4, <3>5, YieldIsDelivery DEF BodyAwaited, Block
    <3> QED BY <3>6 DEF Channel!Next
  <2>6. CASE HeaderTooLong
    BY <2>2, <2>6 DEF HeaderTooLong, Refuse, TypeOK
  <2>7. CASE Expire
    <3>1. open
      BY <2>7 DEF Expire, InRecv, TypeOK
    <3>2. CASE pc = "body" \/ buffer # <<>>
      BY <2>2, <2>7, <3>1, <3>2 DEF Expire
    <3>3. CASE ~(pc = "body" \/ buffer # <<>>)
      BY <2>1, <2>7, <3>3 DEF Expire, conn, log
    <3> QED BY <3>2, <3>3
  <2>8. CASE Close \/ Lose
    BY <2>2, <2>8 DEF Close, Lose, InRecv, TypeOK
  <2>9. ASSUME NEW d \in 1..Timeout, ReadFrame(d) PROVE UNCHANGED Channel!vars
    BY <2>1, <2>9 DEF ReadFrame, conn, log
  <2>10. CASE ReadClosed
    BY <2>1, <2>10 DEF ReadClosed, conn, log
  <2>11. ASSUME NEW k \in 1..RecvMax, Recv(k) PROVE UNCHANGED Channel!vars
    BY <2>1, <2>11 DEF Recv, log
  <2>12. CASE Tick \/ UNCHANGED vars
    BY <2>1, <2>12 DEF Tick, conn, log, vars
  <2> QED BY <2>3, <2>4, <2>5, <2>6, <2>7, <2>8, <2>9, <2>10, <2>11, <2>12 DEF Next, Step
<1> QED BY <1>1, <1>2, TypeCorrect, NoByteLost, BodyAwaitedHolds, PTL
        DEF Spec, ImplementsChannel, Channel!Spec

-----------------------------------------------------------------------------
(* EventBody: decoding a body and unwrapping the event in it. *)

(* The number of characters begun grows by one where a character starts. *)
LEMMA RankSteps ==
  ASSUME NEW s \in Seq(Byte)
  PROVE  /\ IsFiniteSet(Starts(s))
         /\ Rank(s, 0) = 0 /\ Rank(s, Len(s)) = Cardinality(Starts(s))
         /\ \A i \in 0..Len(s) : Rank(s, i) \in Nat
         /\ \A i \in 0..(Len(s) - 1) :
              Rank(s, i + 1) = IF i + 1 \in Starts(s) THEN Rank(s, i) + 1 ELSE Rank(s, i)
<1> DEFINE n == Len(s)
           upto(i) == {j \in Starts(s) : j <= i}
<1>1. n \in Nat
  BY LenProperties
<1>2. Starts(s) \subseteq 1..n
  BY DEF Starts
<1>3. IsFiniteSet(Starts(s))
  <2>1. IsFiniteSet(1..n)
    BY <1>1, FS_Interval
  <2> QED BY <1>2, <2>1, FS_Subset
<1> HIDE DEF n
<1>4. \A i \in 0..n : IsFiniteSet(upto(i)) /\ Cardinality(upto(i)) \in Nat
  <2> TAKE i \in 0..n
  <2>1. IsFiniteSet(upto(i))
    <3>1. upto(i) \subseteq Starts(s)
      OBVIOUS
    <3> HIDE DEF upto
    <3> QED BY <1>3, <3>1, FS_Subset
  <2> QED BY <2>1, FS_CardinalityType
<1>5. Cardinality(upto(0)) = 0
  <2>1. upto(0) = {}
    BY <1>1, <1>2
  <2> QED BY <2>1, FS_EmptySet
<1>6. upto(n) = Starts(s)
  BY <1>1, <1>2
<1>7. ASSUME NEW i \in 0..(n - 1)
      PROVE  Cardinality(upto(i + 1)) =
               IF i + 1 \in Starts(s) THEN Cardinality(upto(i)) + 1 ELSE Cardinality(upto(i))
  <2>1. i \in 0..n /\ i \in Int
    BY <1>1
  <2>2. CASE i + 1 \in Starts(s)
    <3>1. upto(i + 1) = upto(i) \cup {i + 1} /\ i + 1 \notin upto(i)
      BY <1>1, <1>2, <2>1, <2>2
    <3>2. IsFiniteSet(upto(i))
      BY <1>4, <2>1
    <3> HIDE DEF upto
    <3>3. Cardinality(upto(i) \cup {i + 1}) = Cardinality(upto(i)) + 1
      BY <3>1, <3>2, FS_AddElement
    <3> QED BY <2>2, <3>1, <3>3
  <2>3. CASE i + 1 \notin Starts(s)
    <3>1. upto(i + 1) = upto(i)
      BY <1>1, <1>2, <2>1, <2>3
    <3> HIDE DEF upto
    <3> QED BY <2>3, <3>1
  <2> QED BY <2>2, <2>3
<1> QED BY <1>3, <1>4, <1>5, <1>6, <1>7 DEF Rank, n

(* So it never falls. *)
LEMMA RankGrows ==
  ASSUME NEW s \in Seq(Byte), NEW i \in 0..Len(s), NEW j \in 0..Len(s), i <= j
  PROVE  Rank(s, i) <= Rank(s, j)
<1> DEFINE Above == {k \in 0..(Len(s) - i) : Rank(s, i) <= Rank(s, i + k)}
<1>1. Len(s) \in Nat /\ i \in Nat /\ Len(s) - i \in Nat
  BY LenProperties
<1>2. \A k \in 0..Len(s) : Rank(s, k) \in Nat
  BY RankSteps
<1>3. 0 \in Above
  BY <1>1, <1>2
<1>4. ASSUME NEW k \in 0..(Len(s) - i - 1), k \in Above PROVE k + 1 \in Above
  <2>1. i + k \in 0..(Len(s) - 1) /\ (i + k) + 1 = i + (k + 1) /\ k + 1 \in 0..(Len(s) - i)
    BY <1>1
  <2>2. Rank(s, (i + k) + 1) \in {Rank(s, i + k), Rank(s, i + k) + 1}
    BY <2>1, RankSteps
  <2>3. Rank(s, i) <= Rank(s, i + k) /\ Rank(s, i + k) \in Nat /\ Rank(s, i) \in Nat
    BY <1>1, <1>2, <1>4, <2>1
  <2> QED BY <2>1, <2>2, <2>3
<1> HIDE DEF Above
<1>5. 0..(Len(s) - i) \subseteq Above
  BY <1>1, <1>3, <1>4, SetInduction
<1>6. j - i \in Above /\ i + (j - i) = j
  BY <1>1, <1>5
<1> QED BY <1>6 DEF Above

(* It grows on the way to the start of a character. *)
LEMMA RankApart ==
  ASSUME NEW s \in Seq(Byte), NEW i \in 0..Len(s), NEW j \in Starts(s), i < j
  PROVE  Rank(s, i) < Rank(s, j)
<1>1. j \in 1..Len(s) /\ Len(s) \in Nat
  BY LenProperties DEF Starts
<1>2. j - 1 \in 0..(Len(s) - 1) /\ j - 1 \in 0..Len(s) /\ (j - 1) + 1 = j /\ i <= j - 1
  BY <1>1
<1>3. Rank(s, j) = Rank(s, j - 1) + 1
  BY <1>2, RankSteps
<1>4. Rank(s, i) <= Rank(s, j - 1)
  BY <1>2, RankGrows
<1>5. Rank(s, i) \in Nat /\ Rank(s, j - 1) \in Nat
  BY <1>2, RankSteps
<1> QED BY <1>3, <1>4, <1>5

(* A character is told by its number. *)
LEMMA RankUnique ==
  ASSUME NEW s \in Seq(Byte), NEW i \in Starts(s), NEW j \in Starts(s), Rank(s, i) = Rank(s, j)
  PROVE  i = j
<1>1. i \in 0..Len(s) /\ j \in 0..Len(s)
  BY LenProperties DEF Starts
<1>2. Rank(s, i) \in Nat /\ Rank(s, j) \in Nat
  BY <1>1, RankSteps
<1>3. ~(i < j) /\ ~(j < i)
  BY <1>1, <1>2, RankApart
<1> QED BY <1>1, <1>3

(* Every number up to the last is that of a character. *)
LEMMA RankOnto ==
  ASSUME NEW s \in Seq(Byte), NEW k \in 1..Rank(s, Len(s))
  PROVE  \E i \in Starts(s) : Rank(s, i) = k
<1> DEFINE Far == {i \in 0..Len(s) : k <= Rank(s, i)}
<1>1. Len(s) \in Nat /\ Rank(s, 0) = 0
      /\ (\A i \in 0..Len(s) : Rank(s, i) \in Nat)
  BY RankSteps, LenProperties
<1>2. Far \subseteq Nat /\ Len(s) \in Far
  BY <1>1
<1>3. PICK i \in Far : \A j \in Far : i <= j
  <2> HIDE DEF Far
  <2> QED BY <1>2, LeastNatural
<1>4. i \in 1..Len(s) /\ i - 1 \in 0..(Len(s) - 1) /\ (i - 1) + 1 = i
  BY <1>1
<1>5. Rank(s, i - 1) < k
  <2>1. i - 1 \notin Far
    BY <1>3, <1>4
  <2>2. i - 1 \in 0..Len(s)
    BY <1>1, <1>4
  <2>3. Rank(s, i - 1) \in Nat
    BY <1>1, <2>2
  <2> QED BY <2>1, <2>2, <2>3
<1>6. Rank(s, i) = IF i \in Starts(s) THEN Rank(s, i - 1) + 1 ELSE Rank(s, i - 1)
  BY <1>4, RankSteps
<1>7. k <= Rank(s, i) /\ Rank(s, i - 1) \in Nat /\ k \in Nat
  BY <1>1, <1>4
<1>8. i \in Starts(s) /\ Rank(s, i) = k
  BY <1>5, <1>6, <1>7
<1> QED BY <1>8

(* What the text has for the characters of s. *)
LEMMA TextAt ==
  ASSUME NEW s \in Seq(Byte)
  PROVE  /\ Text(s) \in Seq(Byte \cup {Pair, Replacement})
         /\ Len(Text(s)) = Rank(s, Len(s))
         /\ \A i \in Starts(s) :
              Rank(s, i) \in 1..Len(Text(s)) /\ Text(s)[Rank(s, i)] = Char(s, i)
         /\ \A k \in 1..Len(Text(s)) : \E i \in Starts(s) : Rank(s, i) = k
<1> DEFINE m == Rank(s, Len(s))
           at(k) == CHOOSE i \in Starts(s) : Rank(s, i) = k
<1>1. m \in Nat /\ m = Cardinality(Starts(s)) /\ Len(s) \in Nat
  <2>1. Len(s) \in Nat /\ Len(s) \in 0..Len(s)
    BY LenProperties
  <2> QED BY <2>1, RankSteps
<1>2. Text(s) = [k \in 1..m |-> Char(s, at(k))]
  BY <1>1 DEF Text
<1>3. ASSUME NEW k \in 1..m PROVE at(k) \in Starts(s) /\ Rank(s, at(k)) = k
  BY RankOnto
<1>4. ASSUME NEW i \in Starts(s) PROVE Char(s, i) \in Byte \cup {Pair, Replacement}
  <2>1. i \in 1..Len(s)
    BY DEF Starts
  <2>2. s[i] \in Byte
    BY <2>1
  <2> QED BY <2>2 DEF Char
<1>5. ASSUME NEW i \in Starts(s) PROVE Rank(s, i) \in 1..m
  <2>1. i \in 1..Len(s) /\ i \in 0..Len(s) /\ Len(s) \in 0..Len(s) /\ 0 \in 0..Len(s) /\ 0 < i
    BY <1>1 DEF Starts
  <2>2. Rank(s, 0) < Rank(s, i) /\ Rank(s, i) <= m
    BY <2>1, RankApart, RankGrows
  <2>3. Rank(s, 0) = 0 /\ Rank(s, i) \in Nat
    BY <2>1, RankSteps
  <2> QED BY <1>1, <2>2, <2>3
<1> HIDE DEF m
<1>6. ASSUME NEW i \in Starts(s) PROVE at(Rank(s, i)) = i
  <2>1. at(Rank(s, i)) \in Starts(s) /\ Rank(s, at(Rank(s, i))) = Rank(s, i)
    BY <1>3, <1>5
  <2> HIDE DEF at
  <2> QED BY <2>1, RankUnique
<1> HIDE DEF at
<1>7. Text(s) \in [1..m -> Byte \cup {Pair, Replacement}]
  BY <1>2, <1>3, <1>4
<1>8. Text(s) \in Seq(Byte \cup {Pair, Replacement}) /\ Len(Text(s)) = m
  BY <1>1, <1>7, SeqDef, LenProperties
<1> QED BY <1>2, <1>3, <1>5, <1>6, <1>8 DEF m

(* A byte that is a character of its own, and no half of one.               *)
Plain(s, i) == i \in 1..Len(s) /\ s[i] \notin {Lead, Trail}

(* It stands in the text as it is, followed by what it is followed by.      *)
LEMMA PlainStays ==
  ASSUME NEW s \in Seq(Byte), NEW i, Plain(s, i)
  PROVE  /\ i \in Starts(s)
         /\ Text(s)[Rank(s, i)] = s[i]
         /\ i < Len(s) => i + 1 \in Starts(s) /\ Rank(s, i + 1) = Rank(s, i) + 1
<1>1. Len(s) \in Nat /\ i \in 1..Len(s) /\ s[i] # Lead /\ s[i] # Trail
  BY LenProperties DEF Plain
<1>2. ~Halves(s, i - 1) /\ ~Halves(s, i)
  <2>1. (i - 1) + 1 = i
    BY <1>1
  <2> QED BY <1>1, <2>1 DEF Halves
<1>3. i \in Starts(s)
  BY <1>1, <1>2 DEF Starts
<1>4. Text(s)[Rank(s, i)] = s[i]
  BY <1>1, <1>2, <1>3, TextAt DEF Char
<1>5. ASSUME i < Len(s) PROVE i + 1 \in Starts(s) /\ Rank(s, i + 1) = Rank(s, i) + 1
  <2>1. i + 1 \in 1..Len(s) /\ (i + 1) - 1 = i /\ i \in 0..(Len(s) - 1)
    BY <1>1, <1>5
  <2>2. i + 1 \in Starts(s)
    BY <1>2, <2>1 DEF Starts
  <2> QED BY <2>1, <2>2, RankSteps
<1> QED BY <1>3, <1>4, <1>5

(* And what stands in the text as such a byte is one. *)
LEMMA PlainWas ==
  ASSUME NEW s \in Seq(Byte), NEW k \in 1..Len(Text(s)),
         Text(s)[k] \in Byte \ {Lead, Trail}
  PROVE  \E i : Plain(s, i) /\ Rank(s, i) = k /\ s[i] = Text(s)[k]
<1>1. PICK i \in Starts(s) : Rank(s, i) = k
  BY TextAt
<1>2. Text(s)[k] = Char(s, i)
  BY <1>1, TextAt
<1>3. i \in 1..Len(s)
  BY DEF Starts
<1>4. Char(s, i) = s[i] /\ s[i] \notin {Lead, Trail}
  BY <1>2, CharacterAssumption DEF Char
<1> QED BY <1>1, <1>2, <1>3, <1>4 DEF Plain

(* The first byte starts the first character. *)
LEMMA FirstRank ==
  ASSUME NEW s \in Seq(Byte), Len(s) > 0
  PROVE  1 \in Starts(s) /\ Rank(s, 1) = 1
<1>1. Len(s) \in Nat /\ 1 \in 1..Len(s) /\ 0 \in 0..(Len(s) - 1) /\ 1 - 1 = 0 /\ 0 + 1 = 1
  BY LenProperties
<1>2. ~Halves(s, 0)
  BY DEF Halves
<1>3. 1 \in Starts(s)
  BY <1>1, <1>2 DEF Starts
<1> QED BY <1>1, <1>3, RankSteps

(* The neighbour of a plain byte: two neighbours in the text, the first of  *)
(* them plain, were neighbours in the bytes.                                *)
LEMMA Neighbours ==
  ASSUME NEW s \in Seq(Byte), NEW i, Plain(s, i), NEW j \in Starts(s),
         Rank(s, j) = Rank(s, i) + 1
  PROVE  j = i + 1 /\ i < Len(s)
<1>1. Len(s) \in Nat /\ i \in 1..Len(s) /\ j \in 1..Len(s)
  BY LenProperties DEF Plain, Starts
<1>2. i \in 0..Len(s) /\ j \in 0..Len(s)
  BY <1>1
<1>3. Rank(s, i) \in Nat /\ Rank(s, j) \in Nat
  BY <1>2, RankSteps
<1>4. ~(j <= i)
  BY <1>2, <1>3, RankGrows
<1>5. i < Len(s)
  BY <1>1, <1>4
<1>6. i + 1 \in Starts(s) /\ Rank(s, i + 1) = Rank(s, i) + 1
  BY <1>5, PlainStays
<1>7. i + 1 = j
  BY <1>6, RankUnique
<1> QED BY <1>5, <1>7

(* The line feeds are plain, and so are the length lines. *)
LEMMA LinesArePlain ==
  /\ LF \in Byte \ {Lead, Trail}
  /\ DOMAIN Value \subseteq Byte \ {Lead, Trail}
BY CharacterAssumption, AlphabetAssumption

(* The header block of the text ends where that of the bytes does. *)
LEMMA TextBlock ==
  ASSUME NEW s \in Seq(Byte), HasBlock(s)
  PROVE  /\ HasBlock(Text(s)) /\ BlockEnd(Text(s)) = Rank(s, BlockEnd(s))
         /\ Rank(s, BlockEnd(s)) - 2 = Rank(s, BlockEnd(s) - 2)
         /\ Rank(s, BlockEnd(s)) <= Len(Text(s)) /\ Rank(s, BlockEnd(s)) >= 2
<1> DEFINE e == BlockEnd(s)
           t == Text(s)
<1>1. e \in 2..Len(s) /\ s[e] = LF /\ s[e - 1] = LF /\ Len(s) \in Nat
  BY BlockEndIsEnd, LenProperties
<1>l. \A f \in BlockEnds(s) : e <= f
  <2>1. BlockEnds(s) \subseteq Nat /\ BlockEnds(s) # {}
    BY DEF BlockEnds, HasBlock
  <2>2. \E x \in BlockEnds(s) : \A f \in BlockEnds(s) : x <= f
    BY <2>1, LeastNatural
  <2> QED BY <2>2 DEF BlockEnd
<1> HIDE DEF e
<1>2. Plain(s, e) /\ Plain(s, e - 1)
  BY <1>1, LinesArePlain DEF Plain
<1>3. Rank(s, e) = Rank(s, e - 1) + 1 /\ e \in Starts(s) /\ e - 1 \in Starts(s)
      /\ t[Rank(s, e)] = LF /\ t[Rank(s, e - 1)] = LF
  <2>1. (e - 1) + 1 = e /\ e - 1 < Len(s)
    BY <1>1
  <2>2. e \in Starts(s) /\ t[Rank(s, e)] = s[e]
    BY <1>2, PlainStays
  <2>3. e - 1 \in Starts(s) /\ t[Rank(s, e - 1)] = s[e - 1]
        /\ (e - 1 < Len(s) => Rank(s, (e - 1) + 1) = Rank(s, e - 1) + 1)
    BY <1>2, PlainStays
  <2> HIDE DEF t
  <2> QED BY <1>1, <2>1, <2>2, <2>3
<1>4. Rank(s, e - 1) \in 1..Len(t) /\ Rank(s, e) \in 1..Len(t)
  BY <1>3, TextAt
<1>5. Rank(s, e - 2) + 1 = Rank(s, e - 1)
  <2>1. e - 2 \in 0..(Len(s) - 1) /\ (e - 2) + 1 = e - 1
    BY <1>1
  <2> QED BY <1>3, <2>1, RankSteps
<1>6. Rank(s, e - 2) \in Nat
  <2>1. e - 2 \in 0..Len(s)
    BY <1>1
  <2> QED BY <2>1, RankSteps
<1>n. Len(t) \in Nat
  BY TextAt, LenProperties
<1>7. Rank(s, e) \in BlockEnds(t)
  <2> HIDE DEF t
  <2>1. Rank(s, e) \in 2..Len(t) /\ Rank(s, e) - 1 = Rank(s, e - 1)
    BY <1>3, <1>4, <1>n
  <2> QED BY <1>3, <2>1 DEF BlockEnds
<1>8. ASSUME NEW f \in BlockEnds(t) PROVE Rank(s, e) <= f
  <2>1. f \in 2..Len(t) /\ t[f] = LF /\ t[f - 1] = LF
    BY DEF BlockEnds
  <2>2. f \in 1..Len(t) /\ f - 1 \in 1..Len(t) /\ f = (f - 1) + 1
    BY <1>n, <2>1
  <2>3. PICK j : Plain(s, j) /\ Rank(s, j) = f /\ s[j] = LF
    BY <2>1, <2>2, PlainWas, LinesArePlain
  <2>4. PICK i : Plain(s, i) /\ Rank(s, i) = f - 1 /\ s[i] = LF
    BY <2>1, <2>2, PlainWas, LinesArePlain
  <2>5. j \in Starts(s)
    BY <2>3, PlainStays
  <2>6. Rank(s, j) = Rank(s, i) + 1
    BY <2>2, <2>3, <2>4
  <2>7. j = i + 1
    BY <2>4, <2>5, <2>6, Neighbours
  <2>8. j \in BlockEnds(s)
    <3>1. i \in 1..Len(s) /\ j \in 1..Len(s)
      BY <2>3, <2>4 DEF Plain
    <3>2. j \in 2..Len(s) /\ j - 1 = i
      BY <1>1, <2>7, <3>1
    <3> QED BY <2>3, <2>4, <3>2 DEF BlockEnds
  <2>9. e <= j
    BY <1>l, <2>8
  <2>10. e \in 0..Len(s) /\ j \in 0..Len(s)
    BY <1>1, <2>3 DEF Plain
  <2>11. Rank(s, e) <= Rank(s, j)
    BY <2>9, <2>10, RankGrows
  <2> QED BY <2>3, <2>11
<1>9. HasBlock(t) /\ BlockEnd(t) = Rank(s, e)
  <2>1. \A x \in BlockEnds(t) : (\A f \in BlockEnds(t) : x <= f) => x = Rank(s, e)
    <3>1. \A x \in BlockEnds(t) : x \in Nat
      BY <1>n DEF BlockEnds
    <3> QED BY <1>7, <1>8, <3>1
  <2> QED BY <1>7, <1>8, <2>1 DEF HasBlock, BlockEnd
<1>10. Rank(s, e) - 2 = Rank(s, e - 2) /\ Rank(s, e) <= Len(t) /\ Rank(s, e) >= 2
  <2> HIDE DEF t
  <2> QED BY <1>3, <1>4, <1>5, <1>6, <1>n
<1> QED BY <1>9, <1>10 DEF e, t

(* The length lines of the text are those of the bytes, so the length the   *)
(* text declares is the one the bytes do.                                   *)
LEMMA TextLength ==
  ASSUME NEW s \in Seq(Byte)
  PROVE  /\ BodyLength(Text(s)) = BodyLength(s)
         /\ LengthIsNumber(s) => LengthIsNumber(Text(s))
<1> DEFINE t == Text(s)
<1>n. Len(s) \in Nat /\ Len(t) \in Nat
  BY TextAt, LenProperties
<1>1. ASSUME NEW i \in LengthLines(s)
      PROVE  Plain(s, i) /\ Rank(s, i) \in LengthLines(t) /\ t[Rank(s, i)] = s[i]
  <2>1. i \in 1..Len(s) /\ s[i] \in DOMAIN Value /\ (i = 1 \/ s[i - 1] = LF)
    BY DEF LengthLines
  <2>2. Plain(s, i)
    BY <2>1, LinesArePlain DEF Plain
  <2>3. i \in Starts(s) /\ t[Rank(s, i)] = s[i]
    BY <2>2, PlainStays
  <2>4. Rank(s, i) \in 1..Len(t)
    BY <2>3, TextAt
  <2>5. CASE i = 1
    <3>1. Len(s) > 0
      BY <1>n, <2>1
    <3>2. Rank(s, i) = 1
      BY <2>5, <3>1, FirstRank
    <3> HIDE DEF t
    <3>3. Rank(s, i) \in LengthLines(t)
      BY <2>1, <2>3, <2>4, <3>2 DEF LengthLines
    <3> QED BY <2>2, <2>3, <3>3
  <2>6. CASE i # 1
    <3>1. i - 1 \in 1..Len(s) /\ i - 1 < Len(s) /\ (i - 1) + 1 = i /\ s[i - 1] = LF
      BY <1>n, <2>1, <2>6
    <3>2. Plain(s, i - 1)
      BY <3>1, LinesArePlain DEF Plain
    <3>3. Rank(s, i) = Rank(s, i - 1) + 1 /\ t[Rank(s, i - 1)] = LF /\ i - 1 \in Starts(s)
      <4>1. i - 1 \in Starts(s) /\ t[Rank(s, i - 1)] = s[i - 1]
            /\ (i - 1 < Len(s) => Rank(s, (i - 1) + 1) = Rank(s, i - 1) + 1)
        BY <3>2, PlainStays
      <4> HIDE DEF t
      <4> QED BY <3>1, <4>1
    <3>4. Rank(s, i) - 1 = Rank(s, i - 1)
      <4>1. Rank(s, i - 1) \in 1..Len(t)
        BY <3>3, TextAt
      <4> HIDE DEF t
      <4> QED BY <1>n, <3>3, <4>1
    <3> HIDE DEF t
    <3>5. Rank(s, i) \in LengthLines(t)
      BY <2>1, <2>3, <2>4, <3>3, <3>4 DEF LengthLines
    <3> QED BY <2>2, <2>3, <3>5
  <2> QED BY <2>5, <2>6
<1>2. ASSUME NEW k \in LengthLines(t)
      PROVE  \E i \in LengthLines(s) : Rank(s, i) = k
  <2>1. k \in 1..Len(t) /\ t[k] \in DOMAIN Value /\ (k = 1 \/ t[k - 1] = LF)
    BY DEF LengthLines
  <2>2. PICK i : Plain(s, i) /\ Rank(s, i) = k /\ s[i] = t[k]
    BY <2>1, PlainWas, LinesArePlain
  <2>3. i \in 1..Len(s) /\ i \in Starts(s)
    BY <2>2, PlainStays DEF Plain
  <2>4. CASE k = 1
    <3>1. Len(s) > 0
      BY <1>n, <2>3
    <3>2. 1 \in Starts(s) /\ Rank(s, 1) = Rank(s, i)
      BY <2>2, <2>4, <3>1, FirstRank
    <3>3. i = 1
      BY <2>3, <3>2, RankUnique
    <3>4. i \in LengthLines(s)
      BY <2>1, <2>2, <2>3, <3>3 DEF LengthLines
    <3> QED BY <2>2, <3>4
  <2>5. CASE k # 1
    <3>1. k - 1 \in 1..Len(t) /\ k = (k - 1) + 1 /\ t[k - 1] = LF
      <4> HIDE DEF t
      <4> QED BY <1>n, <2>1, <2>5
    <3>2. PICK j : Plain(s, j) /\ Rank(s, j) = k - 1 /\ s[j] = LF
      BY <3>1, PlainWas, LinesArePlain
    <3>3. Rank(s, i) = Rank(s, j) + 1
      BY <2>2, <3>1, <3>2
    <3>4. i = j + 1
      BY <2>3, <3>2, <3>3, Neighbours
    <3>5. s[i - 1] = LF
      <4>1. j \in Int /\ i - 1 = j
        BY <3>2, <3>4 DEF Plain
      <4> QED BY <3>2, <4>1
    <3>6. i \in LengthLines(s)
      BY <2>1, <2>2, <2>3, <3>5 DEF LengthLines
    <3> QED BY <2>2, <3>6
  <2> QED BY <2>4, <2>5
<1>3. CASE LengthLines(s) = {}
  <2>1. LengthLines(t) = {}
    BY <1>2, <1>3
  <2> QED BY <1>3, <2>1 DEF BodyLength, LengthIsNumber
<1>4. CASE LengthLines(s) # {}
  <2> DEFINE i == LengthLine(s)
  <2>1. i \in LengthLines(s) /\ \A j \in LengthLines(s) : j <= i
    <3>1. LengthLines(s) \subseteq 1..Len(s)
      BY DEF LengthLines
    <3>2. \E x \in LengthLines(s) : \A y \in LengthLines(s) : y <= x
      BY <1>n, <1>4, <3>1, GreatestPlace
    <3> QED BY <3>2 DEF LengthLine
  <2> HIDE DEF i
  <2>2. Plain(s, i) /\ Rank(s, i) \in LengthLines(t) /\ t[Rank(s, i)] = s[i]
    BY <1>1, <2>1
  <2>3. ASSUME NEW k \in LengthLines(t) PROVE k <= Rank(s, i)
    <3>1. PICK j \in LengthLines(s) : Rank(s, j) = k
      BY <1>2
    <3>2. j <= i /\ i \in 0..Len(s) /\ j \in 0..Len(s)
      BY <2>1, <1>n DEF LengthLines
    <3> QED BY <3>1, <3>2, RankGrows
  <2>4. LengthLine(t) = Rank(s, i)
    <3>1. LengthLines(t) \subseteq Nat
      BY DEF LengthLines
    <3>2. \A x \in LengthLines(t) : (\A y \in LengthLines(t) : y <= x) => x = Rank(s, i)
      BY <2>2, <2>3, <3>1
    <3> HIDE DEF t
    <3> QED BY <2>2, <2>3, <3>2 DEF LengthLine
  <2>5. BodyLength(t) = BodyLength(s)
    <3> HIDE DEF t
    <3> QED BY <1>4, <2>2, <2>4 DEF BodyLength, i
  <2>6. ASSUME LengthIsNumber(s) PROVE LengthIsNumber(t)
    <3>1. i < Len(s) => s[i + 1] = LF
      BY <1>4, <2>6 DEF LengthIsNumber, i
    <3>2. ASSUME Rank(s, i) < Len(t) PROVE t[Rank(s, i) + 1] = LF
      <4>1. i \in 1..Len(s) /\ Len(t) = Rank(s, Len(s))
        BY <2>2, TextAt DEF Plain
      <4>2. i # Len(s)
        <5>1. Rank(s, i) \in Nat
          <6>1. i \in 0..Len(s)
            BY <1>n, <4>1
          <6> QED BY <6>1, RankSteps
        <5> HIDE DEF t
        <5> QED BY <3>2, <4>1, <5>1
      <4>3. i < Len(s) /\ i + 1 \in 1..Len(s)
        BY <1>n, <4>1, <4>2
      <4>4. Rank(s, i + 1) = Rank(s, i) + 1
        BY <2>2, <4>3, PlainStays
      <4>5. Plain(s, i + 1)
        BY <3>1, <4>3, LinesArePlain DEF Plain
      <4>6. t[Rank(s, i + 1)] = s[i + 1]
        BY <4>5, PlainStays
      <4> HIDE DEF t
      <4> QED BY <3>1, <4>3, <4>4, <4>6
    <3> HIDE DEF t
    <3> QED BY <2>4, <3>2 DEF LengthIsNumber
  <2> QED BY <2>5, <2>6
<1> QED BY <1>3, <1>4

(* A text can be cut where no character is. *)
LEMMA TextOfPrefix ==
  ASSUME NEW s \in Seq(Byte), NEW e \in 0..Len(s), ~Halves(s, e)
  PROVE  Text(SubSeq(s, 1, e)) = SubSeq(Text(s), 1, Rank(s, e))
<1> DEFINE p == SubSeq(s, 1, e)
           t == Text(s)
           m == Rank(s, e)
<1>1. /\ Len(s) \in Nat /\ e \in Nat /\ p \in Seq(Byte) /\ Len(p) = e
      /\ \A i \in 1..e : p[i] = s[i]
  <2>1. Len(s) \in Nat /\ e \in Nat /\ p \in Seq(Byte) /\ Len(p) = e
    BY LenProperties, SplitSequence
  <2>2. \A i \in 1..e : p[i] = s[i]
    <3>1. e <= Len(s) /\ s \in Seq(Byte)
      BY <2>1
    <3> QED BY <2>1, <3>1, SubSeqProperties
  <2> QED BY <2>1, <2>2
<1> HIDE DEF p
<1>2. \A i \in 0..e : Halves(p, i) <=> Halves(s, i)
  <2> TAKE i \in 0..e
  <2>1. CASE i = 0 \/ i = e
    BY <1>1, <2>1 DEF Halves
  <2>2. CASE i # 0 /\ i # e
    <3>1. i \in 1..e /\ i + 1 \in 1..e /\ i \in 1..Len(p) - 1 /\ i \in 1..Len(s) - 1
      BY <1>1, <2>2
    <3> QED BY <1>1, <3>1 DEF Halves
  <2> QED BY <2>1, <2>2
<1>3. Starts(p) = {i \in Starts(s) : i <= e}
  <2>1. \A i \in 1..e : i - 1 \in 0..e /\ i \in 1..Len(s)
    BY <1>1
  <2>2. \A i \in 1..Len(s) : i <= e => i \in 1..e
    BY <1>1
  <2> QED BY <1>1, <1>2, <2>1, <2>2 DEF Starts
<1>4. \A i \in 0..e : Rank(p, i) = Rank(s, i)
  <2> TAKE i \in 0..e
  <2>1. {j \in Starts(p) : j <= i} = {j \in Starts(s) : j <= i}
    <3>1. \A j \in Starts(s) : j <= i => j <= e
      BY <1>1 DEF Starts
    <3> QED BY <1>3, <3>1
  <2> QED BY <2>1 DEF Rank
<1>5. \A i \in Starts(p) : i \in Starts(s) /\ i \in 0..e /\ Char(p, i) = Char(s, i)
  <2> TAKE i \in Starts(p)
  <2>1. i \in Starts(s) /\ i <= e
    BY <1>3
  <2>2. i \in 1..Len(s)
    BY <2>1 DEF Starts
  <2>3. i \in 1..e /\ i \in 0..e
    BY <1>1, <2>1, <2>2
  <2> QED BY <1>1, <1>2, <2>1, <2>3 DEF Char
<1>6. m \in 0..Len(t) /\ Len(t) \in Nat /\ t \in Seq(Byte \cup {Pair, Replacement})
  <2>1. t \in Seq(Byte \cup {Pair, Replacement}) /\ Len(t) = Rank(s, Len(s))
    BY TextAt
  <2>2. Len(s) \in 0..Len(s) /\ e <= Len(s)
    BY <1>1
  <2>3. Rank(s, Len(s)) \in Nat /\ Rank(s, e) \in Nat /\ Rank(s, e) <= Rank(s, Len(s))
    BY <2>2, RankSteps, RankGrows
  <2> HIDE DEF t
  <2> QED BY <2>1, <2>3
<1>7. Len(Text(p)) = m /\ Text(p) \in Seq(Byte \cup {Pair, Replacement})
  <2>1. Len(Text(p)) = Rank(p, Len(p)) /\ e \in 0..e
    BY <1>1, TextAt
  <2> QED BY <1>1, <1>4, <2>1, TextAt
<1>8. ASSUME NEW k \in 1..m PROVE Text(p)[k] = t[k]
  <2>1. PICK i \in Starts(p) : Rank(p, i) = k
    BY <1>1, <1>7, TextAt
  <2>2. Text(p)[k] = Char(p, i)
    BY <1>1, <2>1, TextAt
  <2>3. i \in Starts(s) /\ Rank(s, i) = k /\ Char(p, i) = Char(s, i)
    BY <1>4, <1>5, <2>1
  <2>4. t[k] = Char(s, i)
    BY <2>3, TextAt
  <2> QED BY <2>2, <2>3, <2>4
<1> HIDE DEF t, m
<1>9. Text(p) = SubSeq(t, 1, m)
  <2> DEFINE u == Text(p)
             v == SubSeq(t, 1, m)
  <2>1. v \in Seq(Byte \cup {Pair, Replacement}) /\ Len(v) = m /\ \A k \in 1..m : v[k] = t[k]
    BY <1>6, SubSeqProperties
  <2>2. u \in Seq(Byte \cup {Pair, Replacement}) /\ Len(u) = m /\ \A k \in 1..m : u[k] = t[k]
    BY <1>7, <1>8
  <2> HIDE DEF u, v
  <2>3. u = v
    BY <2>1, <2>2, SeqEqual
  <2> QED BY <2>3 DEF u, v
<1> QED BY <1>9 DEF p, t, m

(* The text of what is behind such a cut. *)
LEMMA TextOfRest ==
  ASSUME NEW s \in Seq(Byte), NEW e \in 0..Len(s), ~Halves(s, e)
  PROVE  Text(SubSeq(s, e + 1, Len(s))) = SubSeq(Text(s), Rank(s, e) + 1, Len(Text(s)))
<1> DEFINE q == SubSeq(s, e + 1, Len(s))
           t == Text(s)
           m == Rank(s, e)
           n == Len(s) - e
<1>1. /\ Len(s) \in Nat /\ e \in Nat /\ n \in Nat /\ q \in Seq(Byte) /\ Len(q) = n
      /\ \A i \in 1..n : q[i] = s[e + i]
  <2>1. Len(s) \in Nat /\ e \in Nat /\ n \in Nat /\ q \in Seq(Byte) /\ Len(q) = n
    BY LenProperties, SplitSequence
  <2>2. \A i \in 1..n : q[i] = s[e + i]
    <3> TAKE i \in 1..n
    <3>1. i \in 1..((Len(s) - (e + 1)) + 1) /\ e + 1 \in 1..Len(s) + 1 /\ ((e + 1) + i) - 1 = e + i
      BY <2>1
    <3>2. q[i] = s[((e + 1) + i) - 1]
      <4>1. e + 1 \in 1..Len(s) + 1 /\ Len(s) \in (e + 1) - 1..Len(s)
        BY <2>1
      <4> HIDE DEF n
      <4> QED BY <3>1, <4>1, SubSeqProperties
    <3> QED BY <3>1, <3>2
  <2> QED BY <2>1, <2>2
<1>b. \A i \in 1..n : e + i \in 1..Len(s) /\ e + i \in 0..Len(s)
  BY <1>1
<1> HIDE DEF q, n
<1>2. \A i \in 0..n : Halves(q, i) <=> i # 0 /\ Halves(s, e + i)
  <2> TAKE i \in 0..n
  <2>1. CASE i = 0 \/ i = n
    <3>1. i = n => e + i = Len(s)
      BY <1>1 DEF n
    <3> QED BY <1>1, <2>1, <3>1 DEF Halves
  <2>2. CASE i # 0 /\ i # n
    <3>1. i \in 1..n /\ i + 1 \in 1..n /\ i \in 1..n - 1 /\ e + i \in 1..Len(s) - 1
          /\ e + (i + 1) = (e + i) + 1
      BY <1>1, <2>2 DEF n
    <3> QED BY <1>1, <2>2, <3>1 DEF Halves
  <2> QED BY <2>1, <2>2
<1>3. \A i \in 1..n : i \in Starts(q) <=> e + i \in Starts(s)
  <2> TAKE i \in 1..n
  <2>1. i - 1 \in 0..n /\ e + i \in 1..Len(s) /\ (e + i) - 1 = e + (i - 1) /\ (i = 1 => i - 1 = 0)
        /\ (i # 1 => i - 1 # 0)
    BY <1>1, <1>b
  <2>2. i = 1 => ~Halves(s, (e + i) - 1)
    <3>1. i = 1 => (e + i) - 1 = e
      BY <1>1
    <3> QED BY <3>1
  <2>3. Halves(q, i - 1) <=> Halves(s, (e + i) - 1)
    BY <1>2, <2>1, <2>2
  <2> QED BY <1>1, <2>1, <2>3 DEF Starts
<1>m. m \in Nat /\ \A i \in 0..n : e + i \in 0..Len(s) /\ Rank(s, e + i) \in Nat
  <2>1. \A i \in 0..n : e + i \in 0..Len(s)
    BY <1>1 DEF n
  <2> QED BY <2>1, RankSteps
<1>4. \A i \in 0..n : Rank(s, e + i) = m + Rank(q, i)
  <2> DEFINE Same == {i \in 0..n : Rank(s, e + i) = m + Rank(q, i)}
  <2>1. 0 \in Same
    <3>1. Rank(q, 0) = 0 /\ e + 0 = e
      BY <1>1, RankSteps
    <3> QED BY <1>1, <1>m, <3>1
  <2>2. ASSUME NEW i \in 0..(n - 1), i \in Same PROVE i + 1 \in Same
    <3>1. /\ i + 1 \in 1..n /\ i + 1 \in 0..n /\ e + (i + 1) = (e + i) + 1
          /\ e + i \in 0..(Len(s) - 1) /\ i \in 0..n
      BY <1>1 DEF n
    <3>2. Rank(s, (e + i) + 1) =
            IF (e + i) + 1 \in Starts(s) THEN Rank(s, e + i) + 1 ELSE Rank(s, e + i)
      BY <3>1, RankSteps
    <3>3. Rank(q, i + 1) = IF i + 1 \in Starts(q) THEN Rank(q, i) + 1 ELSE Rank(q, i)
      BY <1>1, <3>1, RankSteps
    <3>4. Rank(q, i) \in Nat /\ Rank(s, e + i) \in Nat /\ Rank(s, e + i) = m + Rank(q, i)
      BY <1>1, <1>m, <2>2, <3>1, RankSteps
    <3>5. i + 1 \in Starts(q) <=> (e + i) + 1 \in Starts(s)
      BY <1>3, <3>1
    <3> HIDE DEF m
    <3>6. Rank(s, e + (i + 1)) = m + Rank(q, i + 1)
      BY <1>m, <3>1, <3>2, <3>3, <3>4, <3>5
    <3> QED BY <3>1, <3>6
  <2> HIDE DEF Same
  <2>3. 0..n \subseteq Same
    BY <1>1, <2>1, <2>2, SetInduction
  <2> QED BY <2>3 DEF Same
<1>5. \A i \in Starts(q) : i \in 1..n /\ e + i \in Starts(s) /\ Char(q, i) = Char(s, e + i)
  <2> TAKE i \in Starts(q)
  <2>1. i \in 1..n /\ i \in 0..n /\ i # 0
    BY <1>1 DEF Starts
  <2> QED BY <1>1, <1>2, <1>3, <2>1 DEF Char
<1>6. /\ Len(t) \in Nat /\ t \in Seq(Byte \cup {Pair, Replacement}) /\ m <= Len(t)
      /\ Len(t) = Rank(s, Len(s)) /\ Len(t) = m + Rank(q, n)
  <2>1. t \in Seq(Byte \cup {Pair, Replacement}) /\ Len(t) = Rank(s, Len(s))
    BY TextAt
  <2>2. e + n = Len(s) /\ n \in 0..n
    BY <1>1 DEF n
  <2>3. Rank(q, n) \in Nat
    BY <1>1, <2>2, RankSteps
  <2> HIDE DEF t, m
  <2>4. Len(t) = m + Rank(q, n)
    BY <1>4, <2>1, <2>2
  <2> QED BY <1>m, <2>1, <2>3, <2>4
<1>7. /\ Len(Text(q)) = Rank(q, n) /\ Text(q) \in Seq(Byte \cup {Pair, Replacement})
      /\ Rank(q, n) \in Nat
  <2>1. n \in 0..Len(q)
    BY <1>1
  <2> QED BY <1>1, <2>1, TextAt, RankSteps
<1>8. ASSUME NEW k \in 1..Rank(q, n) PROVE Text(q)[k] = t[m + k]
  <2>1. PICK i \in Starts(q) : Rank(q, i) = k
    BY <1>1, <1>7, TextAt
  <2>2. Text(q)[k] = Char(q, i)
    BY <1>1, <2>1, TextAt
  <2>3. i \in 0..n /\ e + i \in Starts(s) /\ Char(q, i) = Char(s, e + i)
    BY <1>5
  <2>4. Rank(s, e + i) = m + k
    BY <1>4, <2>1, <2>3
  <2>5. t[m + k] = Char(s, e + i)
    BY <2>3, <2>4, TextAt
  <2> QED BY <2>2, <2>3, <2>5
<1> HIDE DEF t, m
<1>9. Text(q) = SubSeq(t, m + 1, Len(t))
  <2> DEFINE u == Text(q)
             v == SubSeq(t, m + 1, Len(t))
  <2>1. /\ v \in Seq(Byte \cup {Pair, Replacement}) /\ Len(v) = Rank(q, n)
        /\ \A k \in 1..Rank(q, n) : v[k] = t[m + k]
    <3>1. m + 1 \in 1..Len(t) + 1 /\ Len(t) \in (m + 1) - 1..Len(t)
          /\ (Len(t) - (m + 1)) + 1 = Rank(q, n)
          /\ \A k \in 1..Rank(q, n) : ((m + 1) + k) - 1 = m + k
      BY <1>6, <1>7, <1>m
    <3>2. /\ v \in Seq(Byte \cup {Pair, Replacement})
          /\ Len(v) = IF m + 1 <= Len(t) THEN (Len(t) - (m + 1)) + 1 ELSE 0
      BY <1>6, <3>1, SubSeqProperties
    <3>3. Len(v) = Rank(q, n)
      BY <1>6, <1>7, <1>m, <3>1, <3>2
    <3>4. \A k \in 1..Rank(q, n) : v[k] = t[((m + 1) + k) - 1]
      BY <1>6, <3>1, SubSeqProperties
    <3> HIDE DEF v
    <3> QED BY <3>1, <3>2, <3>3, <3>4
  <2>2. /\ u \in Seq(Byte \cup {Pair, Replacement}) /\ Len(u) = Rank(q, n)
        /\ \A k \in 1..Rank(q, n) : u[k] = t[m + k]
    BY <1>7, <1>8
  <2> HIDE DEF u, v
  <2>3. u = v
    BY <2>1, <2>2, SeqEqual
  <2> QED BY <2>3 DEF u, v
<1> QED BY <1>9 DEF q, t, m

(* The two-byte characters among the first m of the text. *)
Pairs(s, m) == {k \in 1..m : Text(s)[k] = Pair}

(* One more character: how many of them take two bytes. *)
LEMMA SizeStep ==
  ASSUME NEW s \in Seq(Byte), Replacement \notin Range(Text(s)),
         NEW i \in 0..(Len(s) - 1), Rank(s, i + 1) = Rank(s, i) + 1, i + 1 \in Starts(s)
  PROVE  /\ IsFiniteSet(Pairs(s, Rank(s, i))) /\ IsFiniteSet(Pairs(s, Rank(s, i) + 1))
         /\ Cardinality(Pairs(s, Rank(s, i))) \in Nat
         /\ Cardinality(Pairs(s, Rank(s, i) + 1)) =
              IF Halves(s, i + 1) THEN Cardinality(Pairs(s, Rank(s, i))) + 1
                                  ELSE Cardinality(Pairs(s, Rank(s, i)))
<1> DEFINE m == Rank(s, i)
           A == Pairs(s, m)
           B == Pairs(s, m + 1)
<1>1. Len(s) \in Nat /\ i \in Nat /\ i + 1 \in 1..Len(s) /\ m \in Nat
  BY RankSteps, LenProperties
<1>2. Text(s)[m + 1] = Char(s, i + 1) /\ m + 1 \in 1..Len(Text(s))
  BY TextAt
<1>3. Text(s)[m + 1] = Pair <=> Halves(s, i + 1)
  <2>1. s[i + 1] \in Byte
    BY <1>1, ElementOfSeq
  <2>2. Text(s)[m + 1] # Replacement
    BY <1>2, TextAt, LenProperties DEF Range
  <2>3. Pair \notin Byte
    BY CharacterAssumption
  <2>4. CASE Halves(s, i + 1)
    BY <1>2, <2>4 DEF Char
  <2>5. CASE ~Halves(s, i + 1)
    BY <1>2, <2>1, <2>2, <2>3, <2>5 DEF Char
  <2> QED BY <2>4, <2>5
<1> HIDE DEF m
<1>4. IsFiniteSet(A) /\ Cardinality(A) \in Nat /\ m + 1 \notin A
  <2>1. IsFiniteSet(1..m)
    BY <1>1, FS_Interval
  <2>2. A \subseteq 1..m
    BY DEF Pairs
  <2> QED BY <1>1, <2>1, <2>2, FS_Subset, FS_CardinalityType
<1>5. CASE Halves(s, i + 1)
  <2>1. B = A \cup {m + 1}
    BY <1>1, <1>3, <1>5 DEF Pairs
  <2> QED BY <1>4, <1>5, <2>1, FS_AddElement DEF m
<1>6. CASE ~Halves(s, i + 1)
  <2>1. B = A
    BY <1>1, <1>3, <1>6 DEF Pairs
  <2> QED BY <1>4, <1>6, <2>1 DEF m
<1> QED BY <1>5, <1>6

(* Where nothing is replaced, the characters begun by byte i, those of two   *)
(* bytes counted twice, are i bytes, or i + 1 in the middle of one.          *)
LEMMA SizeUpTo ==
  ASSUME NEW s \in Seq(Byte), Replacement \notin Range(Text(s))
  PROVE  \A i \in 0..Len(s) :
           Rank(s, i) + Cardinality(Pairs(s, Rank(s, i))) = IF Halves(s, i) THEN i + 1 ELSE i
<1> DEFINE P == {i \in Nat : i \in 0..Len(s) =>
             Rank(s, i) + Cardinality(Pairs(s, Rank(s, i))) = IF Halves(s, i) THEN i + 1 ELSE i}
<1>1. Len(s) \in Nat
  BY LenProperties
<1>2. 0 \in P
  <2>1. Rank(s, 0) = 0
    BY RankSteps
  <2>2. Pairs(s, 0) = {}
    BY DEF Pairs
  <2>3. ~Halves(s, 0)
    BY <1>1 DEF Halves
  <2>4. Cardinality({}) = 0
    BY FS_EmptySet
  <2>5. Cardinality(Pairs(s, Rank(s, 0))) = 0
    BY <2>1, <2>2, <2>4
  <2>6. Rank(s, 0) + Cardinality(Pairs(s, Rank(s, 0))) = 0
    BY <2>1, <2>5
  <2>7. 0 \in Nat /\ 0 \in 0..Len(s)
    BY <1>1
  <2> QED BY <2>3, <2>6, <2>7
<1>3. ASSUME NEW i \in 0..(Len(s) - 1), i \in P PROVE i + 1 \in P
  <2> DEFINE m == Rank(s, i)
             c == Cardinality(Pairs(s, m))
  <2> SUFFICES Rank(s, i + 1) + Cardinality(Pairs(s, Rank(s, i + 1))) =
                 IF Halves(s, i + 1) THEN (i + 1) + 1 ELSE i + 1
    BY <1>1, <1>3
  <2>1. i \in Nat /\ m \in Nat /\ m + c = IF Halves(s, i) THEN i + 1 ELSE i
    BY <1>1, <1>3, RankSteps
  <2>2. i + 1 \in Starts(s) <=> ~Halves(s, i)
    <3>1. i + 1 \in 1..Len(s) /\ (i + 1) - 1 = i
      BY <1>1, <2>1
    <3> QED BY <3>1 DEF Starts
  <2>3. CASE Halves(s, i)
    <3>1. Rank(s, i + 1) = m
      BY <2>2, <2>3, RankSteps
    <3>2. ~Halves(s, i + 1)
      BY <2>1, <2>3, CharacterAssumption DEF Halves
    <3>3. m + c = i + 1
      BY <2>1, <2>3
    <3> QED BY <3>1, <3>2, <3>3
  <2>4. CASE ~Halves(s, i)
    <3>1. i + 1 \in Starts(s)
      BY <2>2, <2>4
    <3>2. Rank(s, i + 1) = m + 1
      BY <3>1, RankSteps
    <3>3. /\ c \in Nat
          /\ Cardinality(Pairs(s, m + 1)) = IF Halves(s, i + 1) THEN c + 1 ELSE c
      BY <3>1, <3>2, SizeStep
    <3>4. m + c = i
      BY <2>1, <2>4
    <3> HIDE DEF m, c
    <3>5. (m + 1) + Cardinality(Pairs(s, m + 1)) = IF Halves(s, i + 1) THEN (i + 1) + 1 ELSE i + 1
      BY <2>1, <3>3, <3>4
    <3> QED BY <3>2, <3>5
  <2> QED BY <2>3, <2>4
<1>4. 0..Len(s) \subseteq P
  <2> HIDE DEF P
  <2> QED BY <1>1, <1>2, <1>3, SetInduction
<1> QED BY <1>1, <1>4

(* A text with no replacement is, encoded again, as long as the bytes it was *)
(* decoded from.                                                             *)
LEMMA SizeOfText ==
  ASSUME NEW s \in Seq(Byte), Replacement \notin Range(Text(s))
  PROVE  EncodedSize(Text(s)) = Len(s)
<1> DEFINE t == Text(s)
<1>1. Len(s) \in Nat /\ Len(t) = Rank(s, Len(s)) /\ DOMAIN t = 1..Len(t) /\ Len(t) \in Nat
  BY TextAt, LenProperties
<1>2. {k \in DOMAIN t : t[k] = Replacement} = {}
  BY DEF Range
<1>3. ~Halves(s, Len(s))
  BY <1>1 DEF Halves
<1>4. {k \in DOMAIN t : t[k] = Pair} = Pairs(s, Rank(s, Len(s)))
  BY <1>1 DEF Pairs
<1>5. Rank(s, Len(s)) + Cardinality(Pairs(s, Rank(s, Len(s)))) = Len(s)
  BY <1>1, <1>3, SizeUpTo
<1>6. Cardinality({}) = 0
  BY FS_EmptySet
<1> HIDE DEF t
<1>7. EncodedSize(t) = (Len(t) + Cardinality(Pairs(s, Rank(s, Len(s))))) + 2 * 0
  BY <1>2, <1>4, <1>6 DEF EncodedSize
<1> QED BY <1>1, <1>5, <1>7 DEF t

(* No frame that was returned has a body over either cap.                    *)
FramesFit ==
  \A i \in 1..Len(frames) : Len(frames[i].body) <= MaxBody /\ Len(frames[i].body) <= MaxFrame

(* A frame handed over with a body within the caps keeps that so. *)
LEMMA YieldFits ==
  ASSUME TypeOK, FramesFit, NEW h, NEW b, Yield(h, b), Len(b) <= MaxBody, Len(b) <= MaxFrame
  PROVE  FramesFit'
<1> DEFINE f == [head |-> h, body |-> b]
<1>1. frames \in Seq(Frame) /\ frames' = Append(frames, f) /\ Len(frames) \in Nat
  BY LenProperties DEF Yield, TypeOK
<1>2. /\ Len(frames') = Len(frames) + 1
      /\ frames'[Len(frames) + 1] = f
      /\ \A i \in 1..Len(frames) : frames'[i] = frames[i]
  BY <1>1
<1>3. f.body = b
  OBVIOUS
<1> HIDE DEF f
<1>4. ASSUME NEW i \in 1..Len(frames')
      PROVE  Len(frames'[i].body) <= MaxBody /\ Len(frames'[i].body) <= MaxFrame
  <2>1. CASE i \in 1..Len(frames)
    BY <1>2, <2>1 DEF FramesFit
  <2>2. CASE i = Len(frames) + 1
    BY <1>2, <1>3, <2>2
  <2> QED BY <1>1, <1>2, <1>4, <2>1, <2>2
<1> QED BY <1>4 DEF FramesFit

(* Every frame of the connection fits, of a body that was awaited because    *)
(* its block had been accepted.                                              *)
LEMMA FramesAlwaysFit == Spec => []FramesFit
<1>1. Init => FramesFit
  BY DEF Init, FramesFit
<1>2. TypeOK /\ BodyAwaited /\ FramesFit /\ [Next]_vars => FramesFit'
  <2> SUFFICES ASSUME TypeOK, BodyAwaited, FramesFit, [Next]_vars PROVE FramesFit'
    OBVIOUS
  <2>1. ASSUME UNCHANGED frames PROVE FramesFit'
    BY <2>1 DEF FramesFit
  <2>2. ASSUME NEW s \in Streams, Connect(s) PROVE FramesFit'
    <3>1. frames' = <<>>
      BY <2>2 DEF Connect
    <3> QED BY <3>1 DEF FramesFit
  <2>3. CASE TakeHeader
    <3> DEFINE h == SubSeq(buffer, 1, BlockEnd(buffer) - 2)
    <3>1. CASE Yield(h, <<>>)
      <4>1. Len(<<>>) = 0 /\ 0 <= MaxBody /\ 0 <= MaxFrame
        BY LimitAssumption
      <4> HIDE DEF h
      <4> QED BY <3>1, <4>1, YieldFits
    <3>2. CASE UNCHANGED frames
      BY <2>1, <3>2
    <3> QED BY <2>3, <3>1, <3>2 DEF TakeHeader, Refuse, log
  <2>4. CASE TakeBody
    <3> DEFINE b == SubSeq(buffer, 1, need)
    <3>1. pc = "body" /\ Len(buffer) >= need /\ Yield(head, b)
      BY <2>4 DEF TakeBody
    <3>2. buffer \in Seq(Byte) /\ head \in Seq(Byte) /\ need \in 0..MaxBody /\ MaxBody \in Nat
      BY LimitAssumption DEF TypeOK
    <3>3. need \in 0..Len(buffer)
      BY <3>1, <3>2, LenProperties
    <3>4. Len(b) = need
      BY <3>2, <3>3, SplitSequence
    <3>5. Block \in Seq(Byte) /\ Len(Block) \in Nat
      <4>1. <<LF, LF>> \in Seq(Byte)
        BY AlphabetAssumption
      <4>2. head \o <<LF, LF>> \in Seq(Byte)
        BY <3>2, <4>1, Concatenation
      <4>3. Block \in Seq(Byte)
        BY <4>2, Concatenation DEF Block, Encoding
      <4> QED BY <4>3, LenProperties
    <3>6. Len(Block) + need <= MaxFrame
      BY <3>1 DEF BodyAwaited, Acceptable
    <3>7. need <= MaxBody /\ need <= MaxFrame
      BY <3>2, <3>5, <3>6, LimitAssumption
    <3> HIDE DEF b
    <3> QED BY <3>1, <3>4, <3>7, YieldFits
  <2>5. ASSUME NEW d \in 1..Timeout, ReadFrame(d) PROVE FramesFit'
    BY <2>1, <2>5 DEF ReadFrame, log
  <2>6. CASE ReadClosed \/ HeaderTooLong \/ Expire \/ Lose
    BY <2>1, <2>6 DEF ReadClosed, HeaderTooLong, Refuse, Expire, Lose, log
  <2>7. ASSUME NEW k \in 1..RecvMax, Recv(k) PROVE FramesFit'
    BY <2>1, <2>7 DEF Recv, log
  <2>8. CASE Close \/ Tick \/ UNCHANGED vars
    BY <2>1, <2>8 DEF Close, Tick, log, vars
  <2> QED BY <2>2, <2>3, <2>4, <2>5, <2>6, <2>7, <2>8 DEF Next, Step
<1> QED BY <1>1, <1>2, TypeCorrect, BodyAwaitedHolds, PTL DEF Spec

(* Nothing is replaced in a part of a text in which nothing is.              *)
LEMMA PartKeepsText ==
  ASSUME NEW T, NEW t \in Seq(T), NEW c, c \notin Range(t), NEW a \in 1..(Len(t) + 1),
         NEW b \in 0..Len(t)
  PROVE  c \notin Range(SubSeq(t, a, b))
<1> DEFINE p == SubSeq(t, a, b)
<1>1. Len(t) \in Nat /\ DOMAIN t = 1..Len(t)
  BY LenProperties
<1>2. CASE a > b
  <2>1. p = <<>>
    BY <1>1, <1>2, SubSeqEmpty
  <2> QED BY <2>1 DEF Range
<1>3. CASE a <= b
  <2>1. DOMAIN p = 1..(b - a + 1) /\ \A i \in 1..(b - a + 1) : p[i] = t[a + i - 1]
    BY <1>1, <1>3, SubSeqProperties
  <2> HIDE DEF p
  <2>2. ASSUME NEW i \in DOMAIN p PROVE p[i] # c
    <3>1. a + i - 1 \in DOMAIN t /\ p[i] = t[a + i - 1]
      BY <1>1, <1>3, <2>1
    <3> QED BY <3>1 DEF Range
  <2> QED BY <2>2 DEF Range, p
<1> QED BY <1>1, <1>2, <1>3

(* An event serialized as mod_event_socket does it, whose body is within the *)
(* caps, is refused for its header's length only, and otherwise comes out    *)
(* whole.                                                                    *)
LEMMA UnwrapsWhole ==
  ASSUME NEW s \in Seq(Byte), Serialized(s), Len(s) <= MaxBody, Len(s) <= MaxFrame
  PROVE  LET e == BlockEnd(s) IN
         Unwrapped(Text(s)) =
           IF e > MaxHeader THEN Malformed
           ELSE Event(Text(SubSeq(s, 1, e - 2)), Text(SubSeq(s, e + 1, Len(s))))
<1> DEFINE e == BlockEnd(s)
           p == SubSeq(s, 1, e - 2)
           q == SubSeq(s, e + 1, Len(s))
           t == Text(s)
           E == BlockEnd(t)
           ht == SubSeq(t, 1, E - 2)
           rest == SubSeq(t, E + 1, Len(t))
           n == BodyLength(p)
<1>1. HasBlock(s) /\ LengthIsNumber(p) /\ Len(s) = e + n /\ Replacement \notin Range(t)
  BY DEF Serialized
<1>2. Len(s) \in Nat /\ e \in 2..Len(s) /\ s[e] = LF /\ s[e - 1] = LF
  BY <1>1, BlockEndIsEnd, LenProperties
<1>3. /\ HasBlock(t) /\ E = Rank(s, e) /\ E - 2 = Rank(s, e - 2)
      /\ E <= Len(t) /\ E >= 2 /\ t \in Seq(Byte \cup {Pair, Replacement})
      /\ Len(t) \in Nat /\ E \in Nat
  <2>1. E = Rank(s, e) /\ E <= Len(t) /\ E >= 2 /\ E - 2 = Rank(s, e - 2) /\ HasBlock(t)
    BY <1>1, TextBlock
  <2>2. Rank(s, e) \in Nat
    BY <1>2, RankSteps
  <2> QED BY <2>1, <2>2, TextAt, LenProperties
<1>4. Trail # LF /\ Lead # LF
  BY CharacterAssumption
<1> HIDE DEF e, t, E
<1>5. /\ p \in Seq(Byte) /\ Len(p) = e - 2 /\ q \in Seq(Byte) /\ Len(q) = n /\ n \in Nat
  <2>1. e - 2 \in 0..Len(s) /\ e \in 0..Len(s)
    BY <1>2
  <2>2. Len(q) = Len(s) - e /\ q \in Seq(Byte) /\ p \in Seq(Byte) /\ Len(p) = e - 2
    BY <1>2, <2>1, SplitSequence
  <2>3. n = Len(s) - e
    <3>1. n \in Nat
      <4>1. LengthLines(p) # {} => p[LengthLine(p)] \in DOMAIN Value
        <5>1. LengthLines(p) \subseteq 1..Len(p) /\ Len(p) \in Nat
          BY <2>2, LenProperties DEF LengthLines
        <5>2. LengthLines(p) # {} => \E x \in LengthLines(p) : \A y \in LengthLines(p) : y <= x
          BY <5>1, GreatestPlace
        <5>3. LengthLines(p) # {} => LengthLine(p) \in LengthLines(p)
          BY <5>2 DEF LengthLine
        <5> QED BY <5>3 DEF LengthLines
      <4> QED BY <4>1, AlphabetAssumption DEF BodyLength
    <3> HIDE DEF n
    <3> QED BY <1>1, <1>2, <3>1
  <2> HIDE DEF p, q, n
  <2> QED BY <1>2, <2>1, <2>2, <2>3
<1>6. Text(p) = ht /\ Text(q) = rest
  <2>1. ~Halves(s, e - 2) /\ ~Halves(s, e)
    <3>1. (e - 2) + 1 = e - 1
      BY <1>2
    <3> QED BY <1>2, <1>4, <3>1 DEF Halves
  <2>2. e - 2 \in 0..Len(s) /\ e \in 0..Len(s)
    BY <1>2
  <2>3. Text(p) = SubSeq(t, 1, Rank(s, e - 2))
    BY <2>1, <2>2, TextOfPrefix DEF t
  <2>4. Text(q) = SubSeq(t, Rank(s, e) + 1, Len(t))
    BY <2>1, <2>2, TextOfRest DEF t
  <2> QED BY <1>3, <2>3, <2>4
<1>7. Replacement \notin Range(ht) /\ Replacement \notin Range(rest)
  <2>1. 1 \in 1..(Len(t) + 1) /\ E - 2 \in 0..Len(t) /\ E + 1 \in 1..(Len(t) + 1) /\ Len(t) \in 0..Len(t)
    BY <1>3
  <2> QED BY <1>1, <1>3, <2>1, PartKeepsText
<1> HIDE DEF p, q
<1>8. EncodedSize(ht) = e - 2 /\ EncodedSize(rest) = n
  BY <1>5, <1>6, <1>7, SizeOfText
<1>9. BodyLength(ht) = n /\ LengthIsNumber(ht)
  BY <1>1, <1>5, <1>6, TextLength
<1>10. rest \in Seq(Byte \cup {Pair, Replacement}) /\ Len(rest) \in Nat /\ Len(rest) <= n
  <2>1. rest \in Seq(Byte \cup {Pair, Replacement}) /\ Len(rest) = Rank(q, Len(q))
    BY <1>5, <1>6, TextAt
  <2>2. Rank(q, Len(q)) \in Nat /\ Len(q) \in 0..Len(q)
    BY <1>5, RankSteps
  <2>3. /\ Cardinality({k \in DOMAIN rest : rest[k] = Pair}) \in Nat
        /\ {k \in DOMAIN rest : rest[k] = Replacement} = {}
    <3>1. DOMAIN rest = 1..Len(rest) /\ Len(rest) \in Nat
      BY <2>1, LenProperties
    <3> HIDE DEF rest
    <3>2. IsFiniteSet(1..Len(rest)) /\ {k \in DOMAIN rest : rest[k] = Pair} \subseteq 1..Len(rest)
      BY <3>1, FS_Interval
    <3>3. IsFiniteSet({k \in DOMAIN rest : rest[k] = Pair})
      BY <3>2, FS_Subset
    <3>4. {k \in DOMAIN rest : rest[k] = Replacement} = {}
      BY <1>7 DEF Range, rest
    <3> QED BY <3>3, <3>4, FS_CardinalityType
  <2> DEFINE c == Cardinality({k \in DOMAIN rest : rest[k] = Pair})
  <2>4. n = (Len(rest) + c) + 2 * 0
    BY <1>8, <2>3, FS_EmptySet DEF EncodedSize
  <2> HIDE DEF rest, n, c
  <2>5. c \in Nat
    BY <2>3 DEF c
  <2> QED BY <1>5, <2>1, <2>2, <2>4, <2>5
<1>11. SubSeq(rest, 1, IF n < Len(rest) THEN n ELSE Len(rest)) = rest
  <2> HIDE DEF rest, n
  <2>1. (IF n < Len(rest) THEN n ELSE Len(rest)) = Len(rest)
    BY <1>5, <1>10
  <2> QED BY <1>10, <2>1, SubSeqFull
<1> DEFINE size == EncodedSize(ht) + 2
<1>12. size = e
  <2> HIDE DEF ht
  <2> QED BY <1>2, <1>8
<1>13. Unwrapped(t) =
         IF \/ size > MaxHeader \/ size > MaxFrame \/ ~LengthAccepted(ht)
            \/ size + n > MaxFrame \/ (n > 0 /\ Lacks(rest, n))
         THEN Malformed ELSE Event(ht, rest)
  <2> HIDE DEF n
  <2>1. Unwrapped(t) =
          IF \/ size > MaxHeader \/ size > MaxFrame \/ ~LengthAccepted(ht)
             \/ size + BodyLength(ht) > MaxFrame
             \/ (BodyLength(ht) > 0 /\ Lacks(rest, BodyLength(ht)))
          THEN Malformed
          ELSE Event(ht, SubSeq(rest, 1, IF BodyLength(ht) < Len(rest) THEN BodyLength(ht) ELSE Len(rest)))
    BY <1>3 DEF Unwrapped, E
  <2> QED BY <1>9, <1>11, <2>1
<1> HIDE DEF size, ht, rest, n
<1>14. /\ ~(size > MaxFrame) /\ LengthAccepted(ht) /\ ~(size + n > MaxFrame)
       /\ ~Lacks(rest, n)
  <2>1. MaxHeader \in Nat /\ MaxBody \in Nat /\ MaxFrame \in Nat
    BY LimitAssumption
  <2>2. e <= MaxFrame /\ e + n <= MaxFrame /\ n <= MaxBody
    BY <1>1, <1>2, <1>5, <2>1 DEF e, n
  <2>3. ~Lacks(rest, n)
    BY <1>5, <1>8 DEF Lacks
  <2> QED BY <1>2, <1>5, <1>9, <1>12, <2>1, <2>2, <2>3 DEF LengthAccepted
<1>15. Unwrapped(t) = IF e > MaxHeader THEN Malformed ELSE Event(Text(p), Text(q))
  BY <1>6, <1>12, <1>13, <1>14
<1> QED BY <1>15 DEF e, t, p, q

(* EventBody: an event that mod_event_socket serialized and whose frame      *)
(* passed _read_frame comes out of _parse_event_body with its header block   *)
(* and its whole payload, unless its own header exceeds the header cap.      *)
THEOREM EventsComeOutWhole == Spec => []EventsSurvive
<1>1. TypeOK /\ FramesFit => EventsSurvive
  <2> SUFFICES ASSUME TypeOK, FramesFit, NEW i \in 1..Len(frames),
                      IsEvent(frames[i]), Serialized(frames[i].body)
               PROVE  LET f == frames[i]
                          e == BlockEnd(f.body)
                      IN  Delivered(f) =
                            IF e > MaxHeader THEN Malformed
                            ELSE Event(Text(SubSeq(f.body, 1, e - 2)),
                                       Text(SubSeq(f.body, e + 1, Len(f.body))))
    BY DEF EventsSurvive
  <2> DEFINE b == frames[i].body
  <2>1. b \in Seq(Byte)
    <3>1. frames \in Seq(Frame)
      BY DEF TypeOK
    <3>2. frames[i] \in Frame
      BY <3>1, ElementOfSeq
    <3> QED BY <3>2 DEF Frame
  <2>2. Len(b) <= MaxBody /\ Len(b) <= MaxFrame
    BY DEF FramesFit
  <2>3. Delivered(frames[i]) = Unwrapped(Text(b))
    BY DEF Delivered
  <2> HIDE DEF b
  <2>4. Serialized(b)
    BY DEF b
  <2> QED BY <2>1, <2>2, <2>3, <2>4, UnwrapsWhole DEF b
<1> QED BY <1>1, TypeCorrect, FramesAlwaysFit, PTL

=============================================================================
