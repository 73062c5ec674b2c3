------------------------ MODULE ListenerClose_proofs -------------------------
(***************************************************************************)
(* What holds of ListenerClose for every set of threads that call close(), *)
(* every number of events and every interleaving of the accesses.          *)
(***************************************************************************)
EXTENDS ListenerClose, SequenceTheorems, TLAPS

Unit == [event : Nat, part : {"head", "body"}]

(* Where a thread can be. *)
Closing == {"close", "close_pending", "close_bytes", "close_test", "close_socket",
            "close_none", "closed", "ended"}
BeforeFrame == {"iter", "pending", "pop", "find", "take"}
OffQueue == {"count", "uncount"}
InFrame == {"body", "take_body"}
Receiving == {"recv_test", "settimeout", "recv", "waiting"}
Reading == BeforeFrame \cup OffQueue \cup InFrame \cup {"load"} \cup Receiving \cup {"store"}
ReaderPlaces == Reading \cup {"except", "sleep"} \cup Closing

Place == at[Reader]

(* The shape of the state. *)
Shape ==
  /\ sock \in BOOLEAN /\ fd \in BOOLEAN /\ closed \in BOOLEAN
  /\ pending \in Seq(Nat) /\ pendingBytes \in Int
  /\ buffer \in Seq(Unit) /\ old \in Seq(Unit) /\ chunk \in Seq(Unit) /\ wire \in Seq(Unit)
  /\ count \in Int /\ head \in Nat /\ then \in {"none", "lost"} \cup Endings
  /\ at \in [Threads -> ReaderPlaces \cup {"start"}] /\ Place \in ReaderPlaces
  /\ \A t \in Closers : at[t] \in Closing \cup {"start"}
  /\ outcome \in [Threads -> Endings \cup {"none"}]
  /\ delivered \in Nat /\ late \in 0..LateBound

(* The socket is closed before it is forgotten, and only a reader whose     *)
(* client forgot it can be past close().                                    *)
SocketClosedFirst ==
  /\ fd => sock
  /\ \A t \in Threads : at[t] = "close_none" => ~fd
  /\ Place \in {"closed", "ended"} => ~sock

(* What close() has emptied stays empty while the reader is the one that    *)
(* closes: nobody else puts anything there.                                 *)
EmptiedInOrder ==
  /\ Place \in Closing \ {"close"} => buffer = <<>>
  /\ Place \in Closing \ {"close", "close_pending"} => pending = <<>>
  /\ Place \in Closing \ {"close", "close_pending", "close_bytes"} => pendingBytes = 0

(* After an event was delivered late the reader looks at the flag, and is   *)
(* on its way out.                                                          *)
LateIsLast ==
  late # 0 =>
    /\ late = 1 /\ closed
    /\ \/ Place \in {"iter", "ended"}
       \/ Place \in Closing /\ then = "returned"

(* Without another thread's close() what the reader tested still holds when *)
(* it uses it.                                                              *)
Failures == {"AttributeError", "IndexError"}

TestsHold ==
  ~closed =>
    /\ \A t \in Closers : at[t] = "start"
    /\ Place = "pop" => pending # <<>>
    /\ Place \in {"take", "take_body"} => buffer # <<>>
    /\ Place \in {"settimeout", "recv", "waiting", "store", "close_socket"} => sock
    /\ then \notin Failures /\ outcome[Reader] \notin Failures

(* Where a unit is in the stream; the first has position 1. *)
Position(u) == 2 * u.event - (IF u.part = "head" THEN 1 ELSE 0)

WirePositioned ==
  /\ Len(wire) <= 2 * MaxEvents
  /\ \A i \in 1..Len(wire) : Position(wire[i]) = 2 * MaxEvents - Len(wire) + i

(* Units of the stream that the reader has used up. *)
Gone == 2 * MaxEvents - Len(wire) - Len(chunk) - Len(buffer)

ChunkOnlyToStore == Place # "store" => chunk = <<>>

(* Before close(): the queue continues what was delivered, the buffer and   *)
(* the chunk continue the queue, the wire continues them.                   *)
MidFrame == Place \in InFrame \/ (Place \in {"load"} \cup Receiving \cup {"store"} /\ head # 0)

NothingSkipped ==
  ~closed /\ Place \in Reading =>
    /\ \A i \in 1..Len(buffer) : Position(buffer[i]) = Gone + i
    /\ \A i \in 1..Len(chunk) : Position(chunk[i]) = Gone + Len(buffer) + i
    /\ Place \in Receiving \cup {"store"} => old = buffer
    /\ Place \notin BeforeFrame \cup OffQueue \/ Place \in {"find", "take"} => pending = <<>>
    /\ \A i \in 1..Len(pending) :
         pending[i] = delivered + i + (IF Place \in OffQueue THEN 1 ELSE 0)
    /\ Place \in OffQueue => head = delivered + 1 /\ Gone = 2 * (delivered + 1 + Len(pending))
    /\ MidFrame => head = delivered + 1 /\ Gone = 2 * delivered + 1
    /\ ~MidFrame /\ Place \notin OffQueue =>
         head = 0 /\ Gone = 2 * (delivered + Len(pending))

(* After close(), until an event is delivered late: nothing that can still  *)
(* reach on_event has been delivered, wherever a stale copy keeps it.       *)
Ahead(s) == \A i \in 1..Len(s) : s[i].event > delivered

NothingRepeated ==
  closed /\ late = 0 /\ Place \in Reading =>
    /\ Ahead(buffer) /\ Ahead(chunk) /\ Ahead(wire)
    /\ Place \in Receiving \cup {"store"} => Ahead(old)
    /\ \A i \in 1..Len(pending) : pending[i] > delivered
    /\ Place \in OffQueue => head > delivered

IInv ==
  /\ Shape /\ SocketClosedFirst /\ EmptiedInOrder /\ LateIsLast /\ TestsHold
  /\ WirePositioned /\ ChunkOnlyToStore /\ NothingSkipped /\ NothingRepeated

-----------------------------------------------------------------------------
(* A thread that moves leaves the others where they are. *)
LEMMA Moves ==
  ASSUME at \in [Threads -> ReaderPlaces \cup {"start"}], NEW t \in Threads, NEW place, To(t, place)
  PROVE  /\ at'[t] = place /\ \A u \in Threads : u # t => at'[u] = at[u]
         /\ t = Reader => Place' = place /\ \A u \in Closers : at'[u] = at[u]
         /\ t # Reader => Place' = Place
         /\ place \in ReaderPlaces \cup {"start"} => at' \in [Threads -> ReaderPlaces \cup {"start"}]
  BY ThreadAssumption DEF To, Place, Threads

LEMMA ReaderMoves ==
  ASSUME Shape, NEW place \in ReaderPlaces, To(Reader, place)
  PROVE  /\ Place' = place /\ \A u \in Closers : at'[u] = at[u]
         /\ at' \in [Threads -> ReaderPlaces \cup {"start"}]
  BY Moves DEF Shape, Threads

(* The shapes a moving thread can leave behind: the reader's, and a         *)
(* closer's.                                                                *)
LEMMA Elsewhere ==
  ASSUME Shape, NEW place \in ReaderPlaces, To(Reader, place)
  PROVE  /\ at' \in [Threads -> ReaderPlaces \cup {"start"}] /\ Place' \in ReaderPlaces
         /\ \A t \in Closers : at'[t] \in Closing \cup {"start"}
  BY ReaderMoves DEF Shape

LEMMA CloserElsewhere ==
  ASSUME Shape, NEW t \in Closers, NEW place \in Closing, To(t, place)
  PROVE  /\ at' \in [Threads -> ReaderPlaces \cup {"start"}] /\ Place' \in ReaderPlaces
         /\ \A u \in Closers : at'[u] \in Closing \cup {"start"}
<1>1. t \in Threads /\ t # Reader /\ place \in ReaderPlaces
  BY ThreadAssumption DEF Threads, ReaderPlaces
<1>2. at \in [Threads -> ReaderPlaces \cup {"start"}]
  BY DEF Shape
<1>3. at'[t] = place /\ \A u \in Threads : u # t => at'[u] = at[u]
  BY <1>1, <1>2, Moves
<1>4. Place' = Place /\ at' \in [Threads -> ReaderPlaces \cup {"start"}]
  BY <1>1, <1>2, Moves
<1> QED BY <1>3, <1>4 DEF Shape, Threads

LEMMA StepElsewhere ==
  ASSUME Shape, NEW t \in Threads, NEW place \in Closing, To(t, place)
  PROVE  /\ at' \in [Threads -> ReaderPlaces \cup {"start"}] /\ Place' \in ReaderPlaces
         /\ \A u \in Closers : at'[u] \in Closing \cup {"start"}
  BY Elsewhere, CloserElsewhere DEF Threads, ReaderPlaces

LEMMA UnitSequences ==
  /\ <<>> \in Seq(Unit) /\ <<>> \in Seq(Nat)
  /\ \A s \in Seq(Unit) : s # <<>> => Head(s) \in Unit /\ Tail(s) \in Seq(Unit)
  /\ \A s \in Seq(Nat) : s # <<>> => Head(s) \in Nat /\ Tail(s) \in Seq(Nat)
  /\ \A s, t \in Seq(Unit) : s \o t \in Seq(Unit)
<1>1. \A s \in Seq(Unit) : s # <<>> => Head(s) \in Unit /\ Tail(s) \in Seq(Unit)
  BY HeadTailProperties
<1>2. \A s \in Seq(Nat) : s # <<>> => Head(s) \in Nat /\ Tail(s) \in Seq(Nat)
  BY HeadTailProperties
<1>3. \A s, t \in Seq(Unit) : s \o t \in Seq(Unit)
  BY ConcatProperties
<1> QED BY <1>1, <1>2, <1>3, EmptySeq

(* The reader's control steps. *)
LEMMA GotoShape ==
  ASSUME Shape, NEW place \in ReaderPlaces, Goto(place)
  PROVE  Shape'
  BY Elsewhere DEF Shape, Goto, Same, client

LEMMA CloseThenShape ==
  ASSUME Shape, NEW why \in {"none", "lost"} \cup Endings, CloseThen(why)
  PROVE  Shape'
<1>1. "close" \in ReaderPlaces
  BY DEF ReaderPlaces, Closing
<1> QED BY <1>1, Elsewhere DEF Shape, CloseThen, Same, client

LEMMA CloseStepShape ==
  ASSUME Shape, NEW t \in Threads, CloseStep(t)
  PROVE  Shape'
<1> USE DEF client, Others, Endings
<1>1. CASE ClearBuffer(t)
  <2>1. To(t, "close_pending") /\ "close_pending" \in Closing
    BY <1>1 DEF ClearBuffer, Closing
  <2> QED BY <1>1, <2>1, StepElsewhere, UnitSequences DEF Shape, ClearBuffer
<1>2. CASE ClearPending(t)
  <2>1. To(t, "close_bytes") /\ "close_bytes" \in Closing
    BY <1>2 DEF ClearPending, Closing
  <2> QED BY <1>2, <2>1, StepElsewhere, UnitSequences DEF Shape, ClearPending
<1>3. CASE ClearBytes(t)
  <2>1. To(t, "close_test") /\ "close_test" \in Closing
    BY <1>3 DEF ClearBytes, Closing
  <2> QED BY <1>3, <2>1, StepElsewhere DEF Shape, ClearBytes
<1>4. CASE TestSock(t)
  <2>1. PICK place \in {"close_socket", "closed"} : To(t, place)
    BY <1>4 DEF TestSock
  <2>2. place \in Closing
    BY DEF Closing
  <2> QED BY <1>4, <2>1, <2>2, StepElsewhere DEF Shape, TestSock
<1>5. CASE CloseSocket(t)
  <2>1. PICK place \in {"close_none", "close", "ended"} : To(t, place)
    BY <1>5 DEF CloseSocket, Ends
  <2>2. place \in Closing
    BY DEF Closing
  <2>3. then' \in {"none", "lost"} \cup Endings /\ outcome' \in [Threads -> Endings \cup {"none"}]
        /\ fd' \in BOOLEAN
    BY <1>5 DEF Shape, CloseSocket, Ends
  <2> QED BY <1>5, <2>1, <2>2, <2>3, StepElsewhere DEF Shape, CloseSocket
<1>6. CASE ForgetSocket(t)
  <2>1. To(t, "closed") /\ "closed" \in Closing
    BY <1>6 DEF ForgetSocket, Closing
  <2> QED BY <1>6, <2>1, StepElsewhere DEF Shape, ForgetSocket
<1> QED BY <1>1, <1>2, <1>3, <1>4, <1>5, <1>6 DEF CloseStep

(* The steps of the reader that do more than move it. *)
LEMMA ReadShape ==
  ASSUME Shape, Read
  PROVE  Shape'
<1> USE DEF client, Others, Endings
<1>0. Reading \cup {"except", "sleep"} \subseteq ReaderPlaces /\ "ended" \in ReaderPlaces
  BY DEF ReaderPlaces, Closing
<1> USE UnitSequences
<1>1. CASE \E place \in ReaderPlaces : Goto(place)
  BY <1>1, GotoShape
<1>2. CASE \E why \in {"none", "lost"} \cup Endings : CloseThen(why)
  BY <1>2, CloseThenShape
<1>3. CASE Pop
  <2>1. To(Reader, "count") /\ "count" \in ReaderPlaces
    BY <1>0, <1>3 DEF Pop, Reading, OffQueue
  <2> QED BY <1>3, <2>1, Elsewhere DEF Shape, Pop
<1>4. CASE LoadCount
  <2>1. To(Reader, "uncount") /\ "uncount" \in ReaderPlaces
    BY <1>0, <1>4 DEF LoadCount, Reading, OffQueue
  <2> QED BY <1>4, <2>1, Elsewhere DEF Shape, LoadCount
<1>5. ASSUME NEW e \in Nat, Deliver(e)
      PROVE  /\ To(Reader, "iter") /\ "iter" \in ReaderPlaces
             /\ delivered' \in Nat /\ head' \in Nat /\ late' \in 0..LateBound
  BY <1>0, <1>5 DEF Deliver, Reading, BeforeFrame, Shape, LateBound
<1>6. CASE StoreCount
  <2>1. Deliver(head) /\ head \in Nat
    BY <1>6 DEF StoreCount, Shape
  <2>2. pendingBytes' \in Int
    BY <1>6 DEF StoreCount, Shape
  <2> QED BY <1>5, <1>6, <2>1, <2>2, Elsewhere DEF Shape, StoreCount
<1>7. CASE TakeHeader
  <2>1. PICK place \in {"body", "iter"} : To(Reader, place)
    BY <1>7 DEF TakeHeader
  <2>2. place \in ReaderPlaces
    BY <1>0 DEF Reading, InFrame, BeforeFrame
  <2>3. head' \in Nat /\ buffer' \in Seq(Unit)
    <3>1. CASE buffer = <<>>
      BY <1>7, <3>1 DEF TakeHeader, Shape
    <3>2. CASE buffer # <<>>
      <4>1. Head(buffer) \in Unit /\ Tail(buffer) \in Seq(Unit)
        BY <3>2 DEF Shape
      <4> QED BY <1>7, <3>2, <4>1 DEF TakeHeader, Unit
    <3> QED BY <3>1, <3>2
  <2> QED BY <1>7, <2>1, <2>2, <2>3, Elsewhere DEF Shape, TakeHeader
<1>8. CASE TakeBody
  <2>1. buffer' \in Seq(Unit)
    BY <1>8 DEF TakeBody, Shape
  <2>2. CASE buffer # <<>> /\ Head(buffer).part = "body"
    <3>1. Head(buffer).event \in Nat
      <4>1. Head(buffer) \in Unit
        BY <2>2 DEF Shape
      <4> QED BY <4>1 DEF Unit
    <3> QED BY <1>5, <1>8, <2>1, <2>2, <3>1, Elsewhere DEF Shape, TakeBody
  <2>3. CASE ~(buffer # <<>> /\ Head(buffer).part = "body")
    <3>1. To(Reader, "iter") /\ "iter" \in ReaderPlaces
      BY <1>0, <1>8, <2>3 DEF TakeBody, Reading, BeforeFrame
    <3> QED BY <1>8, <2>1, <2>3, <3>1, Elsewhere DEF Shape, TakeBody
  <2> QED BY <2>2, <2>3
<1>9. CASE LoadBuffer
  <2>1. To(Reader, "recv_test") /\ "recv_test" \in ReaderPlaces
    BY <1>0, <1>9 DEF LoadBuffer, Reading, Receiving
  <2> QED BY <1>9, <2>1, Elsewhere DEF Shape, LoadBuffer
<1>10. CASE StoreBuffer
  <2>1. PICK place \in {"find", "body"} : To(Reader, place)
    BY <1>10 DEF StoreBuffer
  <2>2. place \in ReaderPlaces
    BY <1>0 DEF Reading, InFrame, BeforeFrame
  <2> QED BY <1>10, <2>1, <2>2, Elsewhere DEF Shape, StoreBuffer
<1>11. ASSUME NEW n \in 1..2, Received(n) PROVE Shape'
  <2>1. To(Reader, "store") /\ "store" \in ReaderPlaces
    BY <1>0, <1>11 DEF Received, Reading
  <2>2. chunk' \in Seq(Unit) /\ wire' \in Seq(Unit)
    BY <1>11, LenProperties, SubSeqProperties, SMTT(20) DEF Received, Shape
  <2> QED BY <1>11, <2>1, <2>2, Elsewhere DEF Shape, Received
<1>12. CASE CloseStep(Reader)
  BY <1>12, CloseStepShape DEF Threads
<1>13. CASE Closed
  <2>1. CASE Ends(Reader, IF then = "retry" /\ closed THEN "returned" ELSE then)
             /\ then # "lost" /\ UNCHANGED <<client, then, Others>>
    <3>1. Place = "closed"
      BY <1>13 DEF Closed, At, Place
    <3>2. To(Reader, "ended")
      BY <2>1 DEF Ends
    <3>3. CASE then = "none"
      <4>1. outcome' = [outcome EXCEPT ![Reader] = "none"]
        BY <2>1, <3>3 DEF Ends
      <4> QED BY <1>0, <2>1, <3>2, <4>1, Elsewhere DEF Shape
    <3>4. CASE then # "none"
      <4>1. outcome' \in [Threads -> Endings \cup {"none"}]
        BY <2>1, <3>4 DEF Ends, Shape
      <4> QED BY <1>0, <2>1, <3>2, <4>1, Elsewhere DEF Shape
    <3> QED BY <3>3, <3>4
  <2>2. CASE Goto("except")
    BY <1>0, <2>2, GotoShape
  <2> QED BY <1>13, <2>1, <2>2 DEF Closed
<1>14. CASE Iterate \/ TestPending \/ PopFails \/ Find \/ Measure \/ RecvTest
            \/ SetTimeout \/ CallRecv \/ RecvFails \/ RecvExpires \/ Handle \/ Wake
  <2> USE <1>0 DEF Reading, BeforeFrame, InFrame, Receiving
  <2>1. CASE Iterate
    BY <1>1, <1>2, <2>1 DEF Iterate
  <2>2. CASE TestPending
    BY <1>1, <2>2 DEF TestPending
  <2>3. CASE PopFails \/ RecvFails \/ Wake
    BY <1>2, <2>3 DEF PopFails, RecvFails, Wake
  <2>4. CASE Find \/ Measure \/ RecvTest
    BY <1>1, <2>4 DEF Find, Measure, RecvTest
  <2>5. CASE SetTimeout \/ CallRecv
    BY <1>1, <1>2, <2>5 DEF SetTimeout, CallRecv, Uses
  <2>6. CASE RecvExpires \/ Handle
    BY <1>1, <1>2, <2>6 DEF RecvExpires, Handle
  <2> QED BY <1>14, <2>1, <2>2, <2>3, <2>4, <2>5, <2>6
<1> QED BY <1>3, <1>4, <1>6, <1>7, <1>8, <1>9, <1>10, <1>11, <1>12, <1>13, <1>14 DEF Read

LEMMA ShapeStep == Shape /\ [Next]_vars => Shape'
<1> SUFFICES ASSUME Shape, [Next]_vars PROVE Shape'
  OBVIOUS
<1>1. CASE Read
  BY <1>1, ReadShape
<1>2. ASSUME NEW t \in Closers, Closer(t) PROVE Shape'
  <2>0. t \in Threads
    BY DEF Threads
  <2>1. CASE SetClosed(t)
    <3>1. To(t, "close") /\ "close" \in Closing
      BY <2>1 DEF SetClosed, Closing
    <3> QED BY <2>1, <3>1, CloserElsewhere DEF Shape, SetClosed, client, locals
  <2>2. CASE CloseStep(t)
    BY <2>0, <2>2, CloseStepShape
  <2>3. CASE CloseReturns(t)
    <3>1. To(t, "ended") /\ "ended" \in Closing
      BY <2>3 DEF CloseReturns, Ends, Closing
    <3>2. outcome' \in [Threads -> Endings \cup {"none"}]
      BY <2>3 DEF CloseReturns, Ends, Shape, Endings
    <3> QED BY <2>3, <3>1, <3>2, CloserElsewhere DEF Shape, CloseReturns, client, Others
  <2> QED BY <1>2, <2>1, <2>2, <2>3 DEF Closer
<1>3. CASE UNCHANGED vars
  BY <1>3 DEF Shape, vars, client, locals, Place
<1> QED BY <1>1, <1>2, <1>3 DEF Next

-----------------------------------------------------------------------------
(* What each invariant needs to know of the steps it is not about: where    *)
(* the reader goes, and that everything else stays.                         *)
LEMMA GotoEffect ==
  ASSUME Shape, NEW place \in ReaderPlaces, Goto(place)
  PROVE  /\ Place' = place /\ \A u \in Closers : at'[u] = at[u]
         /\ UNCHANGED <<then, client, closed, old, chunk, count, head, outcome, wire, delivered, late>>
  BY ReaderMoves DEF Goto, Same

LEMMA CloseThenEffect ==
  ASSUME Shape, NEW why, CloseThen(why)
  PROVE  /\ Place' = "close" /\ \A u \in Closers : at'[u] = at[u]
         /\ then' = why
         /\ UNCHANGED <<client, closed, old, chunk, count, head, outcome, wire, delivered, late>>
<1>1. "close" \in ReaderPlaces
  BY DEF ReaderPlaces, Closing
<1> QED BY <1>1, ReaderMoves DEF CloseThen, Same

(* A closer's step leaves the reader where it is, and puts nothing          *)
(* anywhere.                                                                *)
LEMMA CloserEffect ==
  ASSUME Shape, NEW t \in Closers, Closer(t)
  PROVE  /\ Place' = Place /\ UNCHANGED <<locals, wire, delivered, late>>
         /\ closed => closed'
         /\ fd' => fd
         /\ outcome'[Reader] = outcome[Reader]
         /\ buffer' = buffer \/ buffer' = <<>>
         /\ pending' = pending \/ pending' = <<>>
         /\ pendingBytes' = pendingBytes \/ pendingBytes' = 0
<1> USE DEF client, locals, Others
<1>0. t # Reader /\ t \in Threads
  BY ThreadAssumption DEF Threads
<1>1. ASSUME NEW place, To(t, place) PROVE Place' = Place
  BY <1>0, <1>1, Moves DEF Shape
<1>2. CASE SetClosed(t) \/ ClearBuffer(t) \/ ClearPending(t) \/ ClearBytes(t) \/ TestSock(t) \/ ForgetSocket(t)
  BY <1>1, <1>2 DEF SetClosed, ClearBuffer, ClearPending, ClearBytes, TestSock, ForgetSocket
<1>3. CASE CloseSocket(t)
  <2>1. Place' = Place
    BY <1>1, <1>3 DEF CloseSocket, Ends
  <2>2. fd' => fd
    BY <1>3 DEF CloseSocket
  <2>3. then' = then
    BY <1>0, <1>3 DEF CloseSocket
  <2>4. outcome'[Reader] = outcome[Reader]
    <3>1. CASE UNCHANGED outcome
      BY <3>1
    <3>2. CASE Ends(t, "AttributeError")
      BY <1>0, <3>2 DEF Ends, Shape, Threads
    <3> QED BY <1>0, <1>3, <3>1, <3>2 DEF CloseSocket
  <2> QED BY <1>3, <2>1, <2>2, <2>3, <2>4 DEF CloseSocket
<1>4. CASE CloseReturns(t)
  <2>1. Place' = Place
    BY <1>1, <1>4 DEF CloseReturns, Ends
  <2>2. outcome'[Reader] = outcome[Reader]
    BY <1>0, <1>4 DEF CloseReturns, Ends, Shape
  <2> QED BY <1>4, <2>1, <2>2 DEF CloseReturns
<1> QED BY <1>2, <1>3, <1>4 DEF Closer, CloseStep

(* The steps of the reader that only move it, and those that deliver.       *)
ReadControl ==
  Iterate \/ TestPending \/ PopFails \/ Find \/ Measure \/ RecvTest
  \/ SetTimeout \/ CallRecv \/ RecvFails \/ RecvExpires \/ Handle \/ Wake

ReadData ==
  Pop \/ LoadCount \/ StoreCount \/ TakeHeader \/ TakeBody \/ LoadBuffer \/ StoreBuffer
  \/ \E n \in 1..2 : Received(n)

LEMMA ReadSplits == Read => ReadControl \/ ReadData \/ Closed \/ CloseStep(Reader)
  BY DEF Read, ReadControl, ReadData

LEMMA ReadControlEffect ==
  ASSUME Shape, ReadControl
  PROVE  /\ \A u \in Closers : at'[u] = at[u]
         /\ UNCHANGED <<client, closed, old, chunk, count, head, outcome, wire, delivered, late>>
         /\ Place # "store"
         /\ \/ Place' = "close"
            \/ Place' \in (Reading \ {"store"}) \cup {"except", "sleep"} /\ then' = then
<1> USE DEF ReaderPlaces, Reading, BeforeFrame, InFrame, Receiving
<1>0. Place # "store"
  BY DEF ReadControl, Iterate, TestPending, PopFails, Find, Measure, RecvTest, SetTimeout,
         CallRecv, Uses, RecvFails, RecvExpires, Handle, Wake, At, Place
<1>1. ASSUME NEW place \in (Reading \ {"store"}) \cup {"except", "sleep"}, Goto(place)
      PROVE  /\ Place' = place /\ \A u \in Closers : at'[u] = at[u]
             /\ UNCHANGED <<then, client, closed, old, chunk, count, head, outcome, wire, delivered, late>>
  BY <1>1, GotoEffect
<1>2. CASE Iterate \/ TestPending \/ PopFails \/ Find \/ Measure \/ RecvTest
  <2>1. \/ \E place \in (Reading \ {"store"}) \cup {"except", "sleep"} : Goto(place)
        \/ \E why : CloseThen(why)
    BY <1>2 DEF Iterate, TestPending, PopFails, Find, Measure, RecvTest
  <2> QED BY <1>0, <1>1, <2>1, CloseThenEffect
<1>3. CASE SetTimeout \/ CallRecv \/ RecvFails \/ RecvExpires \/ Handle \/ Wake
  <2>1. \/ \E place \in (Reading \ {"store"}) \cup {"except", "sleep"} : Goto(place)
        \/ \E why : CloseThen(why)
    BY <1>3 DEF SetTimeout, CallRecv, Uses, RecvFails, RecvExpires, Handle, Wake
  <2> QED BY <1>0, <1>1, <2>1, CloseThenEffect
<1> QED BY <1>2, <1>3 DEF ReadControl

LEMMA ReadDataEffect ==
  ASSUME Shape, ReadData
  PROVE  /\ \A u \in Closers : at'[u] = at[u]
         /\ Place' \in Reading
         /\ UNCHANGED <<sock, fd, closed, then, outcome>>
<1> USE DEF ReaderPlaces, Reading, BeforeFrame, InFrame, OffQueue, Receiving
<1>1. ASSUME NEW place \in Reading, To(Reader, place)
      PROVE  Place' = place /\ \A u \in Closers : at'[u] = at[u]
  BY <1>1, ReaderMoves
<1>2. CASE Pop \/ LoadCount \/ StoreCount \/ TakeHeader \/ TakeBody
  BY <1>1, <1>2 DEF Pop, LoadCount, StoreCount, TakeHeader, TakeBody, Deliver, client
<1>3. CASE LoadBuffer \/ StoreBuffer \/ \E n \in 1..2 : Received(n)
  BY <1>1, <1>3 DEF LoadBuffer, StoreBuffer, Received, client
<1> QED BY <1>2, <1>3 DEF ReadData

LEMMA ClosedEffect ==
  ASSUME Shape, Closed
  PROVE  /\ Place = "closed"
         /\ \A u \in Closers : at'[u] = at[u]
         /\ UNCHANGED <<client, then, Others>>
         /\ \/ Place' = "except" /\ then = "lost" /\ UNCHANGED outcome
            \/ /\ Place' = "ended" /\ then # "lost"
               /\ outcome'[Reader] = IF then = "retry" /\ closed THEN "returned" ELSE then
<1>1. CASE then = "lost" /\ Goto("except")
  <2>1. "except" \in ReaderPlaces
    BY DEF ReaderPlaces
  <2> QED BY <1>1, <2>1, GotoEffect DEF Closed, At, Place, Others
<1>2. CASE /\ then # "lost"
           /\ Ends(Reader, IF then = "retry" /\ closed THEN "returned" ELSE then)
           /\ UNCHANGED <<client, then, Others>>
  <2>1. "ended" \in ReaderPlaces
    BY DEF ReaderPlaces, Closing
  <2>2. Place' = "ended" /\ \A u \in Closers : at'[u] = at[u]
    BY <1>2, <2>1, ReaderMoves DEF Ends
  <2>3. outcome'[Reader] = IF then = "retry" /\ closed THEN "returned" ELSE then
    BY <1>2 DEF Ends, Shape, Threads
  <2> QED BY <1>2, <2>2, <2>3 DEF Closed, At, Place
<1> QED BY <1>1, <1>2 DEF Closed

-----------------------------------------------------------------------------
LEMMA SocketStep ==
  ASSUME Shape, SocketClosedFirst, [Next]_vars
  PROVE  SocketClosedFirst'
<1> USE DEF client, Others
<1>1. CASE UNCHANGED vars
  BY <1>1 DEF vars, SocketClosedFirst, Place
<1>2. ASSUME UNCHANGED <<sock, fd>>, Place' \notin Closing, \A u \in Closers : at'[u] = at[u]
      PROVE  SocketClosedFirst'
  BY <1>2 DEF SocketClosedFirst, Threads, Place, Closing
<1>3. CASE ReadControl
  <2>1. CASE Place' = "close"
    BY <1>3, <2>1, ReadControlEffect DEF SocketClosedFirst, Threads, Place
  <2>2. CASE Place' # "close"
    BY <1>2, <1>3, <2>2, ReadControlEffect
       DEF Reading, BeforeFrame, OffQueue, InFrame, Receiving, Closing
  <2> QED BY <2>1, <2>2
<1>4. CASE ReadData
  BY <1>2, <1>4, ReadDataEffect DEF Reading, BeforeFrame, OffQueue, InFrame, Receiving, Closing
<1>5. CASE Closed
  BY <1>5, ClosedEffect DEF SocketClosedFirst, Threads, Place
<1>6. ASSUME NEW t \in Threads, CloseStep(t) PROVE SocketClosedFirst'
  <2>1. ASSUME NEW place, To(t, place)
        PROVE  at'[t] = place /\ \A u \in Threads : u # t => at'[u] = at[u]
    BY <2>1, Moves DEF Shape
  <2>2. CASE ClearBuffer(t) \/ ClearPending(t) \/ ClearBytes(t)
    BY <2>1, <2>2 DEF ClearBuffer, ClearPending, ClearBytes, SocketClosedFirst, Place, Threads
  <2>3. CASE TestSock(t)
    <3>1. sock' = sock /\ fd' = fd /\ at'[t] = IF sock THEN "close_socket" ELSE "closed"
      BY <2>1, <2>3 DEF TestSock
    <3>2. \A u \in Threads : u # t => at'[u] = at[u]
      BY <2>1, <2>3 DEF TestSock
    <3> QED BY <3>1, <3>2 DEF SocketClosedFirst, Place, Threads
  <2>4. CASE CloseSocket(t)
    <3>1. CASE sock /\ fd' = FALSE /\ To(t, "close_none")
      <4>1. ~fd' /\ at'[t] = "close_none" /\ \A u \in Threads : u # t => at'[u] = at[u]
        BY <2>1, <3>1
      <4>2. sock' = sock
        BY <2>4 DEF CloseSocket
      <4> QED BY <4>1, <4>2 DEF SocketClosedFirst, Place, Threads
    <3>2. CASE ~sock /\ UNCHANGED fd
      <4>1. PICK place \in {"close", "ended"} : To(t, place)
        BY <2>4, <3>2 DEF CloseSocket, Ends
      <4>2. at'[t] = place /\ \A u \in Threads : u # t => at'[u] = at[u]
        BY <2>1, <4>1
      <4>3. sock' = sock /\ ~sock
        BY <2>4, <3>2 DEF CloseSocket
      <4>4. \A u \in Threads : at'[u] = "close_none" => ~fd'
        BY <3>2, <4>2 DEF SocketClosedFirst
      <4>5. ~fd'
        BY <3>2 DEF SocketClosedFirst
      <4> QED BY <4>3, <4>4, <4>5 DEF SocketClosedFirst
    <3> QED BY <2>4, <3>1, <3>2 DEF CloseSocket
  <2>5. CASE ForgetSocket(t)
    <3>1. ~fd /\ fd' = fd /\ sock' = FALSE
      BY <2>5 DEF ForgetSocket, At, SocketClosedFirst
    <3> QED BY <3>1 DEF SocketClosedFirst
  <2> QED BY <1>6, <2>2, <2>3, <2>4, <2>5 DEF CloseStep
<1>7. ASSUME NEW t \in Closers, SetClosed(t) \/ CloseReturns(t) PROVE SocketClosedFirst'
  <2>1. t \in Threads
    BY DEF Threads
  <2>2. PICK place \in {"close", "ended"} : To(t, place)
    BY <1>7 DEF SetClosed, CloseReturns, Ends
  <2>3. at'[t] = place /\ \A u \in Threads : u # t => at'[u] = at[u]
    BY <2>1, <2>2, Moves DEF Shape
  <2>4. UNCHANGED <<sock, fd>>
    BY <1>7 DEF SetClosed, CloseReturns
  <2>5. Place' = Place
    BY <2>1, <2>2, Moves, ThreadAssumption DEF Shape
  <2> QED BY <2>3, <2>4, <2>5 DEF SocketClosedFirst
<1> QED BY <1>1, <1>3, <1>4, <1>5, <1>6, <1>7, ReadSplits DEF Next, Closer, Threads

(* Past ClearBuffer the buffer is empty, and so on: the reader is the only  *)
(* thread that fills anything, and it is not reading.                       *)
LEMMA EmptiedStep ==
  ASSUME Shape, EmptiedInOrder, [Next]_vars
  PROVE  EmptiedInOrder'
<1> USE DEF client, Others
<1>1. CASE UNCHANGED vars
  BY <1>1 DEF vars, EmptiedInOrder, Place
<1>2. CASE ReadControl
  BY <1>2, ReadControlEffect
     DEF EmptiedInOrder, Reading, BeforeFrame, OffQueue, InFrame, Receiving, Closing
<1>3. CASE ReadData
  BY <1>3, ReadDataEffect
     DEF EmptiedInOrder, Reading, BeforeFrame, OffQueue, InFrame, Receiving, Closing
<1>4. CASE Closed
  BY <1>4, ClosedEffect DEF EmptiedInOrder, Closing
<1>5. CASE CloseStep(Reader)
  <2>1. ASSUME NEW place, To(Reader, place) PROVE Place' = place
    BY <2>1, Moves DEF Shape, Threads
  <2>2. CASE ClearBuffer(Reader)
    BY <2>1, <2>2 DEF ClearBuffer, EmptiedInOrder, Closing
  <2>3. CASE ClearPending(Reader)
    BY <2>1, <2>3 DEF ClearPending, At, Place, EmptiedInOrder, Closing
  <2>4. CASE ClearBytes(Reader)
    BY <2>1, <2>4 DEF ClearBytes, At, Place, EmptiedInOrder, Closing
  <2>5. CASE TestSock(Reader) \/ CloseSocket(Reader) \/ ForgetSocket(Reader)
    <3>1. Place \in {"close_test", "close_socket", "close_none"} /\ UNCHANGED <<buffer, pending, pendingBytes>>
      BY <2>5 DEF TestSock, CloseSocket, ForgetSocket, At, Place
    <3> QED BY <3>1 DEF EmptiedInOrder, Closing
  <2> QED BY <1>5, <2>2, <2>3, <2>4, <2>5 DEF CloseStep
<1>6. ASSUME NEW t \in Closers, Closer(t) PROVE EmptiedInOrder'
  <2>1. /\ Place' = Place
        /\ buffer' = buffer \/ buffer' = <<>>
        /\ pending' = pending \/ pending' = <<>>
        /\ pendingBytes' = pendingBytes \/ pendingBytes' = 0
    BY <1>6, CloserEffect
  <2> QED BY <2>1 DEF EmptiedInOrder
<1> QED BY <1>1, <1>2, <1>3, <1>4, <1>5, <1>6, ReadSplits DEF Next

-----------------------------------------------------------------------------
LEMMA LateStep ==
  ASSUME Shape, LateIsLast, [Next]_vars
  PROVE  LateIsLast'
<1> USE DEF client, Others
<1>1. CASE UNCHANGED vars
  BY <1>1 DEF vars, LateIsLast, locals, Place
<1>2. CASE ReadControl
  <2>1. UNCHANGED <<late, closed>>
    BY <1>2, ReadControlEffect
  <2>2. CASE late = 0
    BY <2>1, <2>2 DEF LateIsLast
  <2>3. CASE late # 0
    <3>1. Iterate
      <4>1. Place \in {"iter", "ended"} \cup Closing
        BY <2>3 DEF LateIsLast
      <4> QED BY <1>2, <4>1
              DEF ReadControl, TestPending, PopFails, Find, Measure, RecvTest, SetTimeout,
                  CallRecv, Uses, RecvFails, RecvExpires, Handle, Wake, At, Place, Closing
    <3>2. CloseThen("returned")
      BY <2>3, <3>1 DEF Iterate, LateIsLast
    <3>3. Place' = "close" /\ then' = "returned"
      BY <3>2, CloseThenEffect
    <3> QED BY <2>1, <2>3, <3>3 DEF LateIsLast, Closing
  <2> QED BY <2>2, <2>3
<1>3. CASE ReadData
  <2>1. late = 0
    <3>1. Place \notin {"iter", "ended"} \cup Closing
      BY <1>3 DEF ReadData, Pop, LoadCount, StoreCount, TakeHeader, TakeBody, LoadBuffer,
                  StoreBuffer, Received, At, Place, Closing
    <3> QED BY <3>1 DEF LateIsLast
  <2>2. ASSUME NEW e, Deliver(e), closed' = closed PROVE LateIsLast'
    <3>1. Place' = "iter"
      <4>1. "iter" \in ReaderPlaces
        BY DEF ReaderPlaces, Reading, BeforeFrame
      <4> QED BY <2>2, <4>1, ReaderMoves DEF Deliver
    <3>2. late' = IF closed THEN 1 ELSE 0
      BY <2>1, <2>2 DEF Deliver, LateBound
    <3> QED BY <2>2, <3>1, <3>2 DEF LateIsLast
  <2>3. ASSUME UNCHANGED late PROVE LateIsLast'
    BY <2>1, <2>3 DEF LateIsLast
  <2> QED BY <1>3, <2>2, <2>3
          DEF ReadData, Pop, LoadCount, StoreCount, TakeHeader, TakeBody, LoadBuffer, StoreBuffer, Received
<1>4. CASE Closed
  <2>1. Place = "closed" /\ UNCHANGED <<late, closed, then>>
    BY <1>4, ClosedEffect
  <2>2. late # 0 => then = "returned"
    BY <2>1 DEF LateIsLast, Closing
  <2>3. late # 0 => Place' = "ended"
    BY <1>4, <2>2, ClosedEffect
  <2> QED BY <2>1, <2>3 DEF LateIsLast
<1>5. CASE CloseStep(Reader)
  <2>1. Place \in Closing \ {"ended"} /\ UNCHANGED <<late, closed>>
    BY <1>5 DEF CloseStep, ClearBuffer, ClearPending, ClearBytes, TestSock, CloseSocket,
                ForgetSocket, At, Place, Closing
  <2>2. ASSUME NEW place, To(Reader, place) PROVE Place' = place
    BY <2>2, Moves DEF Shape, Threads
  <2>3. Place' \in Closing
    BY <1>5, <2>2 DEF CloseStep, ClearBuffer, ClearPending, ClearBytes, TestSock, CloseSocket,
                ForgetSocket, Ends, Closing
  <2>4. late # 0 => then = "returned"
    BY <2>1 DEF LateIsLast, Closing
  <2>5. then = "returned" => then' = "returned"
    BY <1>5 DEF CloseStep, ClearBuffer, ClearPending, ClearBytes, TestSock, CloseSocket, ForgetSocket
  <2> QED BY <2>1, <2>3, <2>4, <2>5 DEF LateIsLast
<1>6. ASSUME NEW t \in Closers, Closer(t) PROVE LateIsLast'
  <2>1. Place' = Place /\ late' = late /\ then' = then /\ (closed => closed')
    BY <1>6, CloserEffect DEF locals
  <2> QED BY <2>1 DEF LateIsLast, Shape
<1> QED BY <1>1, <1>2, <1>3, <1>4, <1>5, <1>6, ReadSplits DEF Next

(* Until close() has begun no other thread does anything but begin it.      *)
LEMMA OnlyBegins ==
  ASSUME Shape, TestsHold, ~closed, NEW t \in Closers, Closer(t)
  PROVE  SetClosed(t)
<1>1. at[t] = "start"
  BY DEF TestsHold
<1> QED BY <1>1 DEF Closer, CloseStep, ClearBuffer, ClearPending, ClearBytes, TestSock,
                    CloseSocket, ForgetSocket, CloseReturns, At

(* Without close() in another thread only the reader acts, and what it      *)
(* tests still holds when it uses it.                                       *)
LEMMA TestsStep ==
  ASSUME Shape, SocketClosedFirst, TestsHold, [Next]_vars
  PROVE  TestsHold'
<1> USE DEF client, Others
<1>0. SUFFICES ASSUME ~closed' PROVE TestsHold'
  BY DEF TestsHold
<1>1. CASE UNCHANGED vars
  BY <1>1 DEF vars, TestsHold, locals, Place
<1>2. ASSUME NEW t \in Closers, Closer(t) PROVE FALSE
  <2>1. ~closed
    BY <1>0, <1>2, CloserEffect
  <2>2. SetClosed(t)
    BY <1>2, <2>1, OnlyBegins
  <2> QED BY <1>0, <2>2 DEF SetClosed
<1>3. CASE ReadControl
  <2>1. /\ ~closed /\ \A u \in Closers : at'[u] = at[u]
        /\ UNCHANGED <<client, outcome>>
    BY <1>0, <1>3, ReadControlEffect
  <2>2. then \notin Failures /\ outcome[Reader] \notin Failures /\ \A u \in Closers : at[u] = "start"
    BY <2>1 DEF TestsHold
  <2>3. ASSUME NEW why \in {"none", "lost", "returned", "retry"}, CloseThen(why) PROVE TestsHold'
    <3>1. Place' = "close" /\ then' = why
      BY <2>3, CloseThenEffect
    <3> QED BY <2>1, <2>2, <3>1 DEF TestsHold, Failures
  <2>4. ASSUME NEW place \in ReaderPlaces, Goto(place),
               place \in {"settimeout", "recv", "waiting"} => sock,
               place = "pop" => pending # <<>>,
               place \in {"take", "take_body"} => buffer # <<>>,
               place \notin {"store", "close_socket"}
        PROVE  TestsHold'
    <3>1. Place' = place /\ then' = then
      BY <2>4, GotoEffect
    <3> QED BY <2>1, <2>2, <2>4, <3>1 DEF TestsHold
  <2> USE DEF ReaderPlaces, Reading, BeforeFrame, InFrame, Receiving
  <2>5. CASE Iterate \/ TestPending \/ Find \/ Measure \/ RecvTest
    BY <2>1, <2>3, <2>4, <2>5 DEF Iterate, TestPending, Find, Measure, RecvTest
  <2>6. CASE PopFails
    BY <2>1, <2>6 DEF PopFails, TestsHold, At, Place
  <2>7. CASE SetTimeout \/ CallRecv
    <3>1. sock
      BY <2>1, <2>7 DEF SetTimeout, CallRecv, Uses, At, Place, TestsHold
    <3> QED BY <2>3, <2>4, <2>7, <3>1 DEF SetTimeout, CallRecv, Uses
  <2>8. CASE RecvFails \/ Handle \/ Wake
    BY <2>1, <2>3, <2>4, <2>8 DEF RecvFails, Handle, Wake
  <2>9. CASE RecvExpires
    BY <2>3, <2>4, <2>9 DEF RecvExpires
  <2> QED BY <1>3, <2>5, <2>6, <2>7, <2>8, <2>9 DEF ReadControl
<1>4. CASE ReadData
  <2>1. /\ ~closed /\ \A u \in Closers : at'[u] = at[u]
        /\ UNCHANGED <<sock, then, outcome>>
    BY <1>0, <1>4, ReadDataEffect
  <2>2. then \notin Failures /\ outcome[Reader] \notin Failures /\ \A u \in Closers : at[u] = "start"
    BY <2>1 DEF TestsHold
  <2>3. Place' \in {"count", "uncount", "iter", "body", "recv_test", "find", "store"}
    <3>1. ASSUME NEW place \in Reading, To(Reader, place) PROVE Place' = place
      BY <3>1, ReaderMoves DEF ReaderPlaces
    <3> QED BY <1>4, <3>1 DEF ReadData, Pop, LoadCount, StoreCount, TakeHeader, TakeBody, Deliver,
                LoadBuffer, StoreBuffer, Received, Reading, BeforeFrame, OffQueue, InFrame, Receiving
  <2>4. Place' = "store" => sock
    <3>1. ASSUME NEW place \in Reading, To(Reader, place) PROVE Place' = place
      BY <3>1, ReaderMoves DEF ReaderPlaces
    <3>2. Place = "waiting" => sock
      BY <2>1 DEF TestsHold
    <3> QED BY <1>4, <3>1, <3>2 DEF ReadData, Pop, LoadCount, StoreCount, TakeHeader, TakeBody, Deliver,
                LoadBuffer, StoreBuffer, Received, Reading, BeforeFrame, OffQueue, InFrame, Receiving, At, Place
  <2> QED BY <2>1, <2>2, <2>3, <2>4 DEF TestsHold
<1>5. CASE Closed
  <2>1. /\ Place' \in {"except", "ended"} /\ \A u \in Closers : at'[u] = at[u]
        /\ UNCHANGED <<closed, then>>
        /\ outcome'[Reader] = outcome[Reader] \/ outcome'[Reader] \in {"returned", then}
    BY <1>5, ClosedEffect
  <2>2. then \notin Failures /\ outcome[Reader] \notin Failures /\ \A u \in Closers : at[u] = "start"
    BY <1>0, <2>1 DEF TestsHold
  <2> QED BY <2>1, <2>2 DEF TestsHold, Failures
<1>6. CASE CloseStep(Reader)
  <2>1. ~closed
    BY <1>0, <1>6 DEF CloseStep, ClearBuffer, ClearPending, ClearBytes, TestSock, CloseSocket, ForgetSocket
  <2>2. /\ then \notin Failures /\ outcome[Reader] \notin Failures /\ \A u \in Closers : at[u] = "start"
        /\ Place = "close_socket" => sock
    BY <2>1 DEF TestsHold
  <2>3. ASSUME NEW place \in Closing \ {"close_socket"}, To(Reader, place), UNCHANGED <<then, outcome>>
        PROVE  TestsHold'
    <3>1. Place' = place /\ \A u \in Closers : at'[u] = at[u]
      BY <2>3, ReaderMoves DEF ReaderPlaces
    <3> QED BY <2>2, <2>3, <3>1 DEF TestsHold, Closing
  <2>4. CASE ClearBuffer(Reader) \/ ClearPending(Reader) \/ ClearBytes(Reader) \/ ForgetSocket(Reader)
    BY <2>3, <2>4 DEF ClearBuffer, ClearPending, ClearBytes, ForgetSocket, Closing
  <2>5. CASE TestSock(Reader)
    <3>1. /\ Place' \in {"close_socket", "closed"} /\ \A u \in Closers : at'[u] = at[u]
          /\ Place' = "close_socket" => sock
      BY <2>5, ReaderMoves DEF TestSock, ReaderPlaces, Closing
    <3>2. UNCHANGED <<sock, then, outcome>>
      BY <2>5 DEF TestSock
    <3> QED BY <2>2, <3>1, <3>2 DEF TestsHold
  <2>6. CASE CloseSocket(Reader)
    <3>1. sock
      BY <2>2, <2>6 DEF CloseSocket, At, Place
    <3> QED BY <2>3, <2>6, <3>1 DEF CloseSocket, Closing
  <2> QED BY <1>6, <2>4, <2>5, <2>6 DEF CloseStep
<1> QED BY <1>1, <1>2, <1>3, <1>4, <1>5, <1>6, ReadSplits DEF Next

-----------------------------------------------------------------------------
(* The stream. *)
LEMMA UnitTail ==
  ASSUME NEW s \in Seq(Unit), s # <<>>
  PROVE  /\ Len(s) \in Nat \ {0} /\ Head(s) = s[1] /\ s[1] \in Unit
         /\ Len(Tail(s)) = Len(s) - 1
         /\ \A i \in 1..Len(Tail(s)) : Tail(s)[i] = s[i + 1]
<1>1. Len(s) \in Nat \ {0}
  BY EmptySeq, LenProperties
<1> QED BY <1>1, HeadTailProperties, ElementOfSeq

LEMMA NumberTail ==
  ASSUME NEW s \in Seq(Nat), s # <<>>
  PROVE  /\ Len(s) \in Nat \ {0} /\ Head(s) = s[1] /\ s[1] \in Nat
         /\ Len(Tail(s)) = Len(s) - 1
         /\ \A i \in 1..Len(Tail(s)) : Tail(s)[i] = s[i + 1]
<1>1. Len(s) \in Nat \ {0}
  BY EmptySeq, LenProperties
<1> QED BY <1>1, HeadTailProperties, ElementOfSeq

LEMMA Cut ==
  ASSUME NEW s \in Seq(Unit), NEW n \in 1..Len(s)
  PROVE  /\ Len(SubSeq(s, 1, n)) = n /\ \A i \in 1..n : SubSeq(s, 1, n)[i] = s[i]
         /\ Len(SubSeq(s, n + 1, Len(s))) = Len(s) - n
         /\ \A i \in 1..Len(s) - n : SubSeq(s, n + 1, Len(s))[i] = s[n + i]
<1>1. Len(s) \in Nat
  BY LenProperties
<1>2. Len(SubSeq(s, 1, n)) = n /\ \A i \in 1..n : SubSeq(s, 1, n)[i] = s[i]
  BY <1>1, SubSeqProperties
<1>3. /\ Len(SubSeq(s, n + 1, Len(s))) = Len(s) - n
      /\ \A i \in 1..Len(s) - n : SubSeq(s, n + 1, Len(s))[i] = s[n + i]
  BY <1>1, SubSeqProperties
<1> QED BY <1>2, <1>3

LEMMA UnitConcat ==
  ASSUME NEW s \in Seq(Unit), NEW t \in Seq(Unit)
  PROVE  /\ Len(s \o t) = Len(s) + Len(t)
         /\ \A i \in 1..Len(s) : (s \o t)[i] = s[i]
         /\ \A i \in 1..Len(s \o t) : i > Len(s) => (s \o t)[i] = t[i - Len(s)]
                                                    /\ i - Len(s) \in 1..Len(t)
<1>1. Len(s) \in Nat /\ Len(t) \in Nat
  BY LenProperties
<1> QED BY <1>1, ConcatProperties

(* What the switch sends, by position. *)
LEMMA UnitsPositioned ==
  ASSUME NEW n \in 0..MaxEvents
  PROVE  /\ Units(n + 1, MaxEvents) \in Seq(Unit)
         /\ Len(Units(n + 1, MaxEvents)) = 2 * MaxEvents - 2 * n
         /\ \A i \in 1 .. 2 * MaxEvents - 2 * n :
              Position(Units(n + 1, MaxEvents)[i]) = 2 * n + i
<1> USE BoundAssumption
<1> DEFINE m == 2 * MaxEvents - 2 * n
           f == [i \in 1..m |-> [event |-> (n + 1) + (i - 1) \div 2,
                                 part |-> IF i % 2 = 1 THEN "head" ELSE "body"]]
<1>1. m \in Nat /\ 2 * (MaxEvents - (n + 1) + 1) = m
  OBVIOUS
<1>2. Units(n + 1, MaxEvents) = f
  BY <1>1 DEF Units
<1>3. ASSUME NEW i \in 1..m PROVE f[i] \in Unit /\ Position(f[i]) = 2 * n + i
  <2> DEFINE e == (n + 1) + (i - 1) \div 2
  <2>1. e \in Nat
    BY <1>1
  <2>2. f[i] = [event |-> e, part |-> IF i % 2 = 1 THEN "head" ELSE "body"]
    OBVIOUS
  <2>3. f[i] \in Unit /\ f[i].event = e /\ (f[i].part = "head" <=> i % 2 = 1)
    BY <2>1, <2>2 DEF Unit
  <2>4. 2 * e - (IF i % 2 = 1 THEN 1 ELSE 0) = 2 * n + i
    BY <1>1
  <2> HIDE DEF e, f
  <2> QED BY <2>3, <2>4 DEF Position
<1>4. f \in Seq(Unit) /\ Len(f) = m
  <2> HIDE DEF m
  <2>1. f \in [1..m -> Unit]
    BY <1>3
  <2>2. f \in Seq(Unit)
    BY <1>1, <2>1
  <2>3. DOMAIN f = 1..m
    OBVIOUS
  <2> HIDE DEF f
  <2> QED BY <1>1, <2>2, <2>3, LenProperties
<1> HIDE DEF f
<1> QED BY <1>2, <1>3, <1>4

LEMMA WireStep ==
  ASSUME Shape, WirePositioned, [Next]_vars
  PROVE  WirePositioned'
<1> USE DEF client, Others
<1>1. ASSUME UNCHANGED wire PROVE WirePositioned'
  BY <1>1 DEF WirePositioned
<1>2. ASSUME NEW n \in 1..2, Received(n) PROVE WirePositioned'
  <2>1. wire \in Seq(Unit) /\ n \in 1..Len(wire) /\ wire' = SubSeq(wire, n + 1, Len(wire))
        /\ Len(wire) \in Nat
    BY <1>2, LenProperties DEF Received, Shape
  <2>2. Len(wire') = Len(wire) - n /\ \A i \in 1..Len(wire) - n : wire'[i] = wire[n + i]
    BY <2>1, Cut
  <2>3. Len(wire') <= 2 * MaxEvents
    BY <2>1, <2>2, BoundAssumption DEF WirePositioned
  <2>4. ASSUME NEW i \in 1..Len(wire') PROVE Position(wire'[i]) = 2 * MaxEvents - Len(wire') + i
    <3> DEFINE k == Len(wire)
    <3>0. k \in Nat /\ n \in 1..k /\ Len(wire') = k - n /\ i \in 1..(k - n)
      BY <2>1, <2>2
    <3>1. wire'[i] = wire[n + i]
      BY <2>2, <3>0
    <3> HIDE DEF k
    <3>2. n + i \in 1..k
      BY <3>0
    <3>3. Position(wire[n + i]) = 2 * MaxEvents - k + (n + i)
      BY <3>2 DEF WirePositioned, k
    <3>4. 2 * MaxEvents - k + (n + i) = 2 * MaxEvents - (k - n) + i
      BY <3>0, BoundAssumption
    <3> QED BY <3>0, <3>1, <3>3, <3>4
  <2> QED BY <2>3, <2>4 DEF WirePositioned, Position
<1>3. CASE UNCHANGED vars \/ ReadControl \/ Closed \/ CloseStep(Reader)
  BY <1>1, <1>3, ReadControlEffect, ClosedEffect
     DEF vars, CloseStep, ClearBuffer, ClearPending, ClearBytes, TestSock, CloseSocket, ForgetSocket
<1>4. CASE ReadData
  BY <1>1, <1>2, <1>4 DEF ReadData, Pop, LoadCount, StoreCount, TakeHeader, TakeBody, LoadBuffer, StoreBuffer
<1>5. ASSUME NEW t \in Closers, Closer(t) PROVE WirePositioned'
  BY <1>1, <1>5, CloserEffect
<1> QED BY <1>3, <1>4, <1>5, ReadSplits DEF Next

LEMMA ChunkStep ==
  ASSUME Shape, ChunkOnlyToStore, [Next]_vars
  PROVE  ChunkOnlyToStore'
<1> USE DEF client, Others
<1>1. ASSUME Place # "store", UNCHANGED chunk PROVE ChunkOnlyToStore'
  BY <1>1 DEF ChunkOnlyToStore
<1>2. CASE ReadControl
  BY <1>1, <1>2, ReadControlEffect
<1>3. CASE Closed
  BY <1>1, <1>3, ClosedEffect
<1>4. CASE CloseStep(Reader)
  BY <1>1, <1>4 DEF CloseStep, ClearBuffer, ClearPending, ClearBytes, TestSock, CloseSocket,
                    ForgetSocket, At, Place
<1>5. CASE ReadData
  <2>1. CASE Pop \/ LoadCount \/ StoreCount \/ TakeHeader \/ TakeBody \/ LoadBuffer
    BY <1>1, <2>1 DEF Pop, LoadCount, StoreCount, TakeHeader, TakeBody, LoadBuffer, At, Place
  <2>2. CASE StoreBuffer
    BY <2>2 DEF StoreBuffer, ChunkOnlyToStore
  <2>3. ASSUME NEW n \in 1..2, Received(n) PROVE ChunkOnlyToStore'
    <3>1. "store" \in ReaderPlaces
      BY DEF ReaderPlaces, Reading
    <3>2. Place' = "store"
      BY <2>3, <3>1, ReaderMoves DEF Received
    <3> QED BY <3>2 DEF ChunkOnlyToStore
  <2> QED BY <1>5, <2>1, <2>2, <2>3 DEF ReadData
<1>6. ASSUME NEW t \in Closers, Closer(t) PROVE ChunkOnlyToStore'
  BY <1>6, CloserEffect DEF locals, ChunkOnlyToStore
<1>7. CASE UNCHANGED vars
  BY <1>7 DEF vars, locals, Place, ChunkOnlyToStore
<1> QED BY <1>2, <1>3, <1>4, <1>5, <1>6, <1>7, ReadSplits DEF Next

-----------------------------------------------------------------------------
(* Before close().  A step that only moves the reader, within a frame or    *)
(* between frames, skips nothing.                                           *)
LEMMA MoveSkipsNothing ==
  ASSUME NothingSkipped, ~closed, Place \in Reading, Place' \in Reading,
         UNCHANGED <<buffer, chunk, wire, pending, head, delivered>>,
         Place \in OffQueue <=> Place' \in OffQueue,
         MidFrame' <=> MidFrame,
         Place' \in Receiving \cup {"store"} => old' = buffer,
         Place' \notin BeforeFrame \cup OffQueue \/ Place' \in {"find", "take"} => pending = <<>>
  PROVE  NothingSkipped'
<1>1. Gone' = Gone
  BY DEF Gone
<1>2. /\ \A i \in 1..Len(buffer) : Position(buffer[i]) = Gone + i
      /\ \A i \in 1..Len(chunk) : Position(chunk[i]) = Gone + Len(buffer) + i
      /\ \A i \in 1..Len(pending) :
           pending[i] = delivered + i + (IF Place \in OffQueue THEN 1 ELSE 0)
      /\ Place \in OffQueue => head = delivered + 1 /\ Gone = 2 * (delivered + 1 + Len(pending))
      /\ MidFrame => head = delivered + 1 /\ Gone = 2 * delivered + 1
      /\ ~MidFrame /\ Place \notin OffQueue => head = 0 /\ Gone = 2 * (delivered + Len(pending))
  BY DEF NothingSkipped
<1> QED BY <1>1, <1>2 DEF NothingSkipped, Position

LEMMA SkipControl ==
  ASSUME Shape, ChunkOnlyToStore, NothingSkipped, ~closed, ReadControl
  PROVE  NothingSkipped'
<1>1. UNCHANGED <<buffer, chunk, wire, pending, head, delivered, old>>
  BY ReadControlEffect DEF client
<1>2. ASSUME NEW place \in ReaderPlaces, Goto(place) PROVE Place' = place
  BY <1>2, GotoEffect
<1>3. ASSUME NEW why, CloseThen(why) PROVE NothingSkipped'
  BY <1>3, CloseThenEffect
     DEF NothingSkipped, Reading, BeforeFrame, OffQueue, InFrame, Receiving
<1> USE DEF ReaderPlaces, Reading, BeforeFrame, OffQueue, InFrame, Receiving, At, Place
<1> HIDE DEF Place
<1>4. CASE Iterate
  <2>1. Place = "iter" /\ Place' = "pending"
    BY <1>2, <1>4 DEF Iterate, At, Place
  <2> QED BY <1>1, <2>1, MoveSkipsNothing DEF MidFrame
<1>5. CASE TestPending
  <2>1. /\ Place = "pending" /\ Place' \in {"pop", "find"}
        /\ Place' = "find" => pending = <<>>
    BY <1>2, <1>5 DEF TestPending, At, Place
  <2> QED BY <1>1, <2>1, MoveSkipsNothing DEF MidFrame
<1>6. CASE PopFails \/ RecvFails \/ Wake
  BY <1>3, <1>6 DEF PopFails, RecvFails, Wake
<1>7. CASE Find
  <2>1. Place = "find" /\ Place' \in {"take", "load"}
    BY <1>2, <1>7 DEF Find, At, Place
  <2>2. pending = <<>> /\ head = 0
    BY <2>1 DEF NothingSkipped, MidFrame
  <2> QED BY <1>1, <2>1, <2>2, MoveSkipsNothing DEF MidFrame
<1>8. CASE Measure
  <2>1. Place = "body" /\ Place' \in {"take_body", "load"}
    BY <1>2, <1>8 DEF Measure, At, Place
  <2>2. pending = <<>> /\ head = delivered + 1
    BY <2>1 DEF NothingSkipped, MidFrame
  <2>3. head # 0
    BY <2>2 DEF Shape
  <2> QED BY <1>1, <2>1, <2>2, <2>3, MoveSkipsNothing DEF MidFrame
<1>9. CASE RecvTest \/ SetTimeout \/ CallRecv
  <2>1. CASE \E why : CloseThen(why)
    BY <1>3, <2>1
  <2>2. CASE ~\E why : CloseThen(why)
    <3>1. Place \in {"recv_test", "settimeout", "recv"} /\ Place' \in {"settimeout", "except", "recv", "waiting"}
      BY <1>2, <1>9, <2>2 DEF RecvTest, SetTimeout, CallRecv, Uses, At, Place
    <3>2. old = buffer /\ pending = <<>>
      BY <3>1 DEF NothingSkipped
    <3>3. CASE Place' = "except"
      BY <3>3 DEF NothingSkipped
    <3>4. CASE Place' # "except"
      BY <1>1, <3>1, <3>2, <3>4, MoveSkipsNothing DEF MidFrame
    <3> QED BY <3>3, <3>4
  <2> QED BY <2>1, <2>2
<1>10. CASE RecvExpires
  <2>1. CASE \E why : CloseThen(why)
    BY <1>3, <2>1
  <2>2. CASE ~\E why : CloseThen(why)
    <3>1. Place = "waiting" /\ Place' = "iter" /\ head = 0
      BY <1>2, <1>10, <2>2 DEF RecvExpires, At, Place
    <3> QED BY <1>1, <3>1, MoveSkipsNothing DEF MidFrame
  <2> QED BY <2>1, <2>2
<1>11. CASE Handle
  <2>1. Place' = "sleep"
    BY <1>2, <1>11 DEF Handle
  <2> QED BY <2>1 DEF NothingSkipped
<1> QED BY <1>4, <1>5, <1>6, <1>7, <1>8, <1>9, <1>10, <1>11 DEF ReadControl

LEMMA Counts ==
  ASSUME Shape
  PROVE  /\ Len(buffer) \in Nat /\ Len(chunk) \in Nat /\ Len(wire) \in Nat /\ Len(old) \in Nat
         /\ Len(pending) \in Nat /\ Gone \in Int /\ MaxEvents \in Nat
         /\ delivered \in Nat /\ head \in Nat
  BY LenProperties, BoundAssumption DEF Shape, Gone

(* The unit the reader takes next. *)
LEMMA PositionOfHead ==
  ASSUME NEW u \in Unit, NEW d \in Nat
  PROVE  /\ Position(u) = 2 * d + 1 => u.event = d + 1 /\ u.part = "head"
         /\ Position(u) = 2 * d + 2 => u.event = d + 1 /\ u.part = "body"
  BY DEF Unit, Position

LEMMA SkipData ==
  ASSUME Shape, TestsHold, WirePositioned, ChunkOnlyToStore, NothingSkipped, ~closed, ReadData
  PROVE  NothingSkipped'
<1>n. /\ Len(buffer) \in Nat /\ Len(chunk) \in Nat /\ Len(wire) \in Nat /\ Len(old) \in Nat
      /\ Len(pending) \in Nat /\ Gone \in Int /\ MaxEvents \in Nat
      /\ delivered \in Nat /\ head \in Nat
  BY Counts
<1>0. ASSUME NEW place \in Reading, To(Reader, place) PROVE Place' = place
  BY <1>0, ReaderMoves DEF ReaderPlaces
<1> USE <1>n DEF client, Reading, BeforeFrame, OffQueue, InFrame, Receiving
<1>1. CASE Pop
  <2>1. /\ Place = "pop" /\ Place' = "count" /\ pending # <<>>
        /\ head' = Head(pending) /\ pending' = Tail(pending)
        /\ UNCHANGED <<buffer, chunk, wire, delivered, old>>
    BY <1>0, <1>1 DEF Pop, At, Place
  <2>2. /\ Len(pending) \in Nat \ {0} /\ head' = pending[1] /\ Len(pending') = Len(pending) - 1
        /\ \A i \in 1..Len(pending') : pending'[i] = pending[i + 1]
    BY <2>1, NumberTail DEF Shape
  <2>3. /\ \A i \in 1..Len(buffer) : Position(buffer[i]) = Gone + i
        /\ \A i \in 1..Len(chunk) : Position(chunk[i]) = Gone + Len(buffer) + i
        /\ Gone = 2 * (delivered + Len(pending))
    BY <2>1 DEF NothingSkipped, MidFrame
  <2>0. ASSUME NEW i \in 1..Len(pending) PROVE pending[i] = delivered + i
    <3>1. pending[i] = delivered + i + 0
      BY <2>1 DEF NothingSkipped
    <3> QED BY <3>1
  <2>4. Gone' = Gone
    BY <2>1 DEF Gone
  <2>5. head' = delivered + 1 /\ Gone = 2 * (delivered + 1 + Len(pending'))
    BY <2>0, <2>2, <2>3
  <2>6. ASSUME NEW i \in 1..Len(pending') PROVE pending'[i] = delivered + i + 1
    <3>1. pending'[i] = pending[i + 1] /\ i + 1 \in 1..Len(pending)
      BY <2>2
    <3>2. pending[i + 1] = delivered + (i + 1)
      BY <2>0, <3>1
    <3> QED BY <3>1, <3>2
  <2> QED BY <2>1, <2>3, <2>4, <2>5, <2>6 DEF NothingSkipped, MidFrame, Position
<1>2. CASE LoadCount
  <2>1. /\ Place = "count" /\ Place' = "uncount"
        /\ UNCHANGED <<buffer, chunk, wire, pending, head, delivered>>
    BY <1>0, <1>2 DEF LoadCount, At, Place
  <2> QED BY <2>1, MoveSkipsNothing DEF MidFrame
<1>3. CASE StoreCount
  <2>1. /\ Place = "uncount" /\ Place' = "iter"
        /\ head' = 0 /\ delivered' = head
        /\ UNCHANGED <<buffer, chunk, wire, pending, old>>
    BY <1>0, <1>3 DEF StoreCount, Deliver, At, Place
  <2>2. /\ \A i \in 1..Len(buffer) : Position(buffer[i]) = Gone + i
        /\ \A i \in 1..Len(chunk) : Position(chunk[i]) = Gone + Len(buffer) + i
        /\ \A i \in 1..Len(pending) : pending[i] = delivered + i + 1
        /\ head = delivered + 1 /\ Gone = 2 * (delivered + 1 + Len(pending))
    BY <2>1 DEF NothingSkipped
  <2>3. Gone' = Gone
    BY <2>1 DEF Gone
  <2>4. ASSUME NEW i \in 1..Len(pending) PROVE pending[i] = delivered' + i
    <3>1. pending[i] = delivered + i + 1 /\ delivered' = delivered + 1
      BY <2>1, <2>2
    <3> QED BY <3>1
  <2>5. Gone = 2 * (delivered' + Len(pending))
    BY <2>1, <2>2
  <2> QED BY <2>1, <2>2, <2>3, <2>4, <2>5 DEF NothingSkipped, MidFrame, Position
<1>4. CASE TakeHeader
  <2>1. Place = "take" /\ buffer # <<>>
    BY <1>4 DEF TakeHeader, At, Place, TestsHold
  <2>2. /\ Place' = "body" /\ head' = Head(buffer).event /\ buffer' = Tail(buffer)
        /\ UNCHANGED <<chunk, wire, pending, delivered, old>> /\ chunk = <<>>
    BY <1>0, <1>4, <2>1 DEF TakeHeader, ChunkOnlyToStore
  <2>3. /\ Len(buffer) \in Nat \ {0} /\ Head(buffer) = buffer[1] /\ buffer[1] \in Unit
        /\ Len(buffer') = Len(buffer) - 1
        /\ \A i \in 1..Len(buffer') : buffer'[i] = buffer[i + 1]
    BY <2>1, <2>2, UnitTail DEF Shape
  <2>4. /\ \A i \in 1..Len(buffer) : Position(buffer[i]) = Gone + i
        /\ pending = <<>> /\ Gone = 2 * delivered
    BY <2>1 DEF NothingSkipped, MidFrame
  <2>5. Gone' = Gone + 1 /\ Gone \in Int
    BY <2>2, <2>3 DEF Gone
  <2>6. Position(buffer[1]) = 2 * delivered + 1
    BY <2>3, <2>4
  <2>7. head' = delivered + 1
    BY <2>2, <2>3, <2>6, PositionOfHead
  <2>8. \A i \in 1..Len(buffer') : Position(buffer'[i]) = Gone' + i
    <3>1. ASSUME NEW i \in 1..Len(buffer') PROVE Position(buffer'[i]) = Gone' + i
      <4>1. buffer'[i] = buffer[i + 1] /\ i + 1 \in 1..Len(buffer)
        BY <2>3
      <4>2. Position(buffer[i + 1]) = Gone + (i + 1)
        BY <2>4, <4>1
      <4> QED BY <2>5, <4>1, <4>2
    <3> QED BY <3>1
  <2>9. Len(chunk') = 0 /\ Len(pending') = 0 /\ pending' = <<>>
    BY <2>2, <2>4
  <2>10. Gone' = 2 * delivered' + 1 /\ head' = delivered' + 1
    BY <2>2, <2>4, <2>5, <2>7
  <2> QED BY <2>2, <2>8, <2>9, <2>10 DEF NothingSkipped, MidFrame, Position
<1>5. CASE TakeBody
  <2>1. Place = "take_body" /\ buffer # <<>> /\ chunk = <<>>
    BY <1>5 DEF TakeBody, At, Place, TestsHold, ChunkOnlyToStore
  <2>2. /\ buffer' = Tail(buffer) /\ UNCHANGED <<chunk, wire, pending, old>>
    BY <1>5, <2>1 DEF TakeBody
  <2>3. /\ Len(buffer) \in Nat \ {0} /\ Head(buffer) = buffer[1] /\ buffer[1] \in Unit
        /\ Len(buffer') = Len(buffer) - 1
        /\ \A i \in 1..Len(buffer') : buffer'[i] = buffer[i + 1]
    BY <2>1, <2>2, UnitTail DEF Shape
  <2>4. /\ \A i \in 1..Len(buffer) : Position(buffer[i]) = Gone + i
        /\ pending = <<>> /\ Gone = 2 * delivered + 1
    BY <2>1 DEF NothingSkipped, MidFrame
  <2>5. Position(buffer[1]) = 2 * delivered + 2
    BY <2>3, <2>4
  <2>6. Head(buffer).part = "body" /\ Head(buffer).event = delivered + 1
    BY <2>3, <2>5, PositionOfHead
  <2>7. delivered' = delivered + 1 /\ head' = 0 /\ Place' = "iter"
    BY <1>0, <1>5, <2>1, <2>6 DEF TakeBody, Deliver
  <2>8. Gone' = Gone + 1 /\ Gone \in Int
    BY <2>2, <2>3 DEF Gone
  <2>9. \A i \in 1..Len(buffer') : Position(buffer'[i]) = Gone' + i
    <3>1. ASSUME NEW i \in 1..Len(buffer') PROVE Position(buffer'[i]) = Gone' + i
      <4>1. buffer'[i] = buffer[i + 1] /\ i + 1 \in 1..Len(buffer)
        BY <2>3
      <4>2. Position(buffer[i + 1]) = Gone + (i + 1)
        BY <2>4, <4>1
      <4> QED BY <2>8, <4>1, <4>2
    <3> QED BY <3>1
  <2>10. Len(chunk') = 0 /\ Len(pending') = 0
    BY <2>1, <2>2, <2>4
  <2>11. Gone' = 2 * (delivered' + Len(pending'))
    <3>1. Gone' = (2 * delivered + 1) + 1 /\ 2 * (delivered' + Len(pending')) = 2 * ((delivered + 1) + 0)
      BY <2>4, <2>7, <2>8, <2>10
    <3> QED BY <3>1
  <2> QED BY <2>7, <2>9, <2>10, <2>11 DEF NothingSkipped, MidFrame, Position
<1>6. CASE LoadBuffer
  <2>1. /\ Place = "load" /\ Place' = "recv_test" /\ old' = buffer
        /\ UNCHANGED <<buffer, chunk, wire, pending, head, delivered>>
    BY <1>0, <1>6 DEF LoadBuffer, At, Place
  <2>2. pending = <<>>
    BY <2>1 DEF NothingSkipped
  <2> QED BY <2>1, <2>2, MoveSkipsNothing DEF MidFrame
<1>7. CASE StoreBuffer
  <2>1. /\ Place = "store" /\ Place' \in {"find", "body"} /\ (Place' = "find" <=> head = 0)
        /\ buffer' = old \o chunk /\ chunk' = <<>>
        /\ UNCHANGED <<wire, pending, head, delivered>>
    BY <1>0, <1>7 DEF StoreBuffer, At, Place
  <2>2. /\ \A i \in 1..Len(buffer) : Position(buffer[i]) = Gone + i
        /\ \A i \in 1..Len(chunk) : Position(chunk[i]) = Gone + Len(buffer) + i
        /\ old = buffer /\ pending = <<>>
        /\ head # 0 => head = delivered + 1 /\ Gone = 2 * delivered + 1
        /\ head = 0 => Gone = 2 * (delivered + Len(pending))
    BY <2>1 DEF NothingSkipped, MidFrame
  <2>3. buffer \in Seq(Unit) /\ chunk \in Seq(Unit) /\ buffer' = buffer \o chunk
    BY <2>1, <2>2 DEF Shape
  <2>4. /\ Len(buffer') = Len(buffer) + Len(chunk)
        /\ \A i \in 1..Len(buffer) : buffer'[i] = buffer[i]
        /\ \A i \in 1..Len(buffer') :
             i > Len(buffer) => buffer'[i] = chunk[i - Len(buffer)] /\ i - Len(buffer) \in 1..Len(chunk)
    BY <2>3, UnitConcat
  <2>5. Gone' = Gone
    <3>1. Len(chunk') = 0
      BY <2>1
    <3> QED BY <2>1, <2>4, <3>1 DEF Gone
  <2>6. ASSUME NEW i \in 1..Len(buffer') PROVE Position(buffer'[i]) = Gone + i
    <3>1. CASE i <= Len(buffer)
      BY <2>2, <2>4, <3>1
    <3>2. CASE i > Len(buffer)
      <4>1. Position(chunk[i - Len(buffer)]) = Gone + Len(buffer) + (i - Len(buffer))
        BY <2>2, <2>4, <3>2
      <4> QED BY <2>4, <3>2, <4>1
    <3> QED BY <3>1, <3>2
  <2>7. Len(chunk') = 0 /\ Len(pending') = 0
    BY <2>1, <2>2
  <2> QED BY <2>1, <2>2, <2>5, <2>6, <2>7 DEF NothingSkipped, MidFrame, Position
<1>8. ASSUME NEW n \in 1..2, Received(n) PROVE NothingSkipped'
  <2>1. /\ Place = "waiting" /\ Place' = "store" /\ n \in 1..Len(wire) /\ chunk = <<>>
        /\ chunk' = SubSeq(wire, 1, n) /\ wire' = SubSeq(wire, n + 1, Len(wire))
        /\ UNCHANGED <<buffer, pending, head, delivered, old>>
    BY <1>0, <1>8 DEF Received, At, Place, ChunkOnlyToStore
  <2>2. /\ Len(chunk') = n /\ \A i \in 1..n : chunk'[i] = wire[i]
        /\ Len(wire') = Len(wire) - n /\ Len(chunk) = 0
    BY <2>1, Cut DEF Shape
  <2>3. Gone' = Gone /\ Gone = 2 * MaxEvents - Len(wire) - Len(buffer)
    <3>1. Len(buffer') = Len(buffer) /\ n \in Nat
      BY <2>1
    <3>2. Gone' = 2 * MaxEvents - (Len(wire) - n) - n - Len(buffer)
      BY <2>2, <3>1 DEF Gone
    <3>3. Gone = 2 * MaxEvents - Len(wire) - 0 - Len(buffer)
      BY <2>2 DEF Gone
    <3> QED BY <3>1, <3>2, <3>3
  <2>4. \A i \in 1..Len(chunk') : Position(chunk'[i]) = Gone + Len(buffer) + i
    <3>1. ASSUME NEW i \in 1..n PROVE Position(chunk'[i]) = Gone + Len(buffer) + i
      <4>1. chunk'[i] = wire[i] /\ i \in 1..Len(wire)
        BY <2>1, <2>2
      <4>2. Position(wire[i]) = 2 * MaxEvents - Len(wire) + i
        BY <4>1 DEF WirePositioned
      <4>3. Gone + Len(buffer) + i = 2 * MaxEvents - Len(wire) + i
        BY <2>3
      <4>4. Position(chunk'[i]) = Position(wire[i])
        BY <4>1
      <4> QED BY <4>2, <4>3, <4>4
    <3> QED BY <2>2, <3>1
  <2>5. /\ \A i \in 1..Len(buffer) : Position(buffer[i]) = Gone + i
        /\ old = buffer /\ pending = <<>>
        /\ head # 0 => head = delivered + 1 /\ Gone = 2 * delivered + 1
        /\ head = 0 => Gone = 2 * (delivered + Len(pending))
    BY <2>1 DEF NothingSkipped, MidFrame
  <2>6. Len(pending') = 0
    BY <2>1, <2>5
  <2> QED BY <2>1, <2>3, <2>4, <2>5, <2>6 DEF NothingSkipped, MidFrame, Position
<1> QED BY <1>1, <1>2, <1>3, <1>4, <1>5, <1>6, <1>7, <1>8 DEF ReadData

LEMMA SkipStep ==
  ASSUME Shape, TestsHold, WirePositioned, ChunkOnlyToStore, NothingSkipped, [Next]_vars
  PROVE  NothingSkipped'
<1> SUFFICES ASSUME ~closed', Place' \in Reading PROVE NothingSkipped'
  BY DEF NothingSkipped
<1> USE DEF client, Others
<1>1. CASE UNCHANGED vars
  BY <1>1 DEF vars, locals, NothingSkipped, Place, MidFrame, Gone, Position
<1>2. CASE ReadControl
  BY <1>2, SkipControl, ReadControlEffect
<1>3. CASE ReadData
  BY <1>3, SkipData, ReadDataEffect
<1>4. CASE Closed
  BY <1>4, ClosedEffect DEF Reading, BeforeFrame, OffQueue, InFrame, Receiving
<1>5. CASE CloseStep(Reader)
  <2>1. ASSUME NEW place, To(Reader, place) PROVE Place' = place
    BY <2>1, Moves DEF Shape, Threads
  <2>2. Place' \in Closing
    BY <1>5, <2>1 DEF CloseStep, ClearBuffer, ClearPending, ClearBytes, TestSock, CloseSocket,
                      ForgetSocket, Ends, Closing
  <2> QED BY <2>2 DEF Closing, Reading, BeforeFrame, OffQueue, InFrame, Receiving
<1>6. ASSUME NEW t \in Closers, Closer(t) PROVE FALSE
  <2>1. ~closed
    BY <1>6, CloserEffect
  <2>2. SetClosed(t)
    BY <1>6, <2>1, OnlyBegins
  <2> QED BY <2>2 DEF SetClosed
<1> QED BY <1>1, <1>2, <1>3, <1>4, <1>5, <1>6, ReadSplits DEF Next

-----------------------------------------------------------------------------
(* What was not delivered when close() began is ahead of what was.          *)
LEMMA AheadOfPosition ==
  ASSUME NEW u \in Unit, NEW d \in Nat, Position(u) > 2 * d
  PROVE  u.event > d
  BY DEF Unit, Position

LEMMA RepeatAtClose ==
  ASSUME Shape, WirePositioned, NothingSkipped, ~closed, Place \in Reading
  PROVE  /\ Ahead(buffer) /\ Ahead(chunk) /\ Ahead(wire)
         /\ Place \in Receiving \cup {"store"} => Ahead(old)
         /\ \A i \in 1..Len(pending) : pending[i] > delivered
         /\ Place \in OffQueue => head > delivered
<1>n. /\ Len(buffer) \in Nat /\ Len(chunk) \in Nat /\ Len(wire) \in Nat
      /\ Len(pending) \in Nat /\ Gone \in Int /\ MaxEvents \in Nat
      /\ delivered \in Nat /\ head \in Nat
  BY Counts
<1> USE <1>n
<1>1. /\ \A i \in 1..Len(buffer) : buffer[i] \in Unit
      /\ \A i \in 1..Len(chunk) : chunk[i] \in Unit
      /\ \A i \in 1..Len(wire) : wire[i] \in Unit
  BY ElementOfSeq DEF Shape
<1>2. Gone >= 2 * delivered
  <2>1. CASE Place \in OffQueue
    BY <2>1 DEF NothingSkipped
  <2>2. CASE MidFrame
    BY <2>2 DEF NothingSkipped
  <2>3. CASE Place \notin OffQueue /\ ~MidFrame
    BY <2>3 DEF NothingSkipped
  <2> QED BY <2>1, <2>2, <2>3
<1>3. Ahead(buffer)
  <2>1. ASSUME NEW i \in 1..Len(buffer) PROVE buffer[i].event > delivered
    <3>1. Position(buffer[i]) = Gone + i
      BY DEF NothingSkipped
    <3>2. Gone + i > 2 * delivered
      BY <1>2
    <3> QED BY <1>1, <3>1, <3>2, AheadOfPosition
  <2> QED BY <2>1 DEF Ahead
<1>4. Ahead(chunk)
  <2>1. ASSUME NEW i \in 1..Len(chunk) PROVE chunk[i].event > delivered
    <3>1. Position(chunk[i]) = Gone + Len(buffer) + i
      BY DEF NothingSkipped
    <3>2. Gone + Len(buffer) + i > 2 * delivered
      BY <1>2
    <3> QED BY <1>1, <3>1, <3>2, AheadOfPosition
  <2> QED BY <2>1 DEF Ahead
<1>5. Ahead(wire)
  <2>1. ASSUME NEW i \in 1..Len(wire) PROVE wire[i].event > delivered
    <3>1. Position(wire[i]) = 2 * MaxEvents - Len(wire) + i
      BY DEF WirePositioned
    <3>2. 2 * MaxEvents - Len(wire) = Gone + Len(chunk) + Len(buffer)
      BY DEF Gone
    <3>3. 2 * MaxEvents - Len(wire) + i > 2 * delivered
      BY <1>2, <3>2
    <3> QED BY <1>1, <3>1, <3>3, AheadOfPosition
  <2> QED BY <2>1 DEF Ahead
<1>6. ASSUME NEW i \in 1..Len(pending) PROVE pending[i] > delivered
  <2>1. pending[i] = delivered + i + (IF Place \in OffQueue THEN 1 ELSE 0)
    BY DEF NothingSkipped
  <2> QED BY <2>1
<1>7. Place \in OffQueue => head > delivered
  BY DEF NothingSkipped
<1>8. Place \in Receiving \cup {"store"} => Ahead(old)
  <2>1. Place \in Receiving \cup {"store"} => old = buffer
    BY DEF NothingSkipped
  <2> QED BY <1>3, <2>1 DEF Ahead
<1> QED BY <1>3, <1>4, <1>5, <1>6, <1>7, <1>8

(* Parts of what is ahead are ahead. *)
LEMMA AheadParts ==
  ASSUME Shape
  PROVE  /\ Ahead(<<>>)
         /\ \A s \in Seq(Unit) : s # <<>> /\ Ahead(s) => Ahead(Tail(s))
         /\ \A s, t \in Seq(Unit) : Ahead(s) /\ Ahead(t) => Ahead(s \o t)
         /\ \A s \in Seq(Unit) : \A n \in 1..Len(s) :
              Ahead(s) => Ahead(SubSeq(s, 1, n)) /\ Ahead(SubSeq(s, n + 1, Len(s)))
<1>1. Ahead(<<>>)
  BY DEF Ahead
<1>2. ASSUME NEW s \in Seq(Unit), s # <<>>, Ahead(s) PROVE Ahead(Tail(s))
  <2>1. /\ Len(s) \in Nat \ {0} /\ Len(Tail(s)) = Len(s) - 1
        /\ \A i \in 1..Len(Tail(s)) : Tail(s)[i] = s[i + 1]
    BY <1>2, UnitTail
  <2>2. ASSUME NEW i \in 1..Len(Tail(s)) PROVE Tail(s)[i].event > delivered
    <3>1. Tail(s)[i] = s[i + 1] /\ i + 1 \in 1..Len(s)
      BY <2>1
    <3> QED BY <1>2, <3>1 DEF Ahead
  <2> QED BY <2>2 DEF Ahead
<1>3. ASSUME NEW s \in Seq(Unit), NEW t \in Seq(Unit), Ahead(s), Ahead(t) PROVE Ahead(s \o t)
  <2>1. /\ Len(s) \in Nat
        /\ \A i \in 1..Len(s) : (s \o t)[i] = s[i]
        /\ \A i \in 1..Len(s \o t) : i > Len(s) => (s \o t)[i] = t[i - Len(s)]
                                                   /\ i - Len(s) \in 1..Len(t)
    BY UnitConcat, LenProperties
  <2>2. Len(s \o t) \in Nat
    BY ConcatProperties, LenProperties
  <2>3. ASSUME NEW i \in 1..Len(s \o t) PROVE (s \o t)[i].event > delivered
    <3>1. CASE i <= Len(s)
      BY <1>3, <2>1, <2>2, <3>1 DEF Ahead
    <3>2. CASE i > Len(s)
      BY <1>3, <2>1, <3>2 DEF Ahead
    <3> QED BY <2>1, <2>2, <3>1, <3>2
  <2> QED BY <2>3 DEF Ahead
<1>4. ASSUME NEW s \in Seq(Unit), NEW n \in 1..Len(s), Ahead(s)
      PROVE  Ahead(SubSeq(s, 1, n)) /\ Ahead(SubSeq(s, n + 1, Len(s)))
  <2>1. /\ Len(SubSeq(s, 1, n)) = n /\ \A i \in 1..n : SubSeq(s, 1, n)[i] = s[i]
        /\ Len(SubSeq(s, n + 1, Len(s))) = Len(s) - n
        /\ \A i \in 1..Len(s) - n : SubSeq(s, n + 1, Len(s))[i] = s[n + i]
    BY Cut
  <2>2. Len(s) \in Nat
    BY LenProperties
  <2>3. ASSUME NEW i \in 1..Len(s) - n PROVE SubSeq(s, n + 1, Len(s))[i].event > delivered
    <3>1. SubSeq(s, n + 1, Len(s))[i] = s[n + i] /\ n + i \in 1..Len(s)
      BY <2>1, <2>2
    <3> QED BY <1>4, <3>1 DEF Ahead
  <2>4. ASSUME NEW i \in 1..n PROVE SubSeq(s, 1, n)[i].event > delivered
    <3>1. SubSeq(s, 1, n)[i] = s[i] /\ i \in 1..Len(s)
      BY <2>1, <2>2
    <3> QED BY <1>4, <3>1 DEF Ahead
  <2> QED BY <2>1, <2>3, <2>4 DEF Ahead
<1> QED BY <1>1, <1>2, <1>3, <1>4

LEMMA RepeatData ==
  ASSUME Shape, NothingRepeated, ReadData, closed, late' = 0
  PROVE  NothingRepeated'
<1> USE DEF client
<1>0. ASSUME NEW place \in Reading, To(Reader, place) PROVE Place' = place
  BY <1>0, ReaderMoves DEF ReaderPlaces
<1>1. ASSUME NEW e, Deliver(e) PROVE FALSE
  BY <1>1 DEF Deliver, LateBound, Shape
<1>2. late = 0 /\ delivered' = delivered
  BY <1>1 DEF ReadData, Pop, LoadCount, StoreCount, TakeHeader, TakeBody, LoadBuffer, StoreBuffer, Received
<1>3. Place \in Reading
  BY DEF ReadData, Pop, LoadCount, StoreCount, TakeHeader, TakeBody, LoadBuffer, StoreBuffer,
         Received, At, Place, Reading, BeforeFrame, OffQueue, InFrame, Receiving
<1>4. /\ Ahead(buffer) /\ Ahead(chunk) /\ Ahead(wire)
      /\ Place \in Receiving \cup {"store"} => Ahead(old)
      /\ \A i \in 1..Len(pending) : pending[i] > delivered
      /\ Place \in OffQueue => head > delivered
  BY <1>2, <1>3 DEF NothingRepeated
<1>5. ASSUME NEW s, s' = s, Ahead(s) PROVE Ahead(s)'
  BY <1>2, <1>5 DEF Ahead
<1> USE DEF Reading, BeforeFrame, OffQueue, InFrame, Receiving
<1>6. CASE Pop
  <2>1. /\ Place' = "count" /\ pending # <<>>
        /\ head' = Head(pending) /\ pending' = Tail(pending) /\ UNCHANGED <<buffer, chunk, wire>>
    BY <1>0, <1>6 DEF Pop
  <2>2. /\ Len(pending) \in Nat \ {0} /\ head' = pending[1]
        /\ Len(pending') = Len(pending) - 1
        /\ \A i \in 1..Len(pending') : pending'[i] = pending[i + 1]
    BY <2>1, NumberTail DEF Shape
  <2>3. ASSUME NEW i \in 1..Len(pending') PROVE pending'[i] > delivered'
    <3>1. pending'[i] = pending[i + 1] /\ i + 1 \in 1..Len(pending)
      BY <2>2
    <3> QED BY <1>2, <1>4, <3>1
  <2>4. head' > delivered'
    BY <1>2, <1>4, <2>2
  <2> QED BY <1>2, <1>4, <2>1, <2>3, <2>4 DEF NothingRepeated, Ahead
<1>7. CASE LoadCount
  <2>1. Place = "count" /\ Place' = "uncount" /\ UNCHANGED <<buffer, chunk, wire, pending, head>>
    BY <1>0, <1>7 DEF LoadCount, At, Place
  <2> QED BY <1>2, <1>4, <2>1 DEF NothingRepeated, Ahead
<1>8. CASE TakeHeader
  <2>1. /\ Place' \in {"body", "iter"} /\ UNCHANGED <<chunk, wire, pending>>
        /\ buffer' = buffer \/ (buffer # <<>> /\ buffer' = Tail(buffer))
    BY <1>0, <1>8 DEF TakeHeader
  <2>2. Ahead(buffer')
    BY <1>4, <2>1, AheadParts DEF Shape
  <2> QED BY <1>2, <1>4, <2>1, <2>2 DEF NothingRepeated, Ahead
<1>9. CASE TakeBody
  <2>1. /\ Place' = "iter" /\ UNCHANGED <<chunk, wire, pending>>
        /\ buffer' = <<>> \/ (buffer # <<>> /\ buffer' = Tail(buffer))
    BY <1>0, <1>1, <1>9 DEF TakeBody
  <2>2. Ahead(buffer')
    BY <1>4, <2>1, AheadParts DEF Shape
  <2> QED BY <1>2, <1>4, <2>1, <2>2 DEF NothingRepeated, Ahead
<1>10. CASE LoadBuffer
  <2>1. Place' = "recv_test" /\ old' = buffer /\ UNCHANGED <<buffer, chunk, wire, pending>>
    BY <1>0, <1>10 DEF LoadBuffer
  <2> QED BY <1>2, <1>4, <2>1 DEF NothingRepeated, Ahead
<1>11. CASE StoreBuffer
  <2>1. /\ Place = "store" /\ Place' \in {"find", "body"}
        /\ buffer' = old \o chunk /\ chunk' = <<>> /\ UNCHANGED <<wire, pending>>
    BY <1>0, <1>11 DEF StoreBuffer, At, Place
  <2>2. Ahead(buffer') /\ Ahead(chunk')
    BY <1>4, <2>1, AheadParts DEF Shape
  <2> QED BY <1>2, <1>4, <2>1, <2>2 DEF NothingRepeated, Ahead
<1>12. ASSUME NEW n \in 1..2, Received(n) PROVE NothingRepeated'
  <2>1. /\ Place = "waiting" /\ Place' = "store" /\ n \in 1..Len(wire)
        /\ chunk' = SubSeq(wire, 1, n) /\ wire' = SubSeq(wire, n + 1, Len(wire))
        /\ UNCHANGED <<buffer, old, pending>>
    BY <1>0, <1>12, LenProperties DEF Received, At, Place, Shape
  <2>2. Ahead(chunk') /\ Ahead(wire')
    BY <1>4, <2>1, AheadParts DEF Shape
  <2> QED BY <1>2, <1>4, <2>1, <2>2 DEF NothingRepeated, Ahead
<1>13. CASE StoreCount
  BY <1>1, <1>13 DEF StoreCount
<1> QED BY <1>6, <1>7, <1>8, <1>9, <1>10, <1>11, <1>12, <1>13 DEF ReadData

(* A step of the reader that only moves it. *)
LEMMA RepeatControl ==
  ASSUME Shape, NothingRepeated, ReadControl, closed, late = 0, Place' \in Reading
  PROVE  NothingRepeated'
<1>1. UNCHANGED <<buffer, chunk, wire, pending, head, delivered, old>>
  BY ReadControlEffect DEF client
<1>2. /\ Place \in Reading /\ Place' \notin OffQueue
      /\ Place' \in Receiving \cup {"store"} => Place \in Receiving
  <2> USE DEF ReaderPlaces, Reading, BeforeFrame, InFrame, Receiving, OffQueue
  <2>1. ASSUME NEW place \in ReaderPlaces, Goto(place) PROVE Place' = place
    BY <2>1, GotoEffect
  <2>2. ASSUME NEW why, CloseThen(why) PROVE FALSE
    BY <2>2, CloseThenEffect
  <2>3. CASE Iterate \/ TestPending \/ PopFails \/ Find \/ Measure
    BY <2>1, <2>2, <2>3 DEF Iterate, TestPending, PopFails, Find, Measure, At, Place
  <2>4. CASE RecvTest \/ SetTimeout \/ CallRecv
    BY <2>1, <2>2, <2>4 DEF RecvTest, SetTimeout, CallRecv, Uses, At, Place
  <2>5. CASE RecvFails \/ RecvExpires \/ Handle \/ Wake
    BY <2>1, <2>2, <2>5 DEF RecvFails, RecvExpires, Handle, Wake, At, Place
  <2> QED BY <2>3, <2>4, <2>5 DEF ReadControl
<1> QED BY <1>1, <1>2 DEF NothingRepeated, Ahead

LEMMA RepeatStep ==
  ASSUME Shape, TestsHold, WirePositioned, NothingSkipped, NothingRepeated, [Next]_vars
  PROVE  NothingRepeated'
<1> SUFFICES ASSUME closed', late' = 0, Place' \in Reading PROVE NothingRepeated'
  BY DEF NothingRepeated
<1> USE DEF client, Others
<1>1. CASE UNCHANGED vars
  BY <1>1 DEF vars, locals, NothingRepeated, Place, Ahead
<1>2. CASE ReadControl
  BY <1>2, RepeatControl, ReadControlEffect
<1>3. CASE ReadData
  BY <1>3, RepeatData, ReadDataEffect
<1>4. CASE Closed
  BY <1>4, ClosedEffect DEF Reading, BeforeFrame, OffQueue, InFrame, Receiving
<1>5. CASE CloseStep(Reader)
  <2>1. ASSUME NEW place, To(Reader, place) PROVE Place' = place
    BY <2>1, Moves DEF Shape, Threads
  <2>2. Place' \in Closing
    BY <1>5, <2>1 DEF CloseStep, ClearBuffer, ClearPending, ClearBytes, TestSock, CloseSocket,
                      ForgetSocket, Ends, Closing
  <2> QED BY <2>2 DEF Closing, Reading, BeforeFrame, OffQueue, InFrame, Receiving
<1>6. ASSUME NEW t \in Closers, Closer(t) PROVE NothingRepeated'
  <2>1. /\ Place' = Place /\ UNCHANGED <<locals, wire, delivered, late>>
        /\ buffer' = buffer \/ buffer' = <<>>
        /\ pending' = pending \/ pending' = <<>>
    BY <1>6, CloserEffect
  <2>2. /\ Ahead(buffer) /\ Ahead(chunk) /\ Ahead(wire)
        /\ Place \in Receiving \cup {"store"} => Ahead(old)
        /\ \A i \in 1..Len(pending) : pending[i] > delivered
        /\ Place \in OffQueue => head > delivered
    <3>1. CASE closed
      BY <2>1, <3>1 DEF NothingRepeated
    <3>2. CASE ~closed
      BY <2>1, <3>2, RepeatAtClose
    <3> QED BY <3>1, <3>2
  <2> QED BY <2>1, <2>2 DEF NothingRepeated, Ahead, locals
<1> QED BY <1>1, <1>2, <1>3, <1>4, <1>5, <1>6, ReadSplits DEF Next

-----------------------------------------------------------------------------
LEMMA IInvAtInit == Init => IInv
<1> SUFFICES ASSUME Init PROVE IInv
  OBVIOUS
<1> USE BoundAssumption
<1>1. PICK n \in 0..MaxPending :
        /\ pending = [i \in 1..n |-> i] /\ pendingBytes = n
        /\ wire = Units(n + 1, MaxEvents)
  BY DEF Init
<1>2. n \in 0..MaxEvents
  BY <1>1
<1>3. /\ wire \in Seq(Unit) /\ Len(wire) = 2 * MaxEvents - 2 * n
      /\ \A i \in 1 .. 2 * MaxEvents - 2 * n : Position(wire[i]) = 2 * n + i
  BY <1>1, <1>2, UnitsPositioned
<1>4. pending \in Seq(Nat) /\ Len(pending) = n /\ \A i \in 1..n : pending[i] = i
  <2>1. pending \in [1..n -> Nat]
    BY <1>1
  <2>2. pending \in Seq(Nat)
    BY <1>2, <2>1
  <2>3. DOMAIN pending = 1..n
    BY <1>1
  <2>4. Len(pending) = n
    BY <1>2, <2>2, <2>3, LenProperties
  <2> QED BY <1>1, <2>2, <2>4
<1>5. /\ Place = "iter" /\ \A t \in Closers : at[t] = "start" /\ t # Reader
      /\ at \in [Threads -> ReaderPlaces \cup {"start"}]
  BY ThreadAssumption DEF Init, Place, Threads, ReaderPlaces, Reading, BeforeFrame
<1>6. /\ Len(buffer) = 0 /\ Len(chunk) = 0 /\ buffer = <<>> /\ chunk = <<>> /\ old = <<>>
      /\ head = 0 /\ delivered = 0 /\ late = 0 /\ ~closed /\ sock /\ fd
      /\ sock \in BOOLEAN /\ fd \in BOOLEAN /\ closed \in BOOLEAN
      /\ then = "none" /\ count = 0
  BY DEF Init
<1>7. Shape
  <2>1. outcome \in [Threads -> Endings \cup {"none"}]
    BY DEF Init
  <2>2. pendingBytes \in Int
    BY <1>1
  <2>3. Place \in ReaderPlaces
    BY <1>5 DEF ReaderPlaces, Reading, BeforeFrame
  <2> QED BY <1>3, <1>4, <1>5, <1>6, <2>1, <2>2, <2>3, UnitSequences DEF Shape, LateBound
<1>8. SocketClosedFirst /\ EmptiedInOrder /\ LateIsLast
  BY <1>5, <1>6 DEF SocketClosedFirst, EmptiedInOrder, LateIsLast, Closing, Threads, Place
<1>9. TestsHold
  <2>1. outcome[Reader] = "none"
    BY DEF Init, Threads
  <2> QED BY <1>5, <1>6, <2>1 DEF TestsHold, Failures
<1>10. WirePositioned
  <2>1. Len(wire) <= 2 * MaxEvents /\ 2 * MaxEvents - Len(wire) = 2 * n
    BY <1>2, <1>3
  <2> QED BY <1>3, <2>1 DEF WirePositioned
<1>11. ChunkOnlyToStore /\ NothingRepeated
  BY <1>6 DEF ChunkOnlyToStore, NothingRepeated
<1>12. NothingSkipped
  <2>1. Gone = 2 * n
    BY <1>2, <1>3, <1>6 DEF Gone
  <2>2. Place \in BeforeFrame /\ Place \notin {"find", "take"} \cup OffQueue \cup Receiving \cup {"store"}
        /\ ~MidFrame
    BY <1>5 DEF BeforeFrame, OffQueue, Receiving, MidFrame, InFrame
  <2>3. 2 * n = 2 * (delivered + Len(pending)) /\ \A i \in 1..n : i = delivered + i + 0
    BY <1>2, <1>4, <1>6
  <2> QED BY <1>4, <1>6, <2>1, <2>2, <2>3 DEF NothingSkipped
<1> QED BY <1>7, <1>8, <1>9, <1>10, <1>11, <1>12 DEF IInv

LEMMA IInvStep == IInv /\ [Next]_vars => IInv'
  BY ShapeStep, SocketStep, EmptiedStep, LateStep, TestsStep, WireStep, ChunkStep, SkipStep,
     RepeatStep DEF IInv

LEMMA IInvHolds == Spec => []IInv
  BY IInvAtInit, IInvStep, PTL DEF Spec

-----------------------------------------------------------------------------
(* However the accesses of the threads interleave, a socket is closed       *)
(* before client.close() forgets it, and once run_forever has ended nothing *)
(* of the connection is left.                                               *)
THEOREM SocketsAndQueuesGone == Spec => []NothingLeaks
<1>1. IInv => NothingLeaks
  BY DEF IInv, Shape, SocketClosedFirst, EmptiedInOrder, NothingLeaks, Ended, At, Place, Closing
<1> QED BY <1>1, IInvHolds, PTL

(* on_event is called at most once after listener.close() was: the next     *)
(* thing iter_raw does is to look at _closed.                               *)
THEOREM LateEventIsOnly == Spec => []OneLateEvent
<1>1. IInv => OneLateEvent
  BY DEF IInv, LateIsLast, OneLateEvent
<1> QED BY <1>1, IInvHolds, PTL

(* run_forever ends with an AttributeError or an IndexError only after      *)
(* another thread has called close(): what the reader tests stays true      *)
(* until then.                                                              *)
THEOREM FailuresAreRaces == Spec => []FailsOnlyInRace
<1>1. IInv => FailsOnlyInRace
  BY DEF IInv, TestsHold, Failures, FailsOnlyInRace
<1> QED BY <1>1, IInvHolds, PTL

(* A step delivers the event after the last one delivered or, once close()  *)
(* has begun, a later one: no copy of the buffer or of the queue that a     *)
(* race left behind brings an event back.                                   *)
LEMMA DeliveriesAscend ==
  ASSUME IInv, Read, delivered' # delivered
  PROVE  delivered' > delivered /\ (~closed => delivered' = delivered + 1)
<1> USE DEF client, Others
<1>0. Shape /\ LateIsLast /\ TestsHold /\ NothingSkipped /\ NothingRepeated
  BY DEF IInv
<1>n. /\ Len(buffer) \in Nat /\ Len(chunk) \in Nat /\ Len(wire) \in Nat
      /\ Len(pending) \in Nat /\ Gone \in Int /\ MaxEvents \in Nat
      /\ delivered \in Nat /\ head \in Nat
  BY <1>0, Counts
<1> USE <1>n
<1>1. StoreCount \/ TakeBody
  <2>1. CASE ReadControl
    BY <1>0, <2>1, ReadControlEffect
  <2>2. CASE ReadData
    BY <2>2 DEF ReadData, Pop, LoadCount, TakeHeader, LoadBuffer, StoreBuffer, Received
  <2>3. CASE Closed
    BY <1>0, <2>3, ClosedEffect
  <2>4. CASE CloseStep(Reader)
    BY <2>4 DEF CloseStep, ClearBuffer, ClearPending, ClearBytes, TestSock, CloseSocket, ForgetSocket
  <2> QED BY <2>1, <2>2, <2>3, <2>4, ReadSplits
<1>2. Place \in {"uncount", "take_body"}
  BY <1>1 DEF StoreCount, TakeBody, At, Place
<1>3. late = 0 /\ Place \in Reading
  BY <1>0, <1>2 DEF LateIsLast, Closing, Reading, OffQueue, InFrame
<1>4. CASE StoreCount
  <2>1. delivered' = head /\ Place \in OffQueue
    BY <1>4 DEF StoreCount, Deliver, At, Place, OffQueue
  <2>2. closed => head > delivered
    BY <1>0, <1>3, <2>1 DEF NothingRepeated
  <2>3. ~closed => head = delivered + 1
    BY <1>0, <1>3, <2>1 DEF NothingSkipped
  <2> QED BY <2>1, <2>2, <2>3
<1>5. CASE TakeBody
  <2>1. /\ buffer # <<>> /\ Place = "take_body"
        /\ delivered' = Head(buffer).event
    BY <1>5 DEF TakeBody, Deliver, At, Place
  <2>2. Len(buffer) \in Nat \ {0} /\ Head(buffer) = buffer[1] /\ 1 \in 1..Len(buffer)
        /\ buffer[1] \in Unit
    BY <1>0, <2>1, LenProperties, HeadTailProperties, ElementOfSeq, EmptySeq DEF Shape
  <2>3. closed => buffer[1].event > delivered
    BY <1>0, <1>3, <2>2 DEF NothingRepeated, Ahead
  <2>4. ~closed => buffer[1].event = delivered + 1
    <3>1. SUFFICES ASSUME ~closed PROVE buffer[1].event = delivered + 1
      OBVIOUS
    <3>2. MidFrame
      BY <2>1 DEF MidFrame, InFrame
    <3>3. Gone = 2 * delivered + 1
      BY <1>0, <1>3, <3>1, <3>2 DEF NothingSkipped
    <3>4. Position(buffer[1]) = Gone + 1
      BY <1>0, <1>3, <2>2, <3>1 DEF NothingSkipped
    <3>5. Position(buffer[1]) = 2 * delivered + 2
      BY <3>3, <3>4
    <3> QED BY <2>2, <3>5, PositionOfHead
  <2> QED BY <2>1, <2>2, <2>3, <2>4
<1> QED BY <1>1, <1>4, <1>5

(* Events are handed to on_event in the order the switch emitted them, none *)
(* twice, and none left out before close().                                 *)
THEOREM DeliveredInOrder == Spec => InOrder
<1> DEFINE A == delivered' # delivered =>
                  delivered' > delivered /\ (~closed => delivered' = delivered + 1)
<1>1. IInv /\ [Next]_vars => [A]_vars
  <2> SUFFICES ASSUME IInv, Next, delivered' # delivered
               PROVE  delivered' > delivered /\ (~closed => delivered' = delivered + 1)
    BY DEF vars
  <2>1. CASE Read
    BY <2>1, DeliveriesAscend
  <2>2. ASSUME NEW t \in Closers, Closer(t) PROVE FALSE
    BY <2>2, CloserEffect DEF IInv
  <2> QED BY <2>1, <2>2 DEF Next
<1> QED BY <1>1, IInvHolds, PTL DEF Spec, InOrder

=============================================================================
