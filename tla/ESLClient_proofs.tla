-------------------------- MODULE ESLClient_proofs --------------------------
(***************************************************************************)
(* What holds of ESLClient for every limit, every set of event sizes and   *)
(* every timeout, and without the bounds that keep TLC's instance finite;  *)
(* then of ListenerStack, for every limit and backoff: the listener on the *)
(* real client implements ESLListener, and hands events over in order.     *)
(***************************************************************************)
EXTENDS ListenerStack, ESLConfig, NaturalLemmas, SequenceTheorems, TLAPS

(* The inductive invariant, in four parts.  Closed: a client without a      *)
(* socket holds nothing of a connection, in its queue neither (Emptied),    *)
(* and one that reads the socket has no event left in its queue (Held); and *)
(* while a method uses the connection nobody closes it.                     *)
Held ==
  /\ ~sock => up = <<>> /\ down = <<>>
  /\ op = "read" => pending = <<>>
Emptied == Held /\ (~sock => pending = <<>>)

Closed == Emptied /\ (~sock => op \in {"idle", "dial"})

(* At most one command is outstanding, and it is the one being waited for:  *)
(* either it is on its way or its reply is, never both.                     *)
NoReply == \A i \in 1..Len(down) : down[i].kind # "reply"

NoCommand == op \notin CommandNames => cmd = 0 /\ up = <<>> /\ NoReply
OneOnItsWay ==
  Len(up) <= 1 /\ \A i \in 1..Len(up) : up[i].cmd = cmd /\ up[i].name = op /\ NoReply
RepliesMatch ==
  \A i \in 1..Len(down) :
    down[i].kind = "reply" =>
      down[i].cmd = cmd /\ (op = "auth" /\ down[i].ok => authed)
OneReply ==
  \A i, j \in 1..Len(down) :
    down[i].kind = "reply" /\ down[j].kind = "reply" => i = j

Outstanding == NoCommand /\ OneOnItsWay /\ RepliesMatch /\ OneReply

(* The numbers of the events still to be seen continue seen without a gap,  *)
(* first through the queue and then along the wire up to emitted.           *)
Queued == seen + Len(pending)
Advance(f) == IF f.kind = "event" THEN 1 ELSE 0

Before(i) == IF i = 0 THEN Queued ELSE down[i].number

QueueNumbered ==
  \A i \in 1..Len(pending) : pending[i].kind = "event" /\ pending[i].number = seen + i
WireNumbered ==
  \A i \in 1..Len(down) :
    down[i].number = Before(i - 1) + Advance(down[i]) /\ down[i].number <= emitted
EndsAtEmitted == Queued <= emitted /\ (sock => Before(Len(down)) = emitted)

Numbered == QueueNumbered /\ WireNumbered /\ EndsAtEmitted

-----------------------------------------------------------------------------
(* Sequences of frames and of commands. *)
LEMMA EmptySequences ==
  <<>> \in Seq(Frame) /\ <<>> \in Seq([name : CommandNames, cmd : Nat])
  BY EmptySeq

LEMMA FramesTyped ==
  /\ Greeting \in Frame /\ Rejection \in Frame
  /\ emitted \in Nat => Notice \in Frame
  /\ \A c \in Nat, good \in BOOLEAN : emitted \in Nat => Reply(c, good) \in Frame
  /\ \A n \in Nat, z \in Nat : Event(n, z) \in Frame
  BY DEF Greeting, Rejection, Notice, Reply, Event, Frame

(* A method that ends leaves nothing of the call behind. *)
LEMMA ReturnTyped ==
  ASSUME TypeOK, NEW k \in Kinds, NEW r \in Nat, Return(k, r)
  PROVE  /\ op' = "idle" /\ cmd' \in Nat /\ left' \in 0..Timeout /\ spent' \in Nat
         /\ result' \in [kind : Kinds, cmd : Nat, reply : Nat]
  BY LimitAssumption DEF TypeOK, Return, Outcome

LEMMA BeginTyped ==
  ASSUME NEW name \in {"dial", "read"} \cup CommandNames, NEW c \in Nat, Begin(name, c)
  PROVE  /\ op' \in {"idle", "dial", "connect", "read"} \cup CommandNames
         /\ cmd' \in Nat /\ left' \in 0..Timeout /\ spent' \in Nat
         /\ result' \in [kind : Kinds, cmd : Nat, reply : Nat]
  BY LimitAssumption DEF Begin, NoOutcome, Outcome, Kinds

LEMMA FailTyped ==
  ASSUME TypeOK, NEW k \in Kinds, Fail(k)
  PROVE  TypeOK'
<1>1. Return(k, 0) /\ 0 \in Nat
  BY DEF Fail
<1>2. pending' \in Seq(Frame) /\ down' \in Seq(Frame) /\ up' \in Seq([name : CommandNames, cmd : Nat])
  BY EmptySequences DEF Fail, Release
<1>3. sock' \in BOOLEAN /\ connected' \in BOOLEAN /\ authenticated' \in BOOLEAN
  BY DEF Fail, Release
<1>4. pendingBytes' \in Int
  BY DEF Fail, Release
<1> QED BY <1>1, <1>2, <1>3, <1>4, ReturnTyped DEF TypeOK, Fail, switch, counters

(* Dropping the first frame. *)
LEMMA TailTyped ==
  ASSUME NEW S, NEW s \in Seq(S), s # <<>>
  PROVE  /\ Head(s) \in S /\ Tail(s) \in Seq(S) /\ Head(s) = s[1]
         /\ Len(s) \in Nat \ {0} /\ Len(Tail(s)) = Len(s) - 1
         /\ \A i \in 1..Len(Tail(s)) : Tail(s)[i] = s[i + 1]
  BY HeadTailProperties, EmptySeq

(* Every step keeps the shape of the state. *)
LEMMA TypeStep == TypeOK /\ [Next]_vars => TypeOK'
<1> SUFFICES ASSUME TypeOK, [Next]_vars PROVE TypeOK'
  OBVIOUS
<1> USE LimitAssumption
<1>1. ASSUME NEW f \in {Greeting, Rejection}, Connect(f)
      PROVE  TypeOK'
  <2>1. down' \in Seq(Frame) /\ up' \in Seq([name : CommandNames, cmd : Nat])
    BY <1>1, FramesTyped, EmptySequences DEF Connect
  <2>2. /\ op' = "connect" /\ left' \in 0..Timeout
        /\ cmd' \in Nat /\ spent' \in Nat /\ result' \in [kind : Kinds, cmd : Nat, reply : Nat]
    BY <1>1 DEF Connect, TypeOK
  <2>3. /\ sock' \in BOOLEAN /\ connected' \in BOOLEAN /\ authenticated' \in BOOLEAN
        /\ authed' \in BOOLEAN /\ subscribed' \in BOOLEAN
    BY <1>1 DEF Connect
  <2>4. /\ emitted' \in Nat /\ seen' \in Nat /\ connections' \in Nat /\ commands' \in Nat
        /\ pending' \in Seq(Frame) /\ pendingBytes' \in Int
    BY <1>1 DEF TypeOK, Connect, queue
  <2> QED BY <2>1, <2>2, <2>3, <2>4 DEF TypeOK
<1>2. CASE NoSocket \/ DialFails
  BY <1>2, ReturnTyped DEF TypeOK, NoSocket, DialFails, Done, Kinds, queue, switch, counters
<1>3. CASE Close \/ Lose \/ SendFails \/ GreetingExpires \/ RefuseFrame \/ CommandExpires
  BY <1>3, FailTyped
     DEF Close, Lose, SendFails, GreetingExpires, RefuseFrame, CommandExpires, Kinds
<1>4. ASSUME NEW name \in CommandNames, Send(name) PROVE TypeOK'
  <2>1. up' \in Seq([name : CommandNames, cmd : Nat])
    <3>1. [name |-> name, cmd |-> commands + 1] \in [name : CommandNames, cmd : Nat]
      BY <1>4 DEF TypeOK
    <3> QED BY <1>4, <3>1, AppendProperties DEF Send, TypeOK
  <2>2. Begin(name, commands + 1) /\ commands + 1 \in Nat
    BY <1>4 DEF Send, TypeOK
  <2> QED BY <1>4, <2>1, <2>2, BeginTyped DEF TypeOK, Send, flags, queue, switch
<1>5. CASE ReadPending
  <2>1. CASE Fail("protocol")
    BY <2>1, FailTyped DEF Kinds
  <2>2. CASE ~Fail("protocol")
    <3>1. Head(pending) \in Frame /\ Tail(pending) \in Seq(Frame)
      BY <1>5, TailTyped DEF ReadPending, TypeOK
    <3>2. Head(pending).size \in Nat /\ Head(pending).number \in Nat
      BY <3>1 DEF Frame
    <3>3. /\ Return("event", 0)
          /\ pending' = Tail(pending) /\ seen' = Head(pending).number
          /\ pendingBytes' = pendingBytes - Head(pending).size
          /\ UNCHANGED <<flags, switch, up, down, counters>>
      BY <1>5, <2>2 DEF ReadPending
    <3>4. pendingBytes' \in Int
      <4> DEFINE z == Head(pending).size
      <4>1. pendingBytes \in Int /\ z \in Nat /\ pendingBytes' = pendingBytes - z
        BY <3>2, <3>3 DEF TypeOK
      <4> HIDE DEF z
      <4> QED BY <4>1
    <3> QED BY <3>1, <3>2, <3>3, <3>4, ReturnTyped
            DEF TypeOK, Kinds, flags, switch, counters
  <2> QED BY <2>1, <2>2
<1>6. CASE Read \/ Dial
  BY <1>6, BeginTyped DEF TypeOK, Read, Dial, flags, queue, switch, counters
<1>7. CASE Tick
  BY <1>7 DEF TypeOK, Tick, flags, queue, switch, counters
<1>8. CASE TakeGreeting
  <2>1. CASE Fail("lost")
    BY <2>1, FailTyped DEF Kinds
  <2>2. CASE ~Fail("lost")
    <3>0. down # <<>> /\ down' = Tail(down) /\ Done("ok", 0)
      BY <1>8, <2>2 DEF TakeGreeting
    <3>1. down' \in Seq(Frame) /\ Return("ok", 0)
      BY <3>0, TailTyped DEF Done, TypeOK
    <3> QED BY <1>8, <2>2, <3>1, ReturnTyped
            DEF TypeOK, TakeGreeting, Done, Kinds, queue, switch, counters
  <2> QED BY <2>1, <2>2
<1>9. CASE TakeReply
  <2>1. CASE Fail("denied")
    BY <2>1, FailTyped DEF Kinds
  <2>2. CASE ~Fail("denied")
    <3>0. down # <<>> /\ down' = Tail(down)
      BY <1>9, <2>2 DEF TakeReply
    <3>1. Head(down) \in Frame /\ down' \in Seq(Frame)
      BY <3>0, TailTyped DEF TypeOK
    <3>2. PICK k \in {"ok", "refused"} : Done(k, Head(down).cmd)
      BY <1>9, <2>2 DEF TakeReply
    <3>3. k \in Kinds /\ Head(down).cmd \in Nat
      BY <3>1, <3>2 DEF Kinds, Frame
    <3>4. authenticated' \in BOOLEAN /\ UNCHANGED queue
      BY <1>9, <2>2 DEF TakeReply, TypeOK
    <3>5. Return(k, Head(down).cmd)
          /\ UNCHANGED <<sock, connected, switch, up, seen, counters>>
      BY <3>2 DEF Done
    <3> QED BY <3>1, <3>3, <3>4, <3>5, ReturnTyped DEF TypeOK, queue, switch, counters
  <2> QED BY <2>1, <2>2
<1>10. CASE KeepEvent
  <2>1. CASE Fail("protocol")
    BY <2>1, FailTyped DEF Kinds
  <2>2. CASE ~Fail("protocol")
    <3>0. /\ down # <<>> /\ down' = Tail(down)
          /\ pending' = Append(pending, Head(down))
          /\ pendingBytes' = pendingBytes + Head(down).size
          /\ UNCHANGED <<flags, call, result, switch, up, seen, counters>>
      BY <1>10, <2>2 DEF KeepEvent
    <3>1. Head(down) \in Frame /\ down' \in Seq(Frame)
      BY <3>0, TailTyped DEF TypeOK
    <3>2. pending' \in Seq(Frame)
      BY <3>0, <3>1, AppendProperties DEF TypeOK
    <3>3. pendingBytes' \in Int
      <4> DEFINE z == Head(down).size
      <4>1. z \in Nat
        BY <3>1 DEF Frame
      <4>2. pendingBytes \in Int /\ pendingBytes' = pendingBytes + z
        BY <3>0 DEF TypeOK
      <4> HIDE DEF z
      <4> QED BY <4>1, <4>2
    <3> QED BY <3>0, <3>1, <3>2, <3>3 DEF TypeOK, flags, call, switch, counters
  <2> QED BY <2>1, <2>2
<1>11. CASE TakeFrame
  <2>1. CASE Fail("protocol")
    BY <2>1, FailTyped DEF Kinds
  <2>2. CASE ~Fail("protocol")
    <3>1. Head(down) \in Frame /\ down' \in Seq(Frame)
      BY <1>11, <2>2, TailTyped, ZenonT(30) DEF TakeFrame, TypeOK
    <3>2. seen' \in Nat /\ Head(down).cmd \in Nat
      BY <1>11, <2>2, <3>1 DEF TakeFrame, TypeOK, Frame
    <3>3. PICK k \in {"event", "other"} : Return(k, Head(down).cmd)
      BY <1>11, <2>2 DEF TakeFrame
    <3>4. k \in Kinds
      BY <3>3 DEF Kinds
    <3> QED BY <1>11, <2>2, <3>1, <3>2, <3>3, <3>4, ReturnTyped
            DEF TypeOK, TakeFrame, flags, queue, switch, counters
  <2> QED BY <2>1, <2>2
<1>12. CASE ReadExpires
  BY <1>12, FailTyped, ReturnTyped
     DEF TypeOK, ReadExpires, Done, Kinds, queue, switch, counters
<1>13. ASSUME NEW good \in BOOLEAN, Answer(good) PROVE TypeOK'
  <2>1. /\ Head(up) \in [name : CommandNames, cmd : Nat]
        /\ up' \in Seq([name : CommandNames, cmd : Nat])
    BY <1>13, TailTyped DEF Answer, TypeOK
  <2>2. Reply(Head(up).cmd, good) \in Frame
    BY <2>1, FramesTyped DEF TypeOK
  <2>3. down' \in Seq(Frame)
    BY <1>13, <2>2, AppendProperties DEF Answer, ToClient, TypeOK
  <2>4. authed' \in BOOLEAN /\ subscribed' \in BOOLEAN
    BY <1>13 DEF Answer, TypeOK
  <2> QED BY <1>13, <2>1, <2>3, <2>4 DEF TypeOK, Answer, ToClient, flags, queue, call, counters
<1>14. ASSUME NEW z \in Sizes, Emit(z) PROVE TypeOK'
  <2>1. Event(emitted + 1, z) \in Frame
    <3>1. emitted + 1 \in Nat /\ z \in Nat
      BY <1>14 DEF TypeOK, LimitAssumption
    <3> QED BY <3>1, FramesTyped
  <2>2. down' \in Seq(Frame)
    BY <1>14, <2>1, AppendProperties DEF Emit, ToClient, TypeOK
  <2> QED BY <1>14, <2>2 DEF TypeOK, Emit, ToClient, flags, queue, call, counters
<1>15. CASE SendNotice
  <2>1. down' \in Seq(Frame)
    BY <1>15, FramesTyped, AppendProperties DEF SendNotice, ToClient, TypeOK
  <2> QED BY <1>15, <2>1 DEF TypeOK, SendNotice, ToClient, flags, queue, call, switch, counters
<1>16. CASE UNCHANGED vars
  BY <1>16 DEF TypeOK, vars
<1> QED BY <1>1, <1>2, <1>3, <1>4, <1>5, <1>6, <1>7, <1>8, <1>9, <1>10, <1>11, <1>12,
           <1>13, <1>14, <1>15, <1>16 DEF Next, Step

LEMMA TypeInit == Init => TypeOK
<1> SUFFICES ASSUME Init PROVE TypeOK
  OBVIOUS
<1>1. pending \in Seq(Frame) /\ down \in Seq(Frame) /\ up \in Seq([name : CommandNames, cmd : Nat])
  BY EmptySequences DEF Init
<1>2. /\ sock \in BOOLEAN /\ connected \in BOOLEAN /\ authenticated \in BOOLEAN
      /\ authed \in BOOLEAN /\ subscribed \in BOOLEAN
  BY DEF Init
<1>3. result \in [kind : Kinds, cmd : Nat, reply : Nat]
  BY DEF Init, NoOutcome, Outcome, Kinds
<1>4. /\ op \in {"idle", "dial", "connect", "read"} \cup CommandNames /\ pendingBytes \in Int
      /\ cmd \in Nat /\ left \in 0..Timeout /\ spent \in Nat
      /\ emitted \in Nat /\ seen \in Nat /\ connections \in Nat /\ commands \in Nat
  BY LimitAssumption DEF Init
<1> QED BY <1>1, <1>2, <1>3, <1>4 DEF TypeOK

(* The variables of the client and of the switch keep their types.          *)
THEOREM TypeCorrect == Spec => []TypeOK
BY TypeInit, TypeStep, PTL DEF Spec

-----------------------------------------------------------------------------
(* At most one command is outstanding. *)

(* What a step that adds and takes no reply may do with the rest. *)
SameCall ==
  /\ up' = up /\ cmd' = cmd
  /\ authed => authed'
  /\ op' = op \/ (op \notin CommandNames /\ op' \notin CommandNames)

LEMMA AppendElements ==
  ASSUME NEW S, NEW s \in Seq(S), NEW e \in S
  PROVE  /\ Append(s, e) \in Seq(S) /\ Len(Append(s, e)) = Len(s) + 1
         /\ \A i \in 1..Len(s) : Append(s, e)[i] = s[i]
         /\ Append(s, e)[Len(s) + 1] = e
         /\ Len(s) \in Nat
  BY AppendProperties, LenProperties

LEMMA SameCallOutstanding ==
  ASSUME Outstanding, SameCall, NoReply => NoReply',
         \A i \in 1..Len(down') : down'[i].kind = "reply" =>
           down'[i].cmd = cmd /\ (op = "auth" /\ down'[i].ok => authed),
         \A i, j \in 1..Len(down') :
           down'[i].kind = "reply" /\ down'[j].kind = "reply" => i = j
  PROVE  Outstanding'
<1>1. NoCommand'
  BY DEF Outstanding, NoCommand, SameCall
<1>2. OneOnItsWay'
  BY DEF Outstanding, NoCommand, OneOnItsWay, SameCall
<1>3. RepliesMatch'
  BY DEF RepliesMatch, SameCall, CommandNames
<1> QED BY <1>1, <1>2, <1>3 DEF Outstanding, OneReply

LEMMA OutstandingUnchanged ==
  ASSUME Outstanding, SameCall, down' = down
  PROVE  Outstanding'
  BY DEF Outstanding, SameCall, NoReply, NoCommand, OneOnItsWay, RepliesMatch, OneReply

LEMMA OutstandingAfterTail ==
  ASSUME TypeOK, Outstanding, SameCall, down # <<>>, down' = Tail(down)
  PROVE  Outstanding'
<1>1. /\ Len(down) \in Nat \ {0} /\ Len(down') = Len(down) - 1
      /\ \A i \in 1..Len(down') : down'[i] = down[i + 1]
  BY TailTyped DEF TypeOK
<1>2. \A i \in 1..Len(down') : i + 1 \in 1..Len(down)
  BY <1>1
<1>3. NoReply => NoReply'
  BY <1>1, <1>2 DEF NoReply
<1>4. \A i \in 1..Len(down') : down'[i].kind = "reply" =>
        down'[i].cmd = cmd /\ (op = "auth" /\ down'[i].ok => authed)
  BY <1>1, <1>2 DEF Outstanding, RepliesMatch
<1>5. \A i, j \in 1..Len(down') :
        down'[i].kind = "reply" /\ down'[j].kind = "reply" => i = j
  <2> SUFFICES ASSUME NEW i \in 1..Len(down'), NEW j \in 1..Len(down'),
                      down'[i].kind = "reply", down'[j].kind = "reply"
               PROVE  i = j
    OBVIOUS
  <2>1. i + 1 = j + 1
    BY <1>1, <1>2 DEF Outstanding, OneReply
  <2> QED BY <1>1, <2>1
<1> QED BY <1>3, <1>4, <1>5, SameCallOutstanding

LEMMA OutstandingAfterAppend ==
  ASSUME TypeOK, Outstanding, SameCall,
         NEW f \in Frame, f.kind # "reply", down' = Append(down, f)
  PROVE  Outstanding'
<1>1. /\ Len(down) \in Nat /\ Len(down') = Len(down) + 1
      /\ \A i \in 1..Len(down) : down'[i] = down[i]
      /\ down'[Len(down) + 1] = f
  BY AppendElements DEF TypeOK
<1>2. \A i \in 1..Len(down') : i \in 1..Len(down) \/ i = Len(down) + 1
  BY <1>1
<1>3. \A i \in 1..Len(down') : down'[i].kind = "reply" => i \in 1..Len(down) /\ down'[i] = down[i]
  BY <1>1, <1>2
<1>4. NoReply => NoReply'
  BY <1>3 DEF NoReply
<1>5. \A i \in 1..Len(down') : down'[i].kind = "reply" =>
        down'[i].cmd = cmd /\ (op = "auth" /\ down'[i].ok => authed)
  BY <1>3 DEF Outstanding, RepliesMatch
<1>6. \A i, j \in 1..Len(down') :
        down'[i].kind = "reply" /\ down'[j].kind = "reply" => i = j
  BY <1>3 DEF Outstanding, OneReply
<1> QED BY <1>4, <1>5, <1>6, SameCallOutstanding

LEMMA OutstandingAfterEmpty ==
  ASSUME up' = <<>>, down' = <<>> \/ \E f : f.kind # "reply" /\ down' = <<f>>,
         op' \notin CommandNames, cmd' = 0
  PROVE  Outstanding'
<1>1. \A i \in 1..Len(down') : down'[i].kind # "reply"
  OBVIOUS
<1>2. Len(up') = 0
  OBVIOUS
<1> QED BY <1>1, <1>2 DEF Outstanding, NoReply, NoCommand, OneOnItsWay, RepliesMatch, OneReply

LEMMA FailEffect ==
  ASSUME NEW k, Fail(k)
  PROVE  /\ op' = "idle" /\ cmd' = 0 /\ left' = 0 /\ spent' = 0 /\ result'.kind = k
         /\ up' = <<>> /\ down' = <<>> /\ pending' = <<>> /\ pendingBytes' = 0
         /\ ~sock' /\ connected' = sock' /\ ~authenticated'
         /\ authed' = authed /\ emitted' = emitted /\ seen' = seen
  BY DEF Fail, Return, Release, Outcome, switch

LEMMA OutstandingAfterFail ==
  ASSUME NEW k, Fail(k)
  PROVE  Outstanding'
  BY FailEffect, OutstandingAfterEmpty DEF CommandNames

(* The effect of the methods that end and keep the connection. *)
LEMMA DoneEffect ==
  ASSUME NEW k, NEW r, Done(k, r)
  PROVE  /\ op' = "idle" /\ cmd' = 0 /\ left' = 0 /\ spent' = 0
         /\ result'.kind = k /\ result'.reply = r /\ result'.cmd = cmd
         /\ sock' = sock /\ connected' = connected
         /\ up' = up /\ authed' = authed /\ emitted' = emitted /\ seen' = seen
  BY DEF Done, Return, Outcome, switch

LEMMA OutstandingStep ==
  ASSUME TypeOK, Closed, Outstanding, [Next]_vars
  PROVE  Outstanding'
<1> USE DEF CommandNames
<1>1. ASSUME NEW f \in {Greeting, Rejection}, Connect(f) PROVE Outstanding'
  <2>1. down' = <<f>> /\ up' = <<>> /\ op' = "connect" /\ cmd' = 0
    BY <1>1 DEF Connect, Outstanding, NoCommand
  <2>2. f.kind # "reply"
    BY DEF Greeting, Rejection
  <2> QED BY <2>1, <2>2, OutstandingAfterEmpty
<1>2. ASSUME NEW k, Fail(k) PROVE Outstanding'
  BY <1>2, OutstandingAfterFail
<1>3. CASE NoSocket \/ DialFails
  <2>1. op \in {"idle", "dial"} /\ Done("lost", 0) /\ down' = down
    BY <1>3 DEF NoSocket, DialFails
  <2>2. SameCall
    BY <2>1, DoneEffect DEF SameCall, Outstanding, NoCommand
  <2> QED BY <2>1, <2>2, OutstandingUnchanged
<1>4. ASSUME NEW name \in CommandNames, Send(name) PROVE Outstanding'
  <2>1. up = <<>> /\ NoReply
    BY <1>4 DEF Send, Outstanding, NoCommand
  <2>2. /\ op' = name /\ cmd' = commands + 1 /\ down' = down
        /\ up' = Append(up, [name |-> name, cmd |-> commands + 1])
    BY <1>4 DEF Send, Begin
  <2>3. Len(up') = 1 /\ \A i \in 1..Len(up') : up'[i].cmd = cmd' /\ up'[i].name = op'
    BY <2>1, <2>2
  <2>4. NoReply'
    BY <2>1, <2>2 DEF NoReply
  <2>5. NoCommand' /\ OneOnItsWay'
    BY <2>2, <2>3, <2>4 DEF NoCommand, OneOnItsWay
  <2>6. RepliesMatch' /\ OneReply'
    BY <2>4 DEF NoReply, RepliesMatch, OneReply
  <2> QED BY <2>5, <2>6 DEF Outstanding
<1>5. CASE ReadPending /\ ~Fail("protocol")
  <2>1. op = "idle" /\ op' = "idle" /\ cmd' = 0 /\ up' = up /\ down' = down /\ authed' = authed
    BY <1>5 DEF ReadPending, Return, switch
  <2> QED BY <2>1, OutstandingUnchanged DEF SameCall, Outstanding, NoCommand
<1>6. CASE Read \/ Dial
  <2>1. /\ op = "idle" /\ op' \in {"read", "dial"}
        /\ cmd' = 0 /\ up' = up /\ down' = down /\ authed' = authed
    BY <1>6 DEF Read, Dial, Begin, switch
  <2> QED BY <2>1, OutstandingUnchanged DEF SameCall, Outstanding, NoCommand
<1>7. CASE Tick
  <2>1. op' = op /\ cmd' = cmd /\ up' = up /\ down' = down /\ authed' = authed
    BY <1>7 DEF Tick, switch
  <2> QED BY <2>1, OutstandingUnchanged DEF SameCall
<1>8. CASE TakeGreeting /\ ~Fail("lost")
  <2>1. op = "connect" /\ down # <<>> /\ down' = Tail(down) /\ Done("ok", 0)
    BY <1>8 DEF TakeGreeting
  <2>2. SameCall
    BY <2>1, DoneEffect DEF SameCall, Outstanding, NoCommand
  <2> QED BY <2>1, <2>2, OutstandingAfterTail
<1>9. CASE TakeReply /\ ~Fail("denied")
  <2>1. /\ op \in CommandNames /\ down # <<>> /\ Head(down).kind = "reply"
        /\ down' = Tail(down) /\ \E k : Done(k, Head(down).cmd)
    BY <1>9 DEF TakeReply, Commanding
  <2>2. op' = "idle" /\ cmd' = 0 /\ up' = up
    BY <2>1, DoneEffect
  <2>3. /\ Len(down) \in Nat \ {0} /\ Len(down') = Len(down) - 1 /\ Head(down) = down[1]
        /\ \A i \in 1..Len(down') : down'[i] = down[i + 1]
    BY <2>1, TailTyped DEF TypeOK
  <2>4. 1 \in 1..Len(down) /\ down[1].kind = "reply"
    BY <2>1, <2>3
  <2>5. ~NoReply
    BY <2>4 DEF NoReply
  <2>6. up = <<>>
    <3>1. Len(up) \in Nat /\ 1 \notin 1..Len(up)
      BY <2>5, LenProperties DEF TypeOK, Outstanding, OneOnItsWay
    <3> QED BY <3>1, EmptySeq, LenProperties DEF TypeOK
  <2>7. NoReply'
    <3> SUFFICES ASSUME NEW i \in 1..Len(down'), down'[i].kind = "reply" PROVE FALSE
      BY DEF NoReply
    <3>1. i + 1 \in 1..Len(down) /\ down[i + 1].kind = "reply"
      BY <2>3
    <3>2. i + 1 = 1
      BY <2>4, <3>1 DEF Outstanding, OneReply
    <3> QED BY <3>2
  <2> QED BY <2>2, <2>6, <2>7
          DEF Outstanding, NoReply, NoCommand, OneOnItsWay, RepliesMatch, OneReply
<1>10. CASE KeepEvent /\ ~Fail("protocol")
  <2>1. /\ down # <<>> /\ down' = Tail(down)
        /\ op' = op /\ cmd' = cmd /\ up' = up /\ authed' = authed
    BY <1>10 DEF KeepEvent, call, switch
  <2> QED BY <2>1, OutstandingAfterTail DEF SameCall
<1>11. CASE TakeFrame /\ ~Fail("protocol")
  <2>1. /\ op = "read" /\ op' = "idle" /\ cmd' = 0
        /\ down # <<>> /\ down' = Tail(down) /\ up' = up /\ authed' = authed
    BY <1>11 DEF TakeFrame, Return, switch
  <2> QED BY <2>1, OutstandingAfterTail DEF SameCall, Outstanding, NoCommand
<1>12. CASE ReadExpires /\ ~Fail("lost")
  <2>1. op = "read" /\ Done("timeout", 0) /\ down' = down
    BY <1>12 DEF ReadExpires
  <2>2. SameCall
    BY <2>1, DoneEffect DEF SameCall, Outstanding, NoCommand
  <2> QED BY <2>1, <2>2, OutstandingUnchanged
<1>13. ASSUME NEW good \in BOOLEAN, Answer(good) PROVE Outstanding'
  <2> DEFINE c == Head(up)
             f == Reply(c.cmd, good)
  <2>1. /\ sock /\ up # <<>> /\ up' = Tail(up) /\ down' = Append(down, f)
        /\ op' = op /\ cmd' = cmd
        /\ authed' = (authed \/ (c.name = "auth" /\ good))
    BY <1>13 DEF Answer, ToClient, call
  <2>2. /\ c \in [name : CommandNames, cmd : Nat] /\ c = up[1]
        /\ Len(up) \in Nat \ {0} /\ Len(up') = Len(up) - 1 /\ up' \in Seq([name : CommandNames, cmd : Nat])
    BY <2>1, TailTyped DEF TypeOK
  <2>3. 1 \in 1..Len(up) /\ Len(up) = 1
    BY <2>2 DEF Outstanding, OneOnItsWay
  <2>4. c.cmd = cmd /\ c.name = op /\ NoReply
    BY <2>2, <2>3 DEF Outstanding, OneOnItsWay
  <2>5. f \in Frame /\ f.kind = "reply" /\ f.cmd = c.cmd /\ f.ok = good
    BY <2>2, FramesTyped DEF TypeOK, Reply
  <2> HIDE DEF f, c
  <2>6. /\ Len(down) \in Nat /\ Len(down') = Len(down) + 1
        /\ \A i \in 1..Len(down) : down'[i] = down[i]
        /\ down'[Len(down) + 1] = f
    BY <2>1, <2>5, AppendElements DEF TypeOK
  <2>7. \A i \in 1..Len(down') : down'[i].kind = "reply" => i = Len(down) + 1
    BY <2>4, <2>6 DEF NoReply
  <2>8. RepliesMatch' /\ OneReply'
    <3>1. OneReply'
      BY <2>7 DEF OneReply
    <3>2. ASSUME NEW i \in 1..Len(down'), down'[i].kind = "reply"
          PROVE  down'[i].cmd = cmd' /\ (op' = "auth" /\ down'[i].ok => authed')
      <4>1. down'[i] = f
        BY <2>6, <2>7, <3>2
      <4> QED BY <2>1, <2>4, <2>5, <4>1
    <3> QED BY <3>1, <3>2 DEF RepliesMatch
  <2>9. up' = <<>> /\ Len(up') = 0
    <3>1. Len(up') = 0
      BY <2>2, <2>3
    <3> QED BY <2>2, <3>1, EmptySeq, LenProperties
  <2>10. op \in CommandNames
    BY <2>2, <2>4
  <2> QED BY <2>1, <2>8, <2>9, <2>10 DEF Outstanding, NoCommand, OneOnItsWay
<1>14. ASSUME NEW z \in Sizes, Emit(z) PROVE Outstanding'
  <2>1. Event(emitted + 1, z) \in Frame
    <3>1. emitted + 1 \in Nat /\ z \in Nat
      BY <1>14, LimitAssumption DEF TypeOK, LimitAssumption
    <3> QED BY <3>1, FramesTyped
  <2>2. Event(emitted + 1, z).kind # "reply"
    BY DEF Event
  <2>3. down' = Append(down, Event(emitted + 1, z)) /\ SameCall
    BY <1>14 DEF Emit, ToClient, SameCall, call
  <2> QED BY <2>1, <2>2, <2>3, OutstandingAfterAppend
<1>15. CASE SendNotice
  <2>1. Notice \in Frame /\ Notice.kind # "reply"
    BY FramesTyped DEF TypeOK, Notice
  <2>2. down' = Append(down, Notice) /\ SameCall
    BY <1>15 DEF SendNotice, ToClient, SameCall, call, switch
  <2> QED BY <2>1, <2>2, OutstandingAfterAppend
<1>16. CASE UNCHANGED vars
  BY <1>16, OutstandingUnchanged DEF vars, SameCall
<1>17. Close \/ Lose \/ SendFails \/ GreetingExpires \/ RefuseFrame \/ CommandExpires
         => \E k : Fail(k)
  BY DEF Close, Lose, SendFails, GreetingExpires, RefuseFrame, CommandExpires
<1> QED BY <1>1, <1>2, <1>3, <1>4, <1>5, <1>6, <1>7, <1>8, <1>9, <1>10, <1>11, <1>12,
           <1>13, <1>14, <1>15, <1>16, <1>17 DEF Next, Step

-----------------------------------------------------------------------------
(* What is known of the actions whose effect differs from step to step: a   *)
(* method is idle when it starts, and a reply is used only by its command.  *)
LEMMA HeldStep ==
  ASSUME TypeOK, Held, [Next]_vars
  PROVE  /\ Held' /\ (op' \in {"idle", "dial"} \/ sock' \/ UNCHANGED <<op, sock>>)
         /\ (~sock => pending = <<>>) => (~sock' => pending' = <<>>)
<1> DEFINE Goal ==
      /\ Held' /\ (op' \in {"idle", "dial"} \/ sock' \/ UNCHANGED <<op, sock>>)
      /\ (~sock => pending = <<>>) => (~sock' => pending' = <<>>)
<1> SUFFICES Goal
  OBVIOUS
<1> USE DEF Held
<1>1. ASSUME NEW f, Connect(f) PROVE Goal
  BY <1>1 DEF Connect
<1>2. ASSUME NEW k, Fail(k) PROVE Goal
  BY <1>2, FailEffect
<1>3. CASE NoSocket \/ DialFails
  BY <1>3, DoneEffect DEF NoSocket, DialFails, queue
<1>4. ASSUME NEW name \in CommandNames, Send(name) PROVE Goal
  BY <1>4 DEF Send, Begin, flags, CommandNames
<1>5. CASE ReadPending /\ ~Fail("protocol")
  BY <1>5 DEF ReadPending, Return, flags
<1>6. CASE Read \/ Dial
  BY <1>6 DEF Read, Dial, Begin, flags, queue
<1>7. CASE Tick
  BY <1>7 DEF Tick, flags, queue
<1>8. CASE TakeGreeting /\ ~Fail("lost")
  BY <1>8, DoneEffect DEF TakeGreeting
<1>9. CASE TakeReply /\ ~Fail("denied")
  <2>1. down # <<>> /\ UNCHANGED pending /\ \E k, r : Done(k, r)
    BY <1>9 DEF TakeReply, Commanding, queue
  <2>2. op' = "idle" /\ sock' = sock /\ sock
    BY <2>1, DoneEffect
  <2> QED BY <2>1, <2>2
<1>10. CASE KeepEvent /\ ~Fail("protocol")
  BY <1>10 DEF KeepEvent, Commanding, CommandNames, flags, call
<1>11. CASE TakeFrame /\ ~Fail("protocol")
  BY <1>11 DEF TakeFrame, Return, flags
<1>12. CASE ReadExpires /\ ~Fail("lost")
  BY <1>12, DoneEffect DEF ReadExpires, queue
<1>13. ASSUME NEW good \in BOOLEAN, Answer(good) PROVE Goal
  BY <1>13 DEF Answer, ToClient, flags, queue, call
<1>14. ASSUME NEW z \in Sizes, Emit(z) PROVE Goal
  BY <1>14 DEF Emit, ToClient, flags, queue, call
<1>15. CASE SendNotice
  BY <1>15 DEF SendNotice, ToClient, flags, queue, call
<1>16. CASE UNCHANGED vars
  BY <1>16 DEF vars
<1>17. Close \/ Lose \/ SendFails \/ GreetingExpires \/ RefuseFrame \/ CommandExpires
         => \E k : Fail(k)
  BY DEF Close, Lose, SendFails, GreetingExpires, RefuseFrame, CommandExpires
<1> QED BY <1>1, <1>2, <1>3, <1>4, <1>5, <1>6, <1>7, <1>8, <1>9, <1>10, <1>11, <1>12,
           <1>13, <1>14, <1>15, <1>16, <1>17 DEF Next, Step

LEMMA EmptiedStep ==
  ASSUME TypeOK, Emptied, [Next]_vars
  PROVE  Emptied' /\ (op' \in {"idle", "dial"} \/ sock' \/ UNCHANGED <<op, sock>>)
  BY HeldStep DEF Emptied

LEMMA ClosedStep ==
  ASSUME TypeOK, Closed, [Next]_vars
  PROVE  Closed'
  BY EmptiedStep DEF Closed

Inv == TypeOK /\ Closed /\ Outstanding

LEMMA InvInductive == Spec => []Inv
<1>1. Init => Inv
  <2>1. Init => Closed
    BY DEF Init, Closed, Emptied, Held
  <2>2. Init => Outstanding
    <3> SUFFICES ASSUME Init PROVE Outstanding
      OBVIOUS
    <3>1. up = <<>> /\ down = <<>> /\ op = "idle" /\ cmd = 0 /\ Len(up) = 0 /\ Len(down) = 0
      BY DEF Init
    <3> QED BY <3>1
            DEF Outstanding, NoReply, NoCommand, OneOnItsWay, RepliesMatch, OneReply
  <2> QED BY <2>1, <2>2, TypeInit DEF Inv
<1>2. Inv /\ [Next]_vars => Inv'
  BY TypeStep, ClosedStep, OutstandingStep DEF Inv
<1> QED BY <1>1, <1>2, PTL DEF Spec

(* The reply that a command used; it is the one at the head of the wire.    *)
LEMMA HeadReply ==
  ASSUME Inv, down # <<>>, Head(down).kind = "reply"
  PROVE  Head(down).cmd = cmd /\ (op = "auth" /\ Head(down).ok => authed)
<1>1. Len(down) \in Nat \ {0} /\ Head(down) = down[1]
  BY TailTyped DEF Inv, TypeOK
<1> QED BY <1>1 DEF Inv, Outstanding, RepliesMatch

(* A command that returns has used the reply to itself, not one that a      *)
(* command before it left behind (_command, esl.py:628-664).                *)
THEOREM RepliesPaired == Spec => []ReplyPairing
<1>1. Init => ReplyPairing
  BY DEF Init, ReplyPairing, NoOutcome, Outcome
<1>2. Inv /\ ReplyPairing /\ [Next]_vars => ReplyPairing'
  <2> SUFFICES ASSUME Inv, ReplyPairing, [Next]_vars PROVE ReplyPairing'
    OBVIOUS
  <2> USE DEF ReplyPairing
  <2>1. CASE result' = result
    BY <2>1
  <2>2. CASE result' = NoOutcome
    BY <2>2 DEF NoOutcome, Outcome
  <2>3. CASE \E k : Fail(k) /\ k \notin {"ok", "refused"}
    BY <2>3, FailEffect
  <2>4. CASE NoSocket \/ DialFails \/ ReadExpires
    BY <2>3, <2>4, DoneEffect DEF NoSocket, DialFails, ReadExpires
  <2>5. CASE ReadPending
    BY <2>3, <2>5 DEF ReadPending, Return, Outcome
  <2>6. CASE TakeGreeting
    <3>1. op = "connect" /\ (Done("ok", 0) \/ Fail("lost"))
      BY <2>6 DEF TakeGreeting
    <3>2. cmd = 0
      BY <3>1 DEF Inv, Outstanding, NoCommand, CommandNames
    <3> QED BY <2>3, <3>1, <3>2, DoneEffect
  <2>7. CASE TakeReply
    <3>1. /\ down # <<>> /\ Head(down).kind = "reply"
          /\ (\E k : Done(k, Head(down).cmd)) \/ Fail("denied")
      BY <2>7 DEF TakeReply
    <3>2. Head(down).cmd = cmd
      BY <3>1, HeadReply
    <3>3. ASSUME NEW k, Done(k, Head(down).cmd) PROVE ReplyPairing'
      BY <3>2, <3>3, DoneEffect
    <3>4. Fail("denied") => ReplyPairing'
      BY <2>3
    <3> HIDE DEF ReplyPairing
    <3> QED BY <3>1, <3>3, <3>4
  <2>8. CASE TakeFrame
    BY <2>3, <2>8 DEF TakeFrame, Return, Outcome
  <2>9. CASE Close \/ Lose \/ SendFails \/ GreetingExpires \/ RefuseFrame \/ CommandExpires
    BY <2>3, <2>9
       DEF Close, Lose, SendFails, GreetingExpires, RefuseFrame, CommandExpires
  <2>10. CASE KeepEvent
    BY <2>1, <2>3, <2>10 DEF KeepEvent
  <2>11. CASE Tick \/ SendNotice \/ UNCHANGED vars
    BY <2>1, <2>11 DEF Tick, SendNotice, ToClient, vars
  <2>13. (\E good \in BOOLEAN : Answer(good)) \/ (\E z \in Sizes : Emit(z))
         \/ (\E f \in {Greeting, Rejection} : Connect(f)) => result' = result
    BY DEF Answer, Emit, ToClient, Connect
  <2>14. Dial \/ (\E name \in CommandNames : Send(name)) \/ Read => result' = NoOutcome
    BY DEF Dial, Send, Read, Begin
  <2> QED BY <2>1, <2>2, <2>4, <2>5, <2>6, <2>7, <2>8, <2>9, <2>10, <2>11, <2>13, <2>14
          DEF Next, Step
<1> QED BY <1>1, <1>2, InvInductive, PTL DEF Spec

(* The flags of the client: connected exactly when there is a socket, and   *)
(* authenticated only where the switch accepted the password (authenticate, *)
(* esl.py:237-251; close, 287-297).                                         *)
THEOREM FlagsAreHonest == Spec => []AuthHonest
<1>1. Init => AuthHonest
  BY DEF Init, AuthHonest
<1>2. Inv /\ AuthHonest /\ [Next]_vars => AuthHonest'
  <2> SUFFICES ASSUME Inv, AuthHonest, [Next]_vars PROVE AuthHonest'
    OBVIOUS
  <2> USE DEF AuthHonest
  <2>1. CASE UNCHANGED <<sock, connected, authenticated, authed>>
    BY <2>1
  <2>2. CASE \E k : Fail(k)
    BY <2>2, FailEffect
  <2>3. ASSUME NEW f, Connect(f) PROVE AuthHonest'
    BY <2>3 DEF Connect
  <2>4. CASE TakeReply /\ ~Fail("denied")
    <3>1. /\ down # <<>> /\ Head(down).kind = "reply" /\ \E k, r : Done(k, r)
          /\ authenticated' = authenticated \/ (op = "auth" /\ Head(down).ok)
      BY <2>4 DEF TakeReply
    <3>2. sock' = sock /\ connected' = connected /\ authed' = authed
      BY <3>1, DoneEffect
    <3>3. sock
      BY <3>1 DEF Inv, Closed, Emptied, Held, TypeOK
    <3> QED BY <3>1, <3>2, <3>3, HeadReply
  <2>5. ASSUME NEW good \in BOOLEAN, Answer(good) PROVE AuthHonest'
    BY <2>5 DEF Answer, ToClient, flags
  <2>6. NoSocket \/ DialFails \/ ReadExpires \/ TakeGreeting
          => UNCHANGED <<sock, connected, authenticated, authed>> \/ \E k : Fail(k)
    BY DoneEffect DEF NoSocket, DialFails, ReadExpires, TakeGreeting
  <2>7. ReadPending \/ TakeFrame \/ KeepEvent
          => UNCHANGED <<sock, connected, authenticated, authed>> \/ \E k : Fail(k)
    BY DEF ReadPending, TakeFrame, KeepEvent, flags, switch
  <2>8. Close \/ Lose \/ SendFails \/ GreetingExpires \/ RefuseFrame \/ CommandExpires
          => \E k : Fail(k)
    BY DEF Close, Lose, SendFails, GreetingExpires, RefuseFrame, CommandExpires
  <2>9. Dial \/ Read \/ Tick \/ SendNotice \/ (\E name \in CommandNames : Send(name)) \/ UNCHANGED vars
          => UNCHANGED <<sock, connected, authenticated, authed>>
    BY DEF Dial, Read, Tick, SendNotice, Send, ToClient, flags, switch, vars
  <2>10. (\E z \in Sizes : Emit(z)) => UNCHANGED <<sock, connected, authenticated, authed>>
    BY DEF Emit, ToClient, flags
  <2> QED BY <2>1, <2>2, <2>3, <2>4, <2>5, <2>6, <2>7, <2>8, <2>9, <2>10 DEF Next, Step
<1> QED BY <1>1, <1>2, InvInductive, PTL DEF Spec

(* No call outlasts the timeout: events that come while a command waits do  *)
(* not extend its deadline (esl.py:636-642); and connect, which dials and   *)
(* then awaits the greeting, takes at most twice that (esl.py:211, 226).    *)
THEOREM DeadlineHolds == Spec => []Deadline
<1>1. Init => Deadline
  BY LimitAssumption DEF Init, Deadline
<1>2. TypeOK /\ Deadline /\ [Next]_vars => Deadline'
  <2> SUFFICES ASSUME TypeOK, Deadline, [Next]_vars PROVE Deadline'
    OBVIOUS
  <2> USE LimitAssumption DEF Deadline
  <2>1. CASE UNCHANGED <<op, left, spent>>
    BY <2>1
  <2>2. CASE left' = 0 /\ spent' = 0
    BY <2>2
  <2>3. CASE left' = Timeout /\ spent' = 0
    BY <2>3
  <2>4. CASE Tick
    BY <2>4 DEF Tick, TypeOK
  <2>5. (\E k : Fail(k)) \/ (\E k, r : Done(k, r)) => left' = 0 /\ spent' = 0
    BY FailEffect, DoneEffect
  <2>6. NoSocket \/ DialFails \/ TakeGreeting \/ TakeReply \/ ReadExpires
          => (\E k : Fail(k)) \/ (\E k, r : Done(k, r))
    BY DEF NoSocket, DialFails, TakeGreeting, TakeReply, ReadExpires
  <2>7. ReadPending \/ TakeFrame => (\E k : Fail(k)) \/ (left' = 0 /\ spent' = 0)
    BY DEF ReadPending, TakeFrame, Return
  <2>8. KeepEvent => (\E k : Fail(k)) \/ UNCHANGED <<op, left, spent>>
    BY DEF KeepEvent, call
  <2>9. Close \/ Lose \/ SendFails \/ GreetingExpires \/ RefuseFrame \/ CommandExpires
          => \E k : Fail(k)
    BY DEF Close, Lose, SendFails, GreetingExpires, RefuseFrame, CommandExpires
  <2>10. Dial \/ (\E name \in CommandNames : Send(name)) \/ Read
           => left' = Timeout /\ spent' = 0
    BY DEF Dial, Send, Read, Begin
  <2>11. (\E good \in BOOLEAN : Answer(good)) \/ (\E z \in Sizes : Emit(z)) \/ SendNotice \/ UNCHANGED vars
           => UNCHANGED <<op, left, spent>>
    BY DEF Answer, Emit, SendNotice, ToClient, call, vars
  <2>12. CASE \E f \in {Greeting, Rejection} : Connect(f)
    <3>1. /\ op = "dial" /\ op' = "connect" /\ left' = Timeout /\ spent' = spent
          /\ left \in 0..Timeout /\ spent \in Nat
      BY <2>12 DEF Connect, TypeOK
    <3> QED BY <3>1
  <2> HIDE DEF Deadline
  <2> QED BY <2>1, <2>2, <2>3, <2>4, <2>5, <2>6, <2>7, <2>8, <2>9, <2>10, <2>11, <2>12 DEF Next, Step
<1> QED BY <1>1, <1>2, TypeCorrect, PTL DEF Spec

-----------------------------------------------------------------------------
(* The bytes queued.  t is the list of running totals of a queue.           *)
Totals(t, events) ==
  /\ t \in [0..Len(events) -> Int] /\ t[0] = 0
  /\ \A i \in 1..Len(events) : t[i] = t[i - 1] + events[i].size

(* A queue has one list of running totals, so its last member is what the   *)
(* definition of BytesOf chooses.                                           *)
LEMMA TotalsUnique ==
  ASSUME NEW events \in Seq(Frame), NEW t, Totals(t, events)
  PROVE  BytesOf(events) = t[Len(events)]
<1> DEFINE n == Len(events)
           Equation(u) == u = [i \in 0..n |-> IF i = 0 THEN 0 ELSE u[i - 1] + events[i].size]
           total == CHOOSE u : Equation(u)
<1>0. n \in Nat
  BY LenProperties
<1>1. Equation(t)
  BY <1>0 DEF Totals
<1>2. Equation(total)
  BY <1>1
<1>3. ASSUME NEW u, Equation(u)
      PROVE  u[0] = 0 /\ \A i \in 0..(n - 1) : u[i + 1] = u[i] + events[i + 1].size
  <2>1. ASSUME NEW i \in 0..n PROVE u[i] = IF i = 0 THEN 0 ELSE u[i - 1] + events[i].size
    <3> DEFINE g == [j \in 0..n |-> IF j = 0 THEN 0 ELSE u[j - 1] + events[j].size]
    <3>1. u = g
      BY <1>3
    <3>2. g[i] = IF i = 0 THEN 0 ELSE u[i - 1] + events[i].size
      OBVIOUS
    <3> QED BY <3>1, <3>2
  <2> HIDE DEF Equation, n
  <2>2. u[0] = 0
    BY <1>0, <2>1
  <2>3. ASSUME NEW i \in 0..(n - 1) PROVE u[i + 1] = u[i] + events[i + 1].size
    <3>1. i + 1 \in 0..n /\ i + 1 # 0 /\ (i + 1) - 1 = i
      BY <1>0
    <3> QED BY <2>1, <3>1
  <2> QED BY <2>2, <2>3
<1>4. 0..n \subseteq {i \in 0..n : total[i] = t[i]}
  <2> DEFINE S == {i \in 0..n : total[i] = t[i]}
  <2> HIDE DEF Equation, total, n
  <2>1. 0 \in S
    BY <1>0, <1>1, <1>2, <1>3
  <2>2. ASSUME NEW i \in 0..(n - 1), i \in S PROVE i + 1 \in S
    <3>1. total[i + 1] = total[i] + events[i + 1].size /\ t[i + 1] = t[i] + events[i + 1].size
      BY <1>1, <1>2, <1>3
    <3> QED BY <1>0, <2>2, <3>1
  <2>3. 0..n \subseteq S
    <3> HIDE DEF S
    <3> QED BY <1>0, <2>1, <2>2, SetInduction
  <2> QED BY <2>3
<1>5. total[n] = t[n]
  BY <1>0, <1>4
<1> QED BY <1>5 DEF BytesOf

(* One event more, and the first event less. *)
LEMMA TotalsAppend ==
  ASSUME NEW events \in Seq(Frame), NEW f \in Frame, NEW t, Totals(t, events)
  PROVE  \E u : Totals(u, Append(events, f)) /\ u[Len(events) + 1] = t[Len(events)] + f.size
<1> DEFINE n == Len(events)
           u == [i \in 0..(n + 1) |-> IF i = n + 1 THEN t[n] + f.size ELSE t[i]]
<1>0. n \in Nat /\ f.size \in Nat
  BY LenProperties DEF Frame
<1>1. Len(Append(events, f)) = n + 1 /\ Append(events, f)[n + 1] = f
      /\ \A i \in 1..n : Append(events, f)[i] = events[i]
  BY AppendProperties
<1>2. u \in [0..(n + 1) -> Int]
  BY <1>0 DEF Totals
<1>3. ASSUME NEW i \in 1..(n + 1) PROVE u[i] = u[i - 1] + Append(events, f)[i].size
  BY <1>0, <1>1 DEF Totals
<1>4. Totals(u, Append(events, f)) /\ u[n + 1] = t[n] + f.size
  BY <1>0, <1>1, <1>2, <1>3 DEF Totals
<1> QED BY <1>4

LEMMA TotalsTail ==
  ASSUME NEW events \in Seq(Frame), events # <<>>, NEW t, Totals(t, events)
  PROVE  \E u : /\ Totals(u, Tail(events))
                /\ u[Len(Tail(events))] = t[Len(events)] - Head(events).size
<1> DEFINE n == Len(events)
           u == [i \in 0..(n - 1) |-> t[i + 1] - t[1]]
<1>0. n \in Nat \ {0} /\ Head(events) = events[1] /\ Len(Tail(events)) = n - 1
      /\ \A i \in 1..(n - 1) : Tail(events)[i] = events[i + 1]
  BY TailTyped
<1>1. t[1] = events[1].size
  <2>1. events[1] \in Frame
    BY <1>0, ElementOfSeq
  <2> QED BY <1>0, <2>1 DEF Totals, Frame
<1>2. u \in [0..(n - 1) -> Int]
  BY <1>0 DEF Totals
<1>3. ASSUME NEW i \in 1..(n - 1) PROVE u[i] = u[i - 1] + Tail(events)[i].size
  <2>1. events[i + 1] \in Frame
    <3>1. i + 1 \in 1..n
      BY <1>0
    <3> QED BY <3>1, ElementOfSeq
  <2>2. t[i + 1] = t[i] + events[i + 1].size /\ t[i] \in Int /\ t[1] \in Int
    <3>1. i + 1 \in 1..n /\ (i + 1) - 1 = i /\ i \in 0..n /\ 1 \in 0..n
      BY <1>0
    <3> QED BY <3>1 DEF Totals
  <2>3. events[i + 1].size \in Nat /\ Tail(events)[i] = events[i + 1]
    BY <1>0, <2>1 DEF Frame
  <2>4. u[i] = t[i + 1] - t[1] /\ u[i - 1] = t[i] - t[1]
    BY <1>0
  <2> QED BY <2>2, <2>3, <2>4
<1>4. u[0] = 0 /\ u[n - 1] = t[n] - Head(events).size
  <2>1. u[0] = t[1] - t[1] /\ u[n - 1] = t[n] - t[1] /\ t[1] \in Int
    BY <1>0 DEF Totals
  <2> QED BY <1>0, <1>1, <2>1
<1> QED BY <1>0, <1>2, <1>3, <1>4 DEF Totals

(* The byte count is the last of the queue's running totals. *)
Counted ==
  /\ Len(pending) <= MaxPending /\ pendingBytes <= MaxFrame
  /\ \E t : Totals(t, pending) /\ t[Len(pending)] = pendingBytes

LEMMA CountedEmpty ==
  \E t : Totals(t, <<>>) /\ t[Len(<<>>)] = 0
<1>1. Totals([i \in 0..0 |-> 0], <<>>)
  BY DEF Totals
<1> QED BY <1>1

(* Racing events never pile up beyond the limits, and the count the byte    *)
(* limit is checked against, which is adjusted where an event is queued,    *)
(* where one is handed over and in close(), is the size of what is queued   *)
(* (esl.py:611-613, 653-661, 292-293).                                      *)
THEOREM PendingWithinLimits == Spec => []PendingAccounted
<1>1. Init => Counted
  <2> SUFFICES ASSUME Init PROVE Counted
    OBVIOUS
  <2>1. pending = <<>> /\ pendingBytes = 0 /\ Len(<<>>) = 0
    BY DEF Init
  <2> QED BY <2>1, CountedEmpty, LimitAssumption DEF Counted
<1>2. TypeOK /\ Counted /\ [Next]_vars => Counted'
  <2> SUFFICES ASSUME TypeOK, Counted, [Next]_vars PROVE Counted'
    OBVIOUS
  <2> USE LimitAssumption
  <2>1. CASE UNCHANGED queue
    BY <2>1 DEF Counted, queue
  <2>2. CASE \E k : Fail(k)
    <3>1. pending' = <<>> /\ pendingBytes' = 0 /\ Len(<<>>) = 0
      BY <2>2, FailEffect
    <3> QED BY <3>1, CountedEmpty DEF Counted
  <2>3. CASE KeepEvent /\ ~\E k : Fail(k)
    <3> DEFINE f == Head(down)
    <3>1. /\ Fits(f) /\ f \in Frame
          /\ pending' = Append(pending, f) /\ pendingBytes' = pendingBytes + f.size
      BY <2>3, TailTyped DEF KeepEvent, TypeOK
    <3>2. pending \in Seq(Frame)
      BY DEF TypeOK
    <3>3. PICK t : Totals(t, pending) /\ t[Len(pending)] = pendingBytes
      BY DEF Counted
    <3>4. PICK u : Totals(u, pending') /\ u[Len(pending) + 1] = pendingBytes'
      BY <3>1, <3>2, <3>3, TotalsAppend
    <3>5. Len(pending') = Len(pending) + 1 /\ Len(pending) \in Nat
      BY <3>1, <3>2, AppendProperties, LenProperties
    <3>6. Len(pending') <= MaxPending /\ pendingBytes' <= MaxFrame
      BY <3>1, <3>5 DEF Fits
    <3> QED BY <3>4, <3>5, <3>6 DEF Counted
  <2>4. CASE ReadPending /\ ~\E k : Fail(k)
    <3>1. pending # <<>> /\ pending' = Tail(pending) /\ pending \in Seq(Frame)
          /\ pendingBytes' = pendingBytes - Head(pending).size
      BY <2>4 DEF ReadPending, TypeOK
    <3>2. PICK t : Totals(t, pending) /\ t[Len(pending)] = pendingBytes
      BY DEF Counted
    <3>3. PICK u : Totals(u, pending') /\ u[Len(pending')] = pendingBytes'
      BY <3>1, <3>2, TotalsTail
    <3>4. Len(pending') <= MaxPending
      BY <3>1, TailTyped DEF Counted
    <3>5. Head(pending).size \in Nat /\ pendingBytes \in Int
      <4>1. Head(pending) \in Frame
        BY <3>1, TailTyped
      <4> QED BY <4>1 DEF Frame, TypeOK
    <3>6. pendingBytes' <= MaxFrame
      BY <3>1, <3>5 DEF Counted
    <3> QED BY <3>3, <3>4, <3>6 DEF Counted
  <2>5. NoSocket \/ DialFails \/ TakeGreeting \/ TakeReply \/ TakeFrame \/ ReadExpires
          => (\E k : Fail(k)) \/ UNCHANGED queue
    BY DEF NoSocket, DialFails, TakeGreeting, TakeReply, TakeFrame, ReadExpires
  <2>6. Close \/ Lose \/ SendFails \/ GreetingExpires \/ RefuseFrame \/ CommandExpires
          => \E k : Fail(k)
    BY DEF Close, Lose, SendFails, GreetingExpires, RefuseFrame, CommandExpires
  <2>7. (\E f \in {Greeting, Rejection} : Connect(f)) \/ (\E name \in CommandNames : Send(name))
          \/ Dial \/ Read \/ Tick
          => UNCHANGED queue
    BY DEF Connect, Send, Dial, Read, Tick
  <2>8. (\E good \in BOOLEAN : Answer(good)) \/ (\E z \in Sizes : Emit(z)) \/ SendNotice \/ UNCHANGED vars
          => UNCHANGED queue
    BY DEF Answer, Emit, SendNotice, ToClient, vars, queue
  <2> QED BY <2>1, <2>2, <2>3, <2>4, <2>5, <2>6, <2>7, <2>8 DEF Next, Step
<1>3. TypeOK /\ Counted => PendingAccounted
  BY TotalsUnique DEF TypeOK, Counted, PendingAccounted
<1> QED BY <1>1, <1>2, <1>3, TypeCorrect, PTL DEF Spec

-----------------------------------------------------------------------------
(* The events that are still to be seen are numbered without a gap, as long *)
(* as connect is not called on an open connection: it forgets the wire but  *)
(* not the queue.                                                           *)
LEMMA NumberedUnchanged ==
  ASSUME Numbered, down' = down, pending' = pending, seen' = seen, emitted' = emitted,
         sock' => sock
  PROVE  Numbered'
  BY DEF Numbered, QueueNumbered, WireNumbered, EndsAtEmitted, Before, Queued

LEMMA NumberedAfterRelease ==
  ASSUME TypeOK, Numbered, Release, seen' = seen, emitted' = emitted
  PROVE  Numbered'
<1>1. /\ down' = <<>> /\ pending' = <<>> /\ ~sock' /\ seen' = seen /\ emitted' = emitted
  BY DEF Release
<1>2. Len(down') = 0 /\ Len(pending') = 0
  BY <1>1
<1>3. seen \in Nat /\ emitted \in Nat /\ Len(pending) \in Nat
  BY LenProperties DEF TypeOK
<1>4. Queued' <= emitted'
  BY <1>1, <1>2, <1>3 DEF Numbered, EndsAtEmitted, Queued
<1> QED BY <1>1, <1>2, <1>4 DEF Numbered, QueueNumbered, WireNumbered, EndsAtEmitted

(* The first frame leaves the wire; if it is an event, it is queued or seen. *)
LEMMA NumberedAfterTail ==
  ASSUME TypeOK, Numbered, down # <<>>, down' = Tail(down),
         Queued' = Queued + Advance(Head(down)), QueueNumbered',
         emitted' = emitted, sock' = sock
  PROVE  Numbered'
<1>1. /\ Len(down) \in Nat \ {0} /\ Len(down') = Len(down) - 1 /\ Head(down) = down[1]
      /\ \A i \in 1..Len(down') : down'[i] = down[i + 1]
  BY TailTyped DEF TypeOK
<1>2. \A i \in 1..Len(down') : i + 1 \in 1..Len(down)
  BY <1>1
<1>3. 1 \in 1..Len(down) /\ Queued' = down[1].number /\ Queued' <= emitted
  BY <1>1 DEF Numbered, WireNumbered, Before
<1>4. \A i \in 0..Len(down') : Before(i)' = down[i + 1].number
  BY <1>1, <1>3 DEF Before
<1>5. ASSUME NEW i \in 1..Len(down')
      PROVE  down'[i].number = Before(i - 1)' + Advance(down'[i]) /\ down'[i].number <= emitted
  <2>1. i + 1 \in 1..Len(down) /\ down'[i] = down[i + 1] /\ i - 1 \in 0..Len(down') /\ i # 0
    BY <1>1, <1>2
  <2>2. Before(i - 1)' = down[i].number /\ Before(i) = down[i].number
    BY <1>4, <2>1 DEF Before
  <2>3. down[i + 1].number = Before(i + 1 - 1) + Advance(down[i + 1]) /\ down[i + 1].number <= emitted
    BY <2>1 DEF Numbered, WireNumbered
  <2> QED BY <2>1, <2>2, <2>3
<1>6. WireNumbered'
  BY <1>5 DEF WireNumbered, Advance
<1>7. Before(Len(down))' = Before(Len(down))
  <2>1. Len(down') \in 0..Len(down') /\ Len(down') + 1 = Len(down) /\ Len(down) # 0
    BY <1>1
  <2> QED BY <1>4, <2>1 DEF Before
<1>8. EndsAtEmitted'
  BY <1>3, <1>7 DEF Numbered, EndsAtEmitted, Before
<1> QED BY <1>6, <1>8 DEF Numbered

(* A frame enters the wire at the other end. *)
LEMMA NumberedAfterAppend ==
  ASSUME TypeOK, Numbered, sock, NEW f \in Frame, down' = Append(down, f),
         emitted' = emitted + Advance(f), f.number = emitted',
         pending' = pending, seen' = seen
  PROVE  Numbered'
<1>1. /\ Len(down) \in Nat /\ Len(down') = Len(down) + 1
      /\ \A i \in 1..Len(down) : down'[i] = down[i]
      /\ down'[Len(down) + 1] = f
  BY AppendElements DEF TypeOK
<1>2. emitted \in Nat /\ emitted' \in Nat /\ emitted <= emitted' /\ Advance(f) \in {0, 1}
  BY DEF TypeOK, Advance
<1>3. Queued' = Queued /\ Queued \in Nat
  BY LenProperties DEF Queued, TypeOK
<1>4. \A i \in 0..Len(down) : Before(i)' = Before(i)
  BY <1>1, <1>3 DEF Before
<1>5. \A i \in 1..Len(down) : down[i] \in Frame /\ down[i].number \in Nat
  <2>1. \A i \in 1..Len(down) : down[i] \in Frame
    BY ElementOfSeq DEF TypeOK
  <2> QED BY <2>1 DEF Frame
<1>6. ASSUME NEW i \in 1..Len(down')
      PROVE  down'[i].number = Before(i - 1)' + Advance(down'[i]) /\ down'[i].number <= emitted'
  <2>1. i - 1 \in 0..Len(down) /\ Before(i - 1)' = Before(i - 1)
    BY <1>1, <1>4
  <2>2. CASE i \in 1..Len(down)
    <3>1. down[i].number = Before(i - 1) + Advance(down[i]) /\ down[i].number <= emitted
      BY <2>2 DEF Numbered, WireNumbered
    <3>2. down'[i] = down[i]
      BY <1>1, <2>2
    <3> QED BY <1>2, <1>5, <2>1, <2>2, <3>1, <3>2
  <2>3. CASE i = Len(down) + 1
    <3>1. Before(i - 1) = emitted
      BY <1>1, <2>3 DEF Numbered, EndsAtEmitted
    <3>2. down'[i] = f
      BY <1>1, <2>3
    <3> QED BY <1>2, <2>1, <3>1, <3>2
  <2> QED BY <1>1, <2>2, <2>3
<1>7. WireNumbered'
  BY <1>6 DEF WireNumbered, Advance
<1>8. Before(Len(down))' = emitted'
  BY <1>1 DEF Before
<1>9. EndsAtEmitted'
  BY <1>2, <1>3, <1>8 DEF Numbered, EndsAtEmitted, Before
<1>10. QueueNumbered'
  BY DEF Numbered, QueueNumbered
<1> QED BY <1>7, <1>9, <1>10 DEF Numbered

LEMMA NumberedStep ==
  ASSUME TypeOK, Emptied, Numbered, [Next]_vars, \A f : Connect(f) => ~sock
  PROVE  Numbered'
<1>1. ASSUME NEW f \in {Greeting, Rejection}, Connect(f) PROVE Numbered'
  <2>1. /\ ~sock /\ sock' /\ down' = <<f>> /\ pending' = pending /\ seen' = 0 /\ emitted' = 0
    BY <1>1 DEF Connect, queue, TypeOK
  <2>2. pending = <<>>
    BY <2>1 DEF Emptied
  <2>3. f.number = 0 /\ f.kind # "event"
    BY DEF Greeting, Rejection
  <2>4. /\ Len(pending') = 0 /\ Len(down') = 1 /\ down'[1] = f /\ Queued' = 0
    BY <2>1, <2>2 DEF Queued
  <2>5. Before(0)' = 0 /\ Before(1)' = 0 /\ Advance(f) = 0
    BY <2>3, <2>4 DEF Before, Advance
  <2>6. Before(Len(down))' = 0
    BY <2>4, <2>5
  <2>7. QueueNumbered' /\ EndsAtEmitted'
    BY <2>1, <2>4, <2>6 DEF QueueNumbered, EndsAtEmitted
  <2>8. ASSUME NEW i \in 1..Len(down')
        PROVE  down'[i].number = Before(i - 1)' + Advance(down'[i]) /\ down'[i].number <= emitted'
    <3>1. i = 1 /\ i - 1 = 0
      BY <2>4
    <3> QED BY <2>1, <2>3, <2>4, <2>5, <3>1
  <2>9. WireNumbered'
    BY <2>8 DEF WireNumbered, Advance
  <2> QED BY <2>7, <2>9 DEF Numbered
<1>2. ASSUME NEW k, Fail(k) PROVE Numbered'
  BY <1>2, FailEffect, NumberedAfterRelease DEF Fail
<1>3. CASE UNCHANGED <<sock, pending, seen, emitted, down>>
  BY <1>3, NumberedUnchanged
<1>4. Dial \/ DialFails \/ NoSocket \/ (\E name \in CommandNames : Send(name)) \/ Read \/ Tick \/ UNCHANGED vars
        => UNCHANGED <<sock, pending, seen, emitted, down>>
  BY DoneEffect DEF Dial, DialFails, NoSocket, Send, Read, Tick, flags, queue, switch, vars
<1>5. CASE ReadPending /\ ~Fail("protocol")
  <2>1. /\ pending # <<>> /\ pending' = Tail(pending) /\ seen' = Head(pending).number
        /\ sock' = sock /\ down' = down /\ emitted' = emitted
    BY <1>5 DEF ReadPending, flags, switch
  <2>2. /\ Len(pending) \in Nat \ {0} /\ Len(pending') = Len(pending) - 1
        /\ Head(pending) = pending[1]
        /\ \A i \in 1..Len(pending') : pending'[i] = pending[i + 1]
    BY <2>1, TailTyped DEF TypeOK
  <2>3. seen' = seen + 1 /\ seen \in Nat
    BY <2>1, <2>2 DEF Numbered, QueueNumbered, TypeOK
  <2>4. Queued' = Queued
    BY <2>2, <2>3 DEF Queued
  <2>5. ASSUME NEW i \in 1..Len(pending')
        PROVE  pending'[i].kind = "event" /\ pending'[i].number = seen' + i
    <3>1. i + 1 \in 1..Len(pending) /\ pending'[i] = pending[i + 1]
      BY <2>2
    <3>2. pending[i + 1].kind = "event" /\ pending[i + 1].number = seen + (i + 1)
      BY <3>1 DEF Numbered, QueueNumbered
    <3> QED BY <2>3, <3>1, <3>2
  <2>6. QueueNumbered'
    BY <2>5 DEF QueueNumbered
  <2> QED BY <2>1, <2>4, <2>6 DEF Numbered, WireNumbered, EndsAtEmitted, Before
<1>6. ASSUME down # <<>>, down' = Tail(down), Advance(Head(down)) = 0,
             UNCHANGED <<sock, pending, seen, emitted>>
      PROVE  Numbered'
  <2>1. Queued \in Nat
    BY LenProperties DEF Queued, TypeOK
  <2>2. Queued' = Queued + Advance(Head(down))
    BY <1>6, <2>1 DEF Queued
  <2>3. QueueNumbered'
    BY <1>6 DEF Numbered, QueueNumbered
  <2> QED BY <1>6, <2>2, <2>3, NumberedAfterTail
<1>7. CASE TakeGreeting /\ ~Fail("lost")
  <2>1. /\ down # <<>> /\ down' = Tail(down) /\ Head(down).kind = "greeting"
        /\ Done("ok", 0) /\ pending' = pending
    BY <1>7 DEF TakeGreeting, queue
  <2> QED BY <1>6, <2>1, DoneEffect DEF Advance
<1>8. CASE TakeReply /\ ~Fail("denied")
  <2>1. /\ down # <<>> /\ down' = Tail(down) /\ Head(down).kind = "reply"
        /\ (\E k, r : Done(k, r)) /\ pending' = pending
    BY <1>8 DEF TakeReply, queue
  <2>2. UNCHANGED <<sock, seen, emitted>>
    BY <2>1, DoneEffect
  <2> QED BY <1>6, <2>1, <2>2 DEF Advance
<1>9. CASE KeepEvent /\ ~Fail("protocol")
  <2> DEFINE f == Head(down)
  <2>1. /\ down # <<>> /\ down' = Tail(down) /\ f.kind = "event"
        /\ pending' = Append(pending, f)
        /\ sock' = sock /\ seen' = seen /\ emitted' = emitted
    BY <1>9 DEF KeepEvent, flags, switch
  <2>2. f \in Frame /\ f = down[1] /\ 1 \in 1..Len(down)
    BY <2>1, TailTyped DEF TypeOK
  <2>3. /\ Len(pending) \in Nat /\ Len(pending') = Len(pending) + 1
        /\ \A i \in 1..Len(pending) : pending'[i] = pending[i]
        /\ pending'[Len(pending) + 1] = f
    BY <2>1, <2>2, AppendElements DEF TypeOK
  <2>4. seen \in Nat /\ Advance(f) = 1
    BY <2>1 DEF TypeOK, Advance
  <2>5. f.number = Queued + 1
    BY <2>2, <2>4 DEF Numbered, WireNumbered, Before
  <2> HIDE DEF f
  <2>6. Queued' = Queued + 1
    BY <2>1, <2>3, <2>4 DEF Queued
  <2>7. ASSUME NEW i \in 1..Len(pending')
        PROVE  pending'[i].kind = "event" /\ pending'[i].number = seen' + i
    <3>1. CASE i \in 1..Len(pending)
      BY <2>1, <2>3, <3>1 DEF Numbered, QueueNumbered
    <3>2. CASE i = Len(pending) + 1
      <4>1. pending'[i] = f
        BY <2>3, <3>2
      <4>2. f.number = seen' + i
        BY <2>1, <2>3, <2>4, <2>5, <3>2 DEF Queued
      <4> QED BY <2>1, <4>1, <4>2
    <3> QED BY <2>3, <3>1, <3>2
  <2>8. QueueNumbered'
    BY <2>7 DEF QueueNumbered
  <2> QED BY <2>1, <2>4, <2>6, <2>8, NumberedAfterTail DEF f
<1>10. CASE TakeFrame /\ ~Fail("protocol")
  <2> DEFINE f == Head(down)
  <2>1. /\ op = "read" /\ down # <<>> /\ down' = Tail(down)
        /\ seen' = IF f.kind = "event" THEN f.number ELSE seen
        /\ sock' = sock /\ pending' = pending /\ emitted' = emitted
    BY <1>10 DEF TakeFrame, flags, queue, switch
  <2>2. pending = <<>> /\ Len(pending) = 0 /\ Len(pending') = 0
    BY <2>1 DEF Emptied, Held
  <2>3. f \in Frame /\ f = down[1] /\ 1 \in 1..Len(down)
    BY <2>1, TailTyped DEF TypeOK
  <2>4. seen \in Nat /\ Queued = seen
    BY <2>2 DEF TypeOK, Queued
  <2>5. f.number = seen + Advance(f)
    BY <2>3, <2>4 DEF Numbered, WireNumbered, Before
  <2>6. f.number \in Nat
    BY <2>3 DEF Frame
  <2> HIDE DEF f
  <2>7. seen' = seen + Advance(f)
    BY <2>1, <2>4, <2>5 DEF Advance
  <2>8. Queued' = Queued + Advance(f)
    BY <2>2, <2>4, <2>7 DEF Queued, Advance
  <2>9. QueueNumbered'
    BY <2>2 DEF QueueNumbered
  <2> QED BY <2>1, <2>8, <2>9, NumberedAfterTail DEF f
<1>11. CASE ReadExpires /\ ~Fail("lost")
  BY <1>11, <1>3, DoneEffect DEF ReadExpires, queue
<1>12. ASSUME NEW good \in BOOLEAN, Answer(good) PROVE Numbered'
  <2> DEFINE f == Reply(Head(up).cmd, good)
  <2>1. /\ up # <<>> /\ sock /\ down' = Append(down, f)
        /\ emitted' = emitted /\ pending' = pending /\ seen' = seen /\ sock' = sock
    BY <1>12 DEF Answer, ToClient, queue, flags
  <2>2. Head(up) \in [name : CommandNames, cmd : Nat]
    BY <2>1, TailTyped DEF TypeOK
  <2>3. f \in Frame
    BY <2>2, FramesTyped DEF TypeOK
  <2>4. f.number = emitted /\ Advance(f) = 0 /\ emitted \in Nat
    BY DEF Reply, Advance, TypeOK
  <2> HIDE DEF f
  <2> QED BY <2>1, <2>3, <2>4, NumberedAfterAppend
<1>13. ASSUME NEW z \in Sizes, Emit(z) PROVE Numbered'
  <2> DEFINE f == Event(emitted + 1, z)
  <2>1. /\ sock /\ down' = Append(down, f) /\ emitted' = emitted + 1
        /\ pending' = pending /\ seen' = seen /\ sock' = sock
    BY <1>13 DEF Emit, ToClient, queue, flags
  <2>2. f \in Frame
    <3>1. emitted + 1 \in Nat /\ z \in Nat
      BY <1>13, LimitAssumption DEF TypeOK, LimitAssumption
    <3> QED BY <3>1, FramesTyped
  <2>3. f.number = emitted + 1 /\ Advance(f) = 1
    BY DEF Event, Advance
  <2> HIDE DEF f
  <2> QED BY <2>1, <2>2, <2>3, NumberedAfterAppend
<1>14. CASE SendNotice
  <2>1. /\ sock /\ down' = Append(down, Notice) /\ emitted' = emitted
        /\ pending' = pending /\ seen' = seen /\ sock' = sock
    BY <1>14 DEF SendNotice, ToClient, queue, flags, switch
  <2>2. Notice \in Frame /\ Notice.number = emitted /\ Advance(Notice) = 0 /\ emitted \in Nat
    BY FramesTyped DEF TypeOK, Notice, Advance
  <2> HIDE DEF Notice
  <2> QED BY <2>1, <2>2, NumberedAfterAppend
<1>15. Close \/ Lose \/ SendFails \/ GreetingExpires \/ RefuseFrame \/ CommandExpires
         => \E k : Fail(k)
  BY DEF Close, Lose, SendFails, GreetingExpires, RefuseFrame, CommandExpires
<1> QED BY <1>1, <1>2, <1>3, <1>4, <1>5, <1>7, <1>8, <1>9, <1>10, <1>11, <1>12,
           <1>13, <1>14, <1>15 DEF Next, Step

(* What read_event returns, from the queue or from the socket, is the next  *)
(* event, or no event at all.                                               *)
LEMMA NextSeen ==
  ASSUME TypeOK, Emptied, Numbered, ReadPending \/ TakeFrame, ~Fail("protocol")
  PROVE  /\ sock /\ sock' = sock /\ emitted' = emitted
         /\ IF result'.kind = "event" THEN seen < emitted /\ seen' = seen + 1 ELSE seen' = seen
<1>1. CASE ReadPending
  <2>1. /\ pending # <<>> /\ seen' = Head(pending).number /\ sock' = sock /\ emitted' = emitted
        /\ result'.kind = "event"
    BY <1>1 DEF ReadPending, Return, Outcome, flags, switch
  <2>2. Len(pending) \in Nat \ {0} /\ Head(pending) = pending[1]
    BY <2>1, TailTyped DEF TypeOK
  <2>3. seen' = seen + 1
    BY <2>1, <2>2 DEF Numbered, QueueNumbered
  <2>4. seen < emitted
    BY <2>2 DEF TypeOK, Numbered, EndsAtEmitted, Queued
  <2>5. sock
    BY <2>1 DEF Emptied
  <2> QED BY <2>1, <2>3, <2>4, <2>5
<1>2. CASE TakeFrame
  <2> DEFINE f == Head(down)
  <2>1. /\ op = "read" /\ down # <<>> /\ sock' = sock /\ emitted' = emitted
        /\ seen' = IF f.kind = "event" THEN f.number ELSE seen
        /\ result'.kind = IF f.kind = "event" THEN "event" ELSE "other"
    BY <1>2 DEF TakeFrame, Return, Outcome, flags, switch
  <2>2. pending = <<>> /\ Len(pending) = 0 /\ sock
    BY <2>1 DEF Emptied, Held
  <2>3. f = down[1] /\ 1 \in 1..Len(down)
    BY <2>1, TailTyped DEF TypeOK
  <2>4. Queued = seen /\ seen \in Nat /\ emitted \in Nat
    BY <2>2 DEF Queued, TypeOK
  <2>5. f.number = seen + Advance(f) /\ f.number <= emitted
    BY <2>3, <2>4 DEF Numbered, WireNumbered, Before
  <2> HIDE DEF f
  <2>6. CASE f.kind = "event"
    BY <2>1, <2>2, <2>4, <2>5, <2>6 DEF Advance
  <2>7. CASE f.kind # "event"
    BY <2>1, <2>2, <2>7
  <2> QED BY <2>6, <2>7
<1> QED BY <1>1, <1>2

(* A client that is not used to connect twice dials without a socket.       *)
DialsClosed == op = "dial" => ~sock

LEMMA DialsClosedStep ==
  ASSUME ~ReconnectOpen, DialsClosed, [Next]_vars
  PROVE  DialsClosed'
<1> USE DEF DialsClosed
<1>1. CASE UNCHANGED <<op, sock>>
  BY <1>1
<1>2. CASE op' # "dial" \/ ~sock'
  BY <1>2
<1>3. (\E k : Fail(k)) \/ (\E k, r : Done(k, r)) => op' # "dial"
  BY FailEffect, DoneEffect
<1>4. Dial => ~sock'
  BY DEF Dial, flags
<1>5. NoSocket \/ DialFails \/ TakeGreeting \/ TakeReply \/ ReadExpires
        => (\E k : Fail(k)) \/ (\E k, r : Done(k, r))
  BY DEF NoSocket, DialFails, TakeGreeting, TakeReply, ReadExpires
<1>6. Close \/ Lose \/ SendFails \/ GreetingExpires \/ RefuseFrame \/ CommandExpires
        => \E k : Fail(k)
  BY DEF Close, Lose, SendFails, GreetingExpires, RefuseFrame, CommandExpires
<1>7. ReadPending \/ TakeFrame => (\E k : Fail(k)) \/ op' # "dial"
  BY DEF ReadPending, TakeFrame, Return
<1>8. KeepEvent => (\E k : Fail(k)) \/ UNCHANGED <<op, sock>>
  BY DEF KeepEvent, call, flags
<1>9. (\E f \in {Greeting, Rejection} : Connect(f)) \/ (\E name \in CommandNames : Send(name)) \/ Read
        => op' # "dial"
  BY DEF Connect, Send, Read, Begin, CommandNames
<1>10. Tick \/ (\E good \in BOOLEAN : Answer(good)) \/ (\E z \in Sizes : Emit(z)) \/ SendNotice
         \/ UNCHANGED vars => UNCHANGED <<op, sock>>
  BY DEF Tick, Answer, Emit, SendNotice, ToClient, call, flags, vars
<1> HIDE DEF DialsClosed
<1> QED BY <1>1, <1>2, <1>3, <1>4, <1>5, <1>6, <1>7, <1>8, <1>9, <1>10 DEF Next, Step

(* ESLClient implements EventFeed: read_event hands over the events of a    *)
(* connection in order, none skipped and none repeated, however commands    *)
(* interleave with them (read_event, esl.py:599-622; _command, 628-664), as *)
(* long as connect is not called while a connection is open.                *)
THEOREM FeedImplemented ==
  ASSUME ~ReconnectOpen
  PROVE  Spec => ImplementsFeed
<1>1. Init => Feed!Init /\ Numbered /\ DialsClosed
  <2> SUFFICES ASSUME Init PROVE Feed!Init /\ Numbered /\ DialsClosed
    OBVIOUS
  <2>1. ~sock /\ sock = FALSE /\ emitted = 0 /\ seen = 0 /\ op = "idle"
    BY DEF Init
  <2>2. Len(pending) = 0 /\ Len(down) = 0
    BY DEF Init
  <2>3. Queued = 0
    BY <2>1, <2>2 DEF Queued
  <2> QED BY <2>1, <2>2, <2>3
          DEF Feed!Init, Numbered, DialsClosed, QueueNumbered, WireNumbered, EndsAtEmitted
<1>2. Inv /\ Numbered /\ DialsClosed /\ [Next]_vars => [Feed!Next]_Feed!vars
  <2> SUFFICES ASSUME Inv, Numbered, DialsClosed, [Next]_vars PROVE [Feed!Next]_Feed!vars
    OBVIOUS
  <2> USE DEF Feed!vars
  <2>1. CASE UNCHANGED <<sock, emitted, seen>>
    BY <2>1
  <2>2. ASSUME NEW f, Connect(f) PROVE Feed!Open
    BY <2>2 DEF Connect, DialsClosed, Feed!Open, Inv, TypeOK
  <2>3. ASSUME NEW k, Fail(k) PROVE [Feed!Drop]_Feed!vars
    <3>1. sock' = FALSE /\ emitted' = emitted /\ seen' = seen /\ sock \in BOOLEAN
      BY <2>3, FailEffect DEF Fail, Release, Inv, TypeOK
    <3> QED BY <3>1 DEF Feed!Drop
  <2>4. Dial \/ DialFails \/ NoSocket \/ (\E name \in CommandNames : Send(name)) \/ Read \/ Tick \/ SendNotice
        \/ (\E good \in BOOLEAN : Answer(good)) \/ UNCHANGED vars
          => UNCHANGED <<sock, emitted, seen>>
    BY DoneEffect DEF Dial, DialFails, NoSocket, Send, Read, Tick, SendNotice, Answer, ToClient,
                      flags, switch, vars
  <2>5. CASE (ReadPending \/ TakeFrame) /\ ~Fail("protocol")
    <3>1. /\ sock /\ sock' = sock /\ emitted' = emitted
          /\ (seen < emitted /\ seen' = seen + 1) \/ seen' = seen
      BY <2>5, NextSeen DEF Inv, Closed
    <3> QED BY <3>1 DEF Feed!Deliver, Feed!Next
  <2>7. ASSUME NEW z \in Sizes, Emit(z) PROVE Feed!Emit
    BY <2>7 DEF Emit, ToClient, flags, Feed!Emit
  <2>8. TakeGreeting \/ TakeReply \/ ReadExpires
          => UNCHANGED <<sock, emitted, seen>> \/ \E k : Fail(k)
    BY DoneEffect DEF TakeGreeting, TakeReply, ReadExpires
  <2>9. KeepEvent => UNCHANGED <<sock, emitted, seen>> \/ \E k : Fail(k)
    BY DEF KeepEvent, flags, switch
  <2>10. Close \/ Lose \/ SendFails \/ GreetingExpires \/ RefuseFrame \/ CommandExpires
           => \E k : Fail(k)
    BY DEF Close, Lose, SendFails, GreetingExpires, RefuseFrame, CommandExpires
  <2> QED BY <2>1, <2>2, <2>3, <2>4, <2>5, <2>7, <2>8, <2>9, <2>10
          DEF Next, Step, Feed!Next
<1>3. Inv /\ Numbered /\ DialsClosed /\ [Next]_vars => Numbered' /\ DialsClosed'
  BY NumberedStep, DialsClosedStep DEF Inv, Closed, Connect, DialsClosed
<1>4. Spec => []Inv
  BY InvInductive
<1> QED BY <1>1, <1>2, <1>3, <1>4, PTL DEF Spec, ImplementsFeed, Feed!Spec
-----------------------------------------------------------------------------
(* The constants come from ESLConfig's validators.                          *)

(* Whatever the environment sets, a limit ends between its minimum and its  *)
(* maximum, in the unit it is clamped in (the validators of ESLConfig).     *)
LEMMA ClampedWithinBounds ==
  ASSUME NEW s \in [default : Nat, min : Nat, max : Nat],
         s.min <= s.default, s.default <= s.max, NEW raw \in RawValue
  PROVE  Clamped(s, raw) \in 2 * s.min .. 2 * s.max
  BY DEF RawValue, Clamped

(* The limits meet what ESLFraming and ESLClient assume of them             *)
(* (LimitAssumption): finite and positive, whatever the environment sets,   *)
(* text and infinities included; and a frame cap always leaves room for a   *)
(* header and a body that meet the smallest caps.                           *)
THEOREM LimitsMeetAssumption ==
  ASSUME NEW timeout \in RawValue, NEW header \in RawValue, NEW body \in RawValue, NEW frame \in RawValue
  PROVE  /\ normalize_timeout(timeout) \in 2..60
         /\ normalize_max_header_bytes(header) \in HeaderSetting.min..HeaderSetting.max
         /\ normalize_max_body_bytes(body) \in BodySetting.min..BodySetting.max
         /\ normalize_max_frame_bytes(frame) \in HeaderSetting.min + BodySetting.min .. FrameSetting.max
         /\ {normalize_timeout(timeout), normalize_max_header_bytes(header),
             normalize_max_body_bytes(body), normalize_max_frame_bytes(frame)}
              \subseteq Nat \ {0}
  <1>1. normalize_timeout(timeout) \in 2..60
    BY ClampedWithinBounds DEF normalize_timeout, TimeoutSetting, Setting
  <1>2. normalize_max_header_bytes(header) \in HeaderSetting.min..HeaderSetting.max
    BY ClampedWithinBounds DEF normalize_max_header_bytes, HeaderSetting, Setting
  <1>3. normalize_max_body_bytes(body) \in BodySetting.min..BodySetting.max
    BY ClampedWithinBounds DEF normalize_max_body_bytes, BodySetting, Setting
  <1>4. normalize_max_frame_bytes(frame) \in HeaderSetting.min + BodySetting.min .. FrameSetting.max
    BY ClampedWithinBounds DEF normalize_max_frame_bytes, FrameSetting, HeaderSetting, BodySetting, Setting
  <1> QED BY <1>1, <1>2, <1>3, <1>4 DEF FrameSetting, HeaderSetting, BodySetting, Setting

(* Validating twice is validating once: a configuration rebuilt from the    *)
(* settings of another has the same limits.                                 *)
THEOREM NormalizingTwice ==
  ASSUME NEW raw \in RawValue
  PROVE  /\ normalize_timeout(Number(normalize_timeout(raw))) = normalize_timeout(raw)
         /\ normalize_max_header_bytes(Number(2 * normalize_max_header_bytes(raw)))
              = normalize_max_header_bytes(raw)
         /\ normalize_max_body_bytes(Number(2 * normalize_max_body_bytes(raw)))
              = normalize_max_body_bytes(raw)
         /\ normalize_max_frame_bytes(Number(2 * normalize_max_frame_bytes(raw)))
              = normalize_max_frame_bytes(raw)
  <1>1. normalize_timeout(Number(normalize_timeout(raw))) = normalize_timeout(raw)
    BY LimitsMeetAssumption DEF normalize_timeout, Clamped, Number, TimeoutSetting, Setting
  <1>2. ASSUME NEW s \in [default : Nat, min : Nat, max : Nat], NEW n \in s.min..s.max
        PROVE  Clamped(s, Number(2 * n)) \div 2 = n
    BY DEF Clamped, Number
  <1>3. normalize_max_header_bytes(Number(2 * normalize_max_header_bytes(raw)))
          = normalize_max_header_bytes(raw)
    BY <1>2, LimitsMeetAssumption DEF normalize_max_header_bytes, HeaderSetting, Setting
  <1>4. normalize_max_body_bytes(Number(2 * normalize_max_body_bytes(raw)))
          = normalize_max_body_bytes(raw)
    BY <1>2, LimitsMeetAssumption DEF normalize_max_body_bytes, BodySetting, Setting
  <1>5. normalize_max_frame_bytes(Number(2 * normalize_max_frame_bytes(raw)))
          = normalize_max_frame_bytes(raw)
    BY <1>2, LimitsMeetAssumption DEF normalize_max_frame_bytes, FrameSetting, HeaderSetting, BodySetting, Setting
  <1> QED BY <1>1, <1>3, <1>4, <1>5

-----------------------------------------------------------------------------
(* What the numbers of the events still promise when another thread empties *)
(* the queue, or the wire, under the method that is being executed: none    *)
(* comes a second time and none out of turn, though some may be missing.    *)
Comes(n) == seen < n /\ n <= emitted
QueueAscends ==
  /\ \A i \in 1..Len(pending) : Comes(pending[i].number)
  /\ \A i, j \in 1..Len(pending) : i < j => pending[i].number < pending[j].number
WireAscends ==
  /\ \A k \in 1..Len(down) : down[k].kind = "event" => Comes(down[k].number)
  /\ \A k, l \in 1..Len(down) :
       down[k].kind = "event" /\ down[l].kind = "event" /\ k < l =>
         down[k].number < down[l].number
QueueFirst ==
  \A i \in 1..Len(pending), k \in 1..Len(down) :
    down[k].kind = "event" => pending[i].number < down[k].number
Ascending == seen <= emitted /\ QueueAscends /\ WireAscends /\ QueueFirst

(* Whatever is taken from the front of either keeps it so.                  *)
LEMMA AscendingFewer ==
  ASSUME TypeOK, Ascending, NEW m \in Nat, NEW n \in Nat,
         Len(pending') \in Nat, Len(down') \in Nat,
         \A i \in 1..Len(pending') : i + m \in 1..Len(pending) /\ pending'[i] = pending[i + m],
         \A i \in 1..Len(down') : i + n \in 1..Len(down) /\ down'[i] = down[i + n],
         seen' = seen, emitted' = emitted
  PROVE  Ascending'
<1>1. QueueAscends'
  <2>1. ASSUME NEW i \in 1..Len(pending')
        PROVE  seen' < pending'[i].number /\ pending'[i].number <= emitted'
    <3>1. i + m \in 1..Len(pending) /\ pending'[i] = pending[i + m]
      OBVIOUS
    <3>2. Comes(pending[i + m].number)
      BY <3>1 DEF Ascending, QueueAscends
    <3> QED BY <3>1, <3>2 DEF Comes
  <2>2. ASSUME NEW i \in 1..Len(pending'), NEW j \in 1..Len(pending'), i < j
        PROVE  pending'[i].number < pending'[j].number
    <3>1. /\ i + m \in 1..Len(pending) /\ pending'[i] = pending[i + m]
          /\ j + m \in 1..Len(pending) /\ pending'[j] = pending[j + m] /\ i + m < j + m
      BY <2>2
    <3> QED BY <3>1 DEF Ascending, QueueAscends
  <2> QED BY <2>1, <2>2 DEF QueueAscends, Comes
<1>2. WireAscends'
  <2>1. ASSUME NEW k \in 1..Len(down'), down'[k].kind = "event"
        PROVE  seen' < down'[k].number /\ down'[k].number <= emitted'
    <3>1. k + n \in 1..Len(down) /\ down'[k] = down[k + n]
      OBVIOUS
    <3>2. Comes(down[k + n].number)
      BY <2>1, <3>1 DEF Ascending, WireAscends
    <3> QED BY <3>1, <3>2 DEF Comes
  <2>2. ASSUME NEW k \in 1..Len(down'), NEW l \in 1..Len(down'),
               down'[k].kind = "event", down'[l].kind = "event", k < l
        PROVE  down'[k].number < down'[l].number
    <3>1. /\ k + n \in 1..Len(down) /\ down'[k] = down[k + n]
          /\ l + n \in 1..Len(down) /\ down'[l] = down[l + n] /\ k + n < l + n
      BY <2>2
    <3> QED BY <2>2, <3>1 DEF Ascending, WireAscends
  <2> QED BY <2>1, <2>2 DEF WireAscends, Comes
<1>3. QueueFirst'
  BY DEF Ascending, QueueFirst
<1> QED BY <1>1, <1>2, <1>3 DEF Ascending

LEMMA AscendingUnchanged ==
  ASSUME TypeOK, Ascending, pending' = pending, down' = down, seen' = seen, emitted' = emitted
  PROVE  Ascending'
  BY DEF Ascending, QueueAscends, WireAscends, QueueFirst, Comes

LEMMA AscendingAfterRelease ==
  ASSUME TypeOK, Ascending, pending' = <<>>, down' = <<>>, seen' = seen, emitted' = emitted
  PROVE  Ascending'
<1>1. Len(pending') = 0 /\ Len(down') = 0
  OBVIOUS
<1> QED BY <1>1 DEF Ascending, QueueAscends, WireAscends, QueueFirst

(* A frame enters the wire at the other end. *)
LEMMA AscendingAfterAppend ==
  ASSUME TypeOK, Ascending, NEW f \in Frame, down' = Append(down, f),
         pending' = pending, seen' = seen, emitted <= emitted', emitted' \in Nat,
         f.kind = "event" => f.number = emitted' /\ emitted < emitted'
  PROVE  Ascending'
<1>1. /\ Len(down) \in Nat /\ Len(down') = Len(down) + 1
      /\ \A i \in 1..Len(down) : down'[i] = down[i]
      /\ down'[Len(down) + 1] = f
  BY AppendElements DEF TypeOK
<1>2. /\ \A i \in 1..Len(down) : down[i].number \in Nat
      /\ \A i \in 1..Len(pending) : pending[i].number \in Nat
      /\ seen \in Nat /\ emitted \in Nat
  <2>1. /\ \A i \in 1..Len(down) : down[i] \in Frame
        /\ \A i \in 1..Len(pending) : pending[i] \in Frame
    BY ElementOfSeq DEF TypeOK
  <2> QED BY <2>1 DEF Frame, TypeOK
<1>3. \A i \in 1..Len(down') : i \in 1..Len(down) \/ (i = Len(down) + 1 /\ down'[i] = f)
  BY <1>1
<1>4. QueueAscends'
  BY <1>2 DEF Ascending, QueueAscends, Comes
<1>5. WireAscends'
  <2>1. ASSUME NEW k \in 1..Len(down'), down'[k].kind = "event"
        PROVE  seen' < down'[k].number /\ down'[k].number <= emitted'
    <3>1. CASE k \in 1..Len(down)
      BY <1>1, <1>2, <2>1, <3>1 DEF Ascending, WireAscends, Comes
    <3>2. CASE k = Len(down) + 1 /\ down'[k] = f
      BY <1>2, <2>1, <3>2 DEF Ascending, Comes
    <3> QED BY <1>3, <3>1, <3>2
  <2>2. ASSUME NEW k \in 1..Len(down'), NEW l \in 1..Len(down'),
               down'[k].kind = "event", down'[l].kind = "event", k < l
        PROVE  down'[k].number < down'[l].number
    <3>1. k \in 1..Len(down) /\ down'[k] = down[k]
      BY <1>1, <2>2
    <3>2. CASE l \in 1..Len(down)
      BY <1>1, <2>2, <3>1, <3>2 DEF Ascending, WireAscends
    <3>3. CASE l = Len(down) + 1 /\ down'[l] = f
      BY <1>2, <2>2, <3>1, <3>3 DEF Ascending, WireAscends, Comes
    <3> QED BY <1>3, <3>2, <3>3
  <2> QED BY <2>1, <2>2 DEF WireAscends, Comes
<1>6. QueueFirst'
  <2> SUFFICES ASSUME NEW i \in 1..Len(pending'), NEW k \in 1..Len(down'), down'[k].kind = "event"
               PROVE  pending'[i].number < down'[k].number
    BY DEF QueueFirst
  <2>1. CASE k \in 1..Len(down)
    BY <1>1, <2>1 DEF Ascending, QueueFirst
  <2>2. CASE k = Len(down) + 1 /\ down'[k] = f
    BY <1>2, <2>2 DEF Ascending, QueueAscends, Comes
  <2> QED BY <1>3, <2>1, <2>2
<1> QED BY <1>2, <1>4, <1>5, <1>6 DEF Ascending

(* An event leaves the queue, or the wire with the queue empty, and is seen. *)
LEMMA AscendingAfterSeen ==
  ASSUME TypeOK, Held, Ascending, ReadPending \/ TakeFrame, ~Fail("protocol")
  PROVE  /\ Ascending' /\ sock' = sock
         /\ IF result'.kind = "event" THEN seen' > seen ELSE seen' = seen
<1>0. /\ seen \in Nat /\ emitted \in Nat
      /\ \A i \in 1..Len(down) : down[i].number \in Nat
      /\ \A i \in 1..Len(pending) : pending[i].number \in Nat
  <2>1. /\ \A i \in 1..Len(down) : down[i] \in Frame
        /\ \A i \in 1..Len(pending) : pending[i] \in Frame
    BY ElementOfSeq DEF TypeOK
  <2> QED BY <2>1 DEF Frame, TypeOK
<1>1. CASE ReadPending
  <2>1. /\ pending # <<>> /\ pending' = Tail(pending) /\ seen' = Head(pending).number
        /\ sock' = sock /\ down' = down /\ emitted' = emitted /\ result'.kind = "event"
    BY <1>1 DEF ReadPending, flags, switch, Return, Outcome
  <2>2. /\ Len(pending) \in Nat \ {0} /\ Len(pending') = Len(pending) - 1
        /\ Head(pending) = pending[1]
        /\ \A i \in 1..Len(pending') : pending'[i] = pending[i + 1]
    BY <2>1, TailTyped DEF TypeOK
  <2>3. 1 \in 1..Len(pending) /\ seen' = pending[1].number /\ Comes(pending[1].number)
    BY <2>1, <2>2 DEF Ascending, QueueAscends
  <2>4. \A i \in 1..Len(pending') : i + 1 \in 1..Len(pending) /\ 1 < i + 1
    BY <2>2
  <2>5. QueueAscends'
    BY <1>0, <2>1, <2>2, <2>3, <2>4 DEF Ascending, QueueAscends, Comes
  <2>6. WireAscends'
    BY <1>0, <2>1, <2>3 DEF Ascending, WireAscends, QueueFirst, Comes
  <2>7. QueueFirst'
    BY <2>1, <2>2, <2>4 DEF Ascending, QueueFirst
  <2> QED BY <1>0, <2>1, <2>3, <2>5, <2>6, <2>7 DEF Ascending, Comes
<1>2. CASE TakeFrame
  <2>1. /\ op = "read" /\ down # <<>> /\ down' = Tail(down) /\ sock' = sock
        /\ seen' = IF Head(down).kind = "event" THEN Head(down).number ELSE seen
        /\ result'.kind = IF Head(down).kind = "event" THEN "event" ELSE "other"
        /\ pending' = pending /\ emitted' = emitted
    BY <1>2 DEF TakeFrame, Return, Outcome, flags, queue, switch
  <2>2. /\ Len(down) \in Nat \ {0} /\ Len(down') = Len(down) - 1 /\ Head(down) = down[1]
        /\ \A i \in 1..Len(down') : down'[i] = down[i + 1]
    BY <2>1, TailTyped DEF TypeOK
  <2>3. Len(pending) = 0 /\ Len(pending') = 0
    BY <2>1 DEF Held
  <2>4. 1 \in 1..Len(down) /\ \A i \in 1..Len(down') : i + 1 \in 1..Len(down) /\ 1 < i + 1
    BY <2>2
  <2>5. IF down[1].kind = "event" THEN seen' = down[1].number /\ Comes(down[1].number)
                                  ELSE seen' = seen
    BY <2>1, <2>2, <2>4 DEF Ascending, WireAscends
  <2>6. WireAscends'
    BY <1>0, <2>1, <2>2, <2>4, <2>5 DEF Ascending, WireAscends, Comes
  <2>7. QueueAscends' /\ QueueFirst'
    BY <2>3 DEF QueueAscends, QueueFirst
  <2> QED BY <1>0, <2>1, <2>2, <2>5, <2>6, <2>7 DEF Ascending, Comes
<1> QED BY <1>1, <1>2

(* A racing event moves from the wire to the queue. *)
LEMMA AscendingAfterKept ==
  ASSUME TypeOK, Ascending, KeepEvent, ~Fail("protocol")
  PROVE  Ascending'
<1> DEFINE f == Head(down)
<1>1. /\ down # <<>> /\ down' = Tail(down) /\ f.kind = "event"
      /\ pending' = Append(pending, f) /\ seen' = seen /\ emitted' = emitted
  BY DEF KeepEvent, flags, switch
<1>2. /\ Len(down) \in Nat \ {0} /\ Len(down') = Len(down) - 1 /\ f = down[1] /\ f \in Frame
      /\ \A i \in 1..Len(down') : down'[i] = down[i + 1]
  BY <1>1, TailTyped DEF TypeOK
<1>3. /\ Len(pending) \in Nat /\ Len(pending') = Len(pending) + 1
      /\ \A i \in 1..Len(pending) : pending'[i] = pending[i]
      /\ pending'[Len(pending) + 1] = f
  BY <1>1, <1>2, AppendElements DEF TypeOK
<1>4. 1 \in 1..Len(down) /\ \A i \in 1..Len(down') : i + 1 \in 1..Len(down) /\ 1 < i + 1
  BY <1>2
<1>5. /\ Comes(f.number)
      /\ \A i \in 1..Len(pending) : pending[i].number < f.number
      /\ \A k \in 2..Len(down) : down[k].kind = "event" => f.number < down[k].number
  BY <1>1, <1>2, <1>4 DEF Ascending, WireAscends, QueueFirst
<1> HIDE DEF f
<1>6. \A i \in 1..Len(pending') :
        \/ i \in 1..Len(pending) /\ pending'[i] = pending[i]
        \/ i = Len(pending) + 1 /\ pending'[i] = f
  BY <1>3
<1>7. QueueAscends'
  <2>1. ASSUME NEW i \in 1..Len(pending')
        PROVE  seen' < pending'[i].number /\ pending'[i].number <= emitted'
    BY <1>1, <1>5, <1>6 DEF Ascending, QueueAscends, Comes
  <2>2. ASSUME NEW i \in 1..Len(pending'), NEW j \in 1..Len(pending'), i < j
        PROVE  pending'[i].number < pending'[j].number
    <3>1. i \in 1..Len(pending) /\ pending'[i] = pending[i]
      BY <1>3, <2>2
    <3>2. CASE j \in 1..Len(pending) /\ pending'[j] = pending[j]
      BY <2>2, <3>1, <3>2 DEF Ascending, QueueAscends
    <3>3. CASE pending'[j] = f
      BY <1>5, <3>1, <3>3
    <3> QED BY <1>6, <3>2, <3>3
  <2> QED BY <2>1, <2>2 DEF QueueAscends, Comes
<1>8. WireAscends'
  BY <1>1, <1>2, <1>4 DEF Ascending, WireAscends, Comes
<1>9. QueueFirst'
  <2> SUFFICES ASSUME NEW i \in 1..Len(pending'), NEW k \in 1..Len(down'), down'[k].kind = "event"
               PROVE  pending'[i].number < down'[k].number
    BY DEF QueueFirst
  <2>1. k + 1 \in 2..Len(down) /\ k + 1 \in 1..Len(down) /\ down'[k] = down[k + 1]
    BY <1>2
  <2>2. CASE i \in 1..Len(pending) /\ pending'[i] = pending[i]
    BY <2>1, <2>2 DEF Ascending, QueueFirst
  <2>3. CASE pending'[i] = f
    BY <1>5, <2>1, <2>3
  <2> QED BY <1>6, <2>2, <2>3
<1> QED BY <1>1, <1>7, <1>8, <1>9 DEF Ascending

LEMMA AscendingStep ==
  ASSUME TypeOK, Held, Ascending, [Next]_vars, \A f : Connect(f) => pending = <<>>
  PROVE  Ascending'
<1>1. ASSUME NEW f \in {Greeting, Rejection}, Connect(f) PROVE Ascending'
  <2>1. down' = <<f>> /\ pending' = <<>> /\ seen' = 0 /\ emitted' = 0 /\ f.kind # "event"
    BY <1>1 DEF Connect, queue, Greeting, Rejection
  <2>2. Len(pending') = 0 /\ Len(down') = 1 /\ down'[1] = f
    BY <2>1
  <2>3. \A k \in 1..Len(down') : k = 1 /\ down'[k].kind # "event"
    BY <2>1, <2>2
  <2> QED BY <2>1, <2>2, <2>3 DEF Ascending, QueueAscends, WireAscends, QueueFirst
<1>2. ASSUME NEW k, Fail(k) PROVE Ascending'
  BY <1>2, FailEffect, AscendingAfterRelease DEF Fail, Release
<1>3. CASE UNCHANGED <<pending, seen, emitted, down>>
  BY <1>3, AscendingUnchanged
<1>4. Dial \/ DialFails \/ NoSocket \/ (\E name \in CommandNames : Send(name)) \/ Read \/ Tick \/ UNCHANGED vars
        => UNCHANGED <<pending, seen, emitted, down>>
  BY DoneEffect DEF Dial, DialFails, NoSocket, Send, Read, Tick, flags, queue, switch, vars
<1>5. CASE (ReadPending \/ TakeFrame) /\ ~Fail("protocol")
  BY <1>5, AscendingAfterSeen
<1>6. CASE KeepEvent /\ ~Fail("protocol")
  BY <1>6, AscendingAfterKept
<1>7. CASE (TakeGreeting /\ ~Fail("lost")) \/ (TakeReply /\ ~Fail("denied"))
  <2>1. /\ down # <<>> /\ down' = Tail(down)
        /\ (\E k, r : Done(k, r)) /\ pending' = pending
    BY <1>7 DEF TakeGreeting, TakeReply, queue
  <2>2. UNCHANGED <<sock, seen, emitted>>
    BY <2>1, DoneEffect
  <2>3. /\ Len(down) \in Nat \ {0} /\ Len(down') = Len(down) - 1
        /\ \A i \in 1..Len(down') : down'[i] = down[i + 1]
    BY <2>1, TailTyped DEF TypeOK
  <2>4. Len(pending') \in Nat /\ Len(down') \in Nat
    BY <2>1, <2>3, LenProperties DEF TypeOK
  <2>5. \A i \in 1..Len(pending') : i + 0 \in 1..Len(pending) /\ pending'[i] = pending[i + 0]
    BY <2>1, <2>4
  <2>6. \A i \in 1..Len(down') : i + 1 \in 1..Len(down) /\ down'[i] = down[i + 1]
    BY <2>3
  <2> QED BY <2>2, <2>4, <2>5, <2>6, AscendingFewer
<1>8. CASE ReadExpires /\ ~Fail("lost")
  BY <1>8, <1>3, DoneEffect DEF ReadExpires, queue
<1>9. ASSUME NEW good \in BOOLEAN, Answer(good) PROVE Ascending'
  <2> DEFINE f == Reply(Head(up).cmd, good)
  <2>1. /\ up # <<>> /\ down' = Append(down, f) /\ emitted' = emitted /\ pending' = pending /\ seen' = seen
    BY <1>9 DEF Answer, ToClient, queue
  <2>2. Head(up) \in [name : CommandNames, cmd : Nat]
    BY <2>1, TailTyped DEF TypeOK
  <2>3. f \in Frame /\ f.kind # "event"
    BY <2>2, FramesTyped DEF TypeOK, Reply
  <2>4. emitted \in Nat
    BY DEF TypeOK
  <2> HIDE DEF f
  <2> QED BY <2>1, <2>3, <2>4, AscendingAfterAppend
<1>10. ASSUME NEW z \in Sizes, Emit(z) PROVE Ascending'
  <2> DEFINE f == Event(emitted + 1, z)
  <2>1. /\ down' = Append(down, f) /\ emitted' = emitted + 1 /\ pending' = pending /\ seen' = seen
    BY <1>10 DEF Emit, ToClient, queue
  <2>2. f \in Frame
    <3>1. emitted + 1 \in Nat /\ z \in Nat
      BY <1>10, LimitAssumption DEF TypeOK, LimitAssumption
    <3> QED BY <3>1, FramesTyped
  <2>3. f.number = emitted + 1 /\ emitted \in Nat
    BY DEF Event, TypeOK
  <2> HIDE DEF f
  <2> QED BY <2>1, <2>2, <2>3, AscendingAfterAppend
<1>11. CASE SendNotice
  <2>1. down' = Append(down, Notice) /\ emitted' = emitted /\ pending' = pending /\ seen' = seen
    BY <1>11 DEF SendNotice, ToClient, queue, switch
  <2>2. Notice \in Frame /\ Notice.kind # "event" /\ emitted \in Nat
    BY FramesTyped DEF TypeOK, Notice
  <2> HIDE DEF Notice
  <2> QED BY <2>1, <2>2, AscendingAfterAppend
<1>12. Close \/ Lose \/ SendFails \/ GreetingExpires \/ RefuseFrame \/ CommandExpires
         => \E k : Fail(k)
  BY DEF Close, Lose, SendFails, GreetingExpires, RefuseFrame, CommandExpires
<1> QED BY <1>1, <1>2, <1>3, <1>4, <1>5, <1>6, <1>7, <1>8, <1>9, <1>10, <1>11, <1>12
        DEF Next, Step

-----------------------------------------------------------------------------
(* The parts of ESLClient's invariant that survive a close() by another     *)
(* thread, under whatever method it strikes and between any two of its      *)
(* steps.                                                                   *)
ClientInv == TypeOK /\ Held /\ Ascending

(* Until that close() all of it holds.                                      *)
Undisturbed ==
  /\ closer # "out" => closed
  /\ ~closed => Emptied /\ Numbered

(* An event that is queued behind the back of that close() is left over;    *)
(* but the loop that finds it has yet to look at the flag.                  *)
Leftover ==
  pending # <<>> /\ (~sock \/ closer \in {"bytes", "socket"}) =>
    closed /\ pc \notin {"check", "connect", "read", "sleep", "ended"}

(* The method that is being executed is the one the loop, or the callback,  *)
(* has called.                                                              *)
InMethod ==
  \/ op = "idle" /\ pc # "greeting"
  \/ pc = "connect" /\ op = "dial"
  \/ pc = "greeting" /\ op = "connect"
  \/ pc = "auth" /\ op = "auth"
  \/ pc = "subscribe" /\ op = "event"
  \/ pc = "read" /\ op = "read"
  \/ pc = "deliver" /\ op = "api"

(* Between two connections the client holds none. *)
Between == pc \in {"check", "connect", "ended"} => sock = FALSE

(* The last event seen on this connection is the one the callback had last, *)
(* or the one it has now: the next one, if nobody closed the client yet.    *)
Given == IF handed[1] = connections THEN handed[2] ELSE 0
HandedUp ==
  /\ handed \in Nat \X Nat /\ handed[1] <= connections
  /\ IF pc = "deliver" THEN seen > Given /\ (~closed => seen = Given + 1) ELSE seen = Given

LoopInv == InMethod /\ Between /\ HandedUp
StackInv == ClientInv /\ Undisturbed /\ Leftover /\ LoopInv

-----------------------------------------------------------------------------
(* What becomes of a method that is being executed: it goes on, or ends in  *)
(* one of these ways, and the connection with it or not.                    *)
NextIsSeen == seen' > seen /\ (~closed => seen' = seen + 1)
EndsKeeping ==
  /\ sock /\ sock' = sock
  /\ \/ result'.kind = "ok" /\ op # "read" /\ seen' = seen
     \/ result'.kind = "refused" /\ op = "event" /\ seen' = seen
     \/ result'.kind = "event" /\ op = "read" /\ NextIsSeen
     \/ result'.kind = "other" /\ op = "read" /\ seen' = seen
EndsIdle == result'.kind = "timeout" /\ op = "read" /\ sock' = sock /\ seen' = seen
EndsClosed ==
  /\ sock' = FALSE /\ seen' = seen
  /\ \/ result'.kind \in {"lost", "protocol"}
     \/ result'.kind = "timeout" /\ op # "read"
     \/ result'.kind = "denied" /\ op = "auth" /\ sock
GoesOn == op' = op /\ sock' = sock /\ seen' = seen
Advances ==
  /\ op # "idle" /\ connections' = connections
  /\ GoesOn \/ (op' = "idle" /\ (EndsKeeping \/ EndsIdle \/ EndsClosed))

(* What read_event returns, as far as the loop is concerned. *)
LEMMA SeenNext ==
  ASSUME ClientInv, Undisturbed, ReadPending \/ TakeFrame, ~Fail("protocol")
  PROVE  /\ sock' = sock
         /\ IF result'.kind = "event" THEN NextIsSeen ELSE seen' = seen
<1>1. sock' = sock /\ IF result'.kind = "event" THEN seen' > seen ELSE seen' = seen
  BY AscendingAfterSeen DEF ClientInv
<1>2. ~closed => (IF result'.kind = "event" THEN seen' = seen + 1 ELSE seen' = seen)
  BY NextSeen DEF ClientInv, Undisturbed
<1> QED BY <1>1, <1>2 DEF NextIsSeen

LEMMA MethodAdvances ==
  ASSUME ClientInv, Undisturbed, op # "dial", Step \/ Lose
  PROVE  Advances
<1>1. ASSUME NEW k \in {"lost", "protocol"}, Fail(k), op # "idle" PROVE Advances
  BY <1>1 DEF Fail, Release, Return, Outcome, switch, counters, Advances, EndsClosed
<1>2. ASSUME Fail("timeout"), op \notin {"idle", "read"} PROVE Advances
  BY <1>2 DEF Fail, Release, Return, Outcome, switch, counters, Advances, EndsClosed
<1>3. ASSUME down # <<>> PROVE sock
  BY <1>3 DEF ClientInv, Held
<1>4. CASE Lose
  BY <1>4, <1>1 DEF Lose, Waiting
<1>5. CASE Tick
  BY <1>5 DEF Tick, Waiting, flags, counters, Advances, GoesOn
<1>6. CASE TakeGreeting
  <2>1. CASE Fail("lost")
    BY <1>6, <2>1, <1>1 DEF TakeGreeting
  <2>2. CASE Done("ok", 0)
    BY <1>6, <2>2, <1>3
       DEF TakeGreeting, Done, Return, Outcome, counters, Advances, EndsKeeping
  <2> QED BY <1>6, <2>1, <2>2 DEF TakeGreeting
<1>7. CASE GreetingExpires
  BY <1>7, <1>1, <1>2 DEF GreetingExpires
<1>8. CASE TakeReply
  <2>1. sock /\ op \in CommandNames
    BY <1>8, <1>3 DEF TakeReply, Commanding
  <2>2. CASE Fail("denied") /\ op = "auth"
    BY <2>1, <2>2 DEF Fail, Release, Return, Outcome, switch, counters, Advances, EndsClosed
  <2>3. ASSUME NEW k, NEW r, Done(k, r), k = "ok" \/ (k = "refused" /\ op = "event")
        PROVE  Advances
    BY <2>1, <2>3 DEF Done, Return, Outcome, counters, Advances, EndsKeeping, CommandNames
  <2>4. (Fail("denied") /\ op = "auth")
          \/ \E k, r : Done(k, r) /\ (k = "ok" \/ (k = "refused" /\ op = "event"))
    BY <1>8 DEF TakeReply
  <2> QED BY <2>2, <2>3, <2>4
<1>9. CASE KeepEvent
  <2>1. CASE Fail("protocol")
    BY <1>9, <2>1, <1>1 DEF KeepEvent, Commanding, CommandNames
  <2>2. CASE UNCHANGED <<flags, call, result, switch, up, seen, counters>>
    BY <1>9, <2>2
       DEF KeepEvent, Commanding, CommandNames, flags, call, counters, Advances, GoesOn
  <2> QED BY <1>9, <2>1, <2>2 DEF KeepEvent
<1>10. CASE RefuseFrame
  BY <1>10, <1>1 DEF RefuseFrame, Commanding, CommandNames
<1>11. CASE CommandExpires
  BY <1>11, <1>1, <1>2 DEF CommandExpires, Commanding, CommandNames
<1>12. CASE TakeFrame
  <2>1. CASE Fail("protocol")
    BY <1>12, <2>1, <1>1 DEF TakeFrame
  <2>2. CASE ~Fail("protocol")
    <3>1. /\ op = "read" /\ op' = "idle" /\ result'.kind \in {"event", "other"}
          /\ connections' = connections /\ sock
      BY <1>12, <2>2, <1>3 DEF TakeFrame, Return, Outcome, counters
    <3>2. /\ sock' = sock
          /\ IF result'.kind = "event" THEN NextIsSeen ELSE seen' = seen
      BY <1>12, <2>2, SeenNext
    <3> QED BY <3>1, <3>2 DEF Advances, EndsKeeping
  <2> QED BY <2>1, <2>2
<1>13. CASE ReadExpires
  <2>1. CASE Fail("lost")
    BY <1>13, <2>1, <1>1 DEF ReadExpires
  <2>2. CASE Done("timeout", 0)
    BY <1>13, <2>2 DEF ReadExpires, Done, Return, Outcome, counters, Advances, EndsIdle
  <2> QED BY <1>13, <2>1, <2>2 DEF ReadExpires
<1>14. ~DialFails /\ ~\E f \in {Greeting, Rejection} : Connect(f)
  BY DEF DialFails, Connect
<1> QED BY <1>4, <1>5, <1>6, <1>7, <1>8, <1>9, <1>10, <1>11, <1>12, <1>13, <1>14 DEF Step

(* A call that finds no socket, or cannot send; and a dial that fails.      *)
LEMMA CallRaises ==
  ASSUME ((NoSocket \/ DialFails) /\ sock = FALSE) \/ SendFails
  PROVE  /\ op' = "idle" /\ result'.kind = "lost" /\ sock' = FALSE
         /\ seen' = seen /\ connections' = connections
  BY DEF NoSocket, DialFails, SendFails, Done, Fail, Release, Return, Outcome, switch, counters

(* read_event on a queue that holds an event: it is the next one. *)
LEMMA QueueReturns ==
  ASSUME StackInv, pc = "read", ReadPending
  PROVE  /\ op' = "idle" /\ connections' = connections
         /\ \/ result'.kind = "event" /\ sock /\ sock' = sock /\ NextIsSeen
            \/ result'.kind = "protocol" /\ sock' = FALSE /\ seen' = seen
<1>1. CASE Fail("protocol")
  BY <1>1 DEF Fail, Release, Return, Outcome, counters
<1>2. CASE ~Fail("protocol")
  <2>1. op' = "idle" /\ result'.kind = "event" /\ connections' = connections
    BY <1>2 DEF ReadPending, Return, Outcome, counters
  <2>2. sock
    BY DEF StackInv, Leftover, ReadPending
  <2> QED BY <1>2, <2>1, <2>2, SeenNext DEF StackInv
<1> QED BY <1>1, <1>2

(* How a call begins. *)
LEMMA CallBegins ==
  /\ \A name : Send(name) =>
       op' = name /\ sock /\ sock' = sock /\ seen' = seen /\ connections' = connections
  /\ Read => op' = "read" /\ sock' = sock /\ seen' = seen /\ connections' = connections
  /\ Dial => op' = "dial" /\ sock' = sock /\ seen' = seen /\ connections' = connections
  /\ Tick => op' = op /\ sock' = sock /\ seen' = seen /\ connections' = connections
  /\ \A f : Connect(f) =>
       op' = "connect" /\ sock' = TRUE /\ seen' = 0 /\ connections' = connections + 1
  BY DEF Send, Read, Dial, Tick, Connect, Begin, flags, counters

(* A close() by the loop, a step of one by another thread, and a step that  *)
(* leaves the client alone.                                                 *)
LEMMA Closing ==
  /\ Fail("none") => op' = "idle" /\ sock' = FALSE /\ seen' = seen /\ connections' = connections
  /\ UNCHANGED vars => op' = op /\ sock' = sock /\ seen' = seen /\ connections' = connections
  /\ CloseClient => /\ op' = op /\ seen' = seen /\ connections' = connections
                    /\ sock' = sock \/ (CloseSocket /\ sock' = FALSE)
                    /\ closer # "out" /\ closed' = closed
                    /\ UNCHANGED <<loop, timing, late, tries, handed>>
  BY DEF Fail, Release, Return, Outcome, counters, vars, CloseClient, ClearBuffer, ClearPending,
     ClearBytes, CloseSocket, At, Outside, flags, call

(* The switch changes nothing the loop looks at. *)
LEMMA PeerActs ==
  Peer => /\ op' = op /\ sock' = sock /\ seen' = seen /\ connections' = connections
          /\ pending' = pending
          /\ UNCHANGED <<loop, timing, threads, late, tries, handed>>
  BY DEF Peer, Answer, Emit, SendNotice, ToClient, flags, queue, call, counters

-----------------------------------------------------------------------------
(* The loop and the callback begin a method when the last one is over; so   *)
(* the method that is being executed remains the one called, and the events *)
(* are handed up in order.  First, where the loop goes when a method ends.  *)
LEMMA HowItEnds ==
  ASSUME NEW k, Returned(k)
  PROVE  /\ k \in {"lost", "protocol"} => Throw("lost")
         /\ k \in {"denied", "refused"} => Throw(k)
         /\ k = "event" => Move("deliver")
         /\ k = "other" => pc = "read" /\ Move("iter")
         /\ k = "timeout" =>
              \/ pc = "read" /\ Move("iter")
              \/ pc \in {"greeting", "auth", "subscribe"} /\ Throw("timeout")
         /\ k = "ok" =>
              \/ pc = "greeting" /\ Move("auth")
              \/ pc = "auth" /\ Move("subscribe")
              \/ pc = "subscribe" /\ Move("iter")
              \/ pc = "deliver" /\ UNCHANGED loop
         /\ k \in {"lost", "protocol", "denied", "refused", "event", "other", "timeout", "ok"}
<1>1. DOMAIN Starting = {"greeting", "auth", "subscribe"}
  BY DEF Starting
<1>2. Starting["greeting"] = "auth" /\ Starting["auth"] = "subscribe" /\ Starting["subscribe"] = "iter"
  BY DEF Starting
<1> QED BY <1>1, <1>2 DEF Returned

(* How a connection begins: the dial goes on, the peer accepts, or start()  *)
(* raises.                                                                  *)
LEMMA DiallingSteps ==
  ASSUME Between, Dialling
  PROVE  /\ pc = "connect" /\ sock = FALSE /\ UNCHANGED <<timing, threads, late, handed>>
         /\ \/ Tick /\ UNCHANGED <<loop, tries>>
            \/ /\ tries' = Listener!Count(tries)
               /\ Move("greeting") /\ \E f \in {Greeting, Rejection} : Connect(f)
            \/ /\ tries' = Listener!Count(tries) /\ Throw("lost")
               /\ DialFails /\ op' = "idle" /\ sock' = FALSE /\ UNCHANGED <<seen, connections>>
<1>1. sock = FALSE
  BY DEF Between, Dialling
<1>2. DialFails /\ Ends => op' = "idle" /\ sock' = FALSE /\ UNCHANGED <<seen, connections>> /\ Throw("lost")
  BY <1>1, CallRaises, HowItEnds DEF Ends
<1> QED BY <1>1, <1>2 DEF Dialling

(* Every step keeps the loop's part of the invariant. *)
LEMMA LoopStep ==
  ASSUME StackInv, [StackNext]_all
  PROVE  LoopInv'
<1> DEFINE Goal == InMethod' /\ Between' /\ HandedUp'
<1> SUFFICES Goal
  BY DEF LoopInv
<1>1. /\ ClientInv /\ InMethod /\ Between /\ HandedUp /\ connections \in Nat /\ seen \in Nat
      /\ Undisturbed
  BY DEF StackInv, LoopInv, ClientInv, TypeOK
<1> USE <1>1 DEF InMethod, Between
<1>0. ~closed' => ~closed
  BY DEF StackNext, RunForever, Check, CallConnect, Dialling, CallCommand, Iterate, CallRead, InCall,
       CallApi, InApi, CallbackEnds, Handle, Wake, Finally, SetClosed, CloseClient, ClearBuffer,
       ClearPending, ClearBytes, CloseSocket, At, Peer, threads, all
<1>2. ASSUME UNCHANGED <<handed, connections, seen>>, pc = "deliver" <=> pc' = "deliver"
      PROVE  HandedUp'
  BY <1>0, <1>2 DEF HandedUp, Given
<1>3. CASE Check
  BY <1>3, <1>2 DEF Check, Move, vars
<1>4. CASE CallConnect
  BY <1>4, <1>2, CallBegins DEF CallConnect, loop
<1>5. CASE Dialling
  <2>1. pc = "connect" /\ sock = FALSE /\ handed' = handed
    BY <1>5, DiallingSteps
  <2>2. CASE Tick /\ UNCHANGED loop
    BY <2>1, <2>2, <1>2, CallBegins DEF loop
  <2>3. ASSUME Move("greeting"), NEW f, Connect(f) PROVE Goal
    <3>1. op' = "connect" /\ pc' = "greeting" /\ seen' = 0 /\ connections' = connections + 1
      BY <2>3, CallBegins DEF Move
    <3> QED BY <2>1, <3>1 DEF HandedUp, Given
  <2>4. CASE Throw("lost") /\ op' = "idle" /\ UNCHANGED <<seen, connections>>
    BY <2>1, <2>4, <1>2 DEF Throw
  <2> QED BY <1>5, <2>2, <2>3, <2>4, DiallingSteps
<1>6. ASSUME CallCommand("auth", "auth") \/ CallCommand("subscribe", "event") PROVE Goal
  <2>1. pc \in {"auth", "subscribe"} /\ handed' = handed
    BY <1>6 DEF CallCommand
  <2>2. CASE ((NoSocket /\ sock = FALSE) \/ SendFails) /\ Ends
    <3>1. result'.kind = "lost" /\ UNCHANGED <<seen, connections>>
      BY <2>2, CallRaises
    <3>2. pc' = "except" /\ op' = "idle"
      BY <2>2, <3>1, HowItEnds DEF Ends, Throw
    <3> QED BY <2>1, <3>1, <3>2, <1>2
  <2>3. CASE ((pc = "auth" /\ Send("auth")) \/ (pc = "subscribe" /\ Send("event"))) /\ UNCHANGED loop
    BY <2>1, <2>3, <1>2, CallBegins DEF loop
  <2>4. NoSocket => sock = FALSE
    BY DEF NoSocket, ClientInv, TypeOK
  <2>5. \/ ((NoSocket /\ sock = FALSE) \/ SendFails) /\ Ends
        \/ ((pc = "auth" /\ Send("auth")) \/ (pc = "subscribe" /\ Send("event"))) /\ UNCHANGED loop
    BY <1>6, <2>4 DEF CallCommand
  <2> QED BY <2>2, <2>3, <2>5
<1>7. CASE Iterate
  BY <1>7, <1>2 DEF Iterate, Move, vars
<1>8. CASE CallRead
  <2>1. CASE Read /\ UNCHANGED loop
    BY <1>8, <2>1, <1>2, CallBegins DEF CallRead, loop
  <2>2. CASE ReadPending /\ Ends
    <3>1. pc = "read" /\ handed' = handed /\ op' = "idle" /\ connections' = connections
      BY <1>8, <2>2 DEF CallRead, Ends, ReadPending, Fail, Return, counters
    <3>2. CASE result'.kind = "event" /\ NextIsSeen
      <4>1. pc' = "deliver"
        BY <2>2, <3>2, HowItEnds DEF Ends, Move
      <4> QED BY <1>0, <3>1, <3>2, <4>1 DEF HandedUp, Given, NextIsSeen
    <3>3. CASE result'.kind = "protocol" /\ seen' = seen
      <4>1. pc' = "except"
        BY <2>2, <3>3, HowItEnds DEF Ends, Throw
      <4> QED BY <3>1, <3>3, <4>1, <1>2
    <3> QED BY <2>2, <3>1, <3>2, <3>3, QueueReturns
  <2>3. CASE NoSocket /\ Ends
    <3>1. sock = FALSE
      BY <2>3 DEF NoSocket, ClientInv, TypeOK
    <3>2. pc' = "except" /\ op' = "idle" /\ pc = "read"
      BY <1>8, <2>3, <3>1, CallRaises DEF CallRead, Ends, Returned, Throw, Starting
    <3> QED BY <1>8, <2>3, <3>1, <3>2, <1>2, CallRaises DEF CallRead
  <2> QED BY <1>8, <2>1, <2>2, <2>3 DEF CallRead
<1>9. CASE InCall
  <2>1. pc \notin {"connect", "deliver"} /\ handed' = handed /\ op # "dial"
    BY <1>9 DEF InCall
  <2>2. Advances
    BY <1>9, <2>1, MethodAdvances DEF InCall
  <2>3. pc \in {"greeting", "auth", "subscribe", "read"}
    BY <2>1, <2>2 DEF Advances
  <2>4. CASE op' # "idle" /\ UNCHANGED loop
    BY <2>1, <2>2, <2>3, <2>4, <1>2 DEF Advances, GoesOn, loop
  <2>5. CASE Ends /\ result'.kind = "event"
    <3>1. pc' = "deliver" /\ op' = "idle"
      BY <2>5, HowItEnds DEF Ends, Move
    <3>2. op = "read" /\ NextIsSeen /\ connections' = connections
      BY <2>2, <2>5 DEF Advances, GoesOn, Ends, EndsKeeping, EndsIdle, EndsClosed
    <3> QED BY <1>0, <2>1, <3>1, <3>2 DEF HandedUp, Given, NextIsSeen
  <2>6. CASE Ends /\ result'.kind # "event"
    <3>1. op' = "idle" /\ pc' \in {"auth", "subscribe", "iter", "except"}
      BY <2>3, <2>6, HowItEnds DEF Ends, Returned, Move, Throw
    <3>2. seen' = seen /\ connections' = connections
      BY <2>2, <2>6 DEF Advances, GoesOn, Ends, EndsKeeping, EndsIdle, EndsClosed
    <3> QED BY <2>1, <3>1, <3>2, <1>2
  <2> QED BY <1>9, <2>4, <2>5, <2>6 DEF InCall
<1>10. CASE CallApi
  BY <1>10, <1>2, CallBegins DEF CallApi, loop
<1>11. ASSUME pc = "deliver", OverWith, op' = "idle", seen' = seen, connections' = connections,
              pc' \in {"iter", "except"}
       PROVE  Goal
  BY <1>11 DEF OverWith, HandedUp, Given
<1>12. CASE InApi
  <2>1. pc = "deliver" /\ op # "dial"
    BY <1>12 DEF InApi
  <2>2. Advances
    BY <1>12, <2>1, MethodAdvances DEF InApi
  <2>3. op = "api" /\ seen' = seen /\ connections' = connections
    BY <2>1, <2>2 DEF Advances, GoesOn, EndsKeeping, EndsIdle, EndsClosed
  <2>4. CASE UNCHANGED <<loop, timing, threads, late, tries, handed>>
    BY <2>1, <2>2, <2>3, <2>4, <1>2 DEF Advances, GoesOn, loop
  <2>5. CASE op' = "idle" /\ pc' \in {"iter", "except"} /\ OverWith
    BY <2>1, <2>3, <2>5, <1>11
  <2> QED BY <1>12, <2>4, <2>5 DEF InApi, Move, Throw
<1>13. CASE CallbackEnds
  <2>1. pc = "deliver" /\ OverWith /\ pc' \in {"iter", "except"}
    BY <1>13 DEF CallbackEnds, Move, Throw
  <2>2. op' = "idle" /\ seen' = seen /\ connections' = connections
    BY <1>13, Closing DEF CallbackEnds
  <2> QED BY <2>1, <2>2, <1>11
<1>14. CASE Handle \/ Wake
  BY <1>14, <1>2 DEF Handle, Wake, Move, vars
<1>15. CASE Finally
  BY <1>15, <1>2, Closing DEF Finally, Move
<1>16. CASE SetClosed \/ UNCHANGED all
  BY <1>16, <1>2 DEF SetClosed, Outside, all, vars, loop
<1>17. CASE CloseClient
  BY <1>17, <1>2, Closing DEF loop
<1>18. CASE Peer
  BY <1>18, <1>2, PeerActs DEF loop
<1> QED BY <1>3, <1>4, <1>5, <1>6, <1>7, <1>8, <1>9, <1>10, <1>12, <1>13, <1>14, <1>15,
           <1>16, <1>17, <1>18 DEF StackNext, RunForever

-----------------------------------------------------------------------------
(* What the loop does to the client is what ESLClient allows; a step of     *)
(* another thread's close() is not.                                         *)
LEMMA ClientStep ==
  ASSUME StackNext, ~CloseClient, ~SetClosed
  PROVE  Next \/ Fail("none") \/ UNCHANGED vars
<1>1. Check \/ Iterate \/ Handle \/ Wake => UNCHANGED vars
  BY DEF Check, Iterate, Handle, Wake
<1>2. CallConnect \/ Dialling => Next
  BY DEF CallConnect, Dialling, Next, Step
<1>3. CallCommand("auth", "auth") \/ CallCommand("subscribe", "event") \/ CallApi => Next
  BY DEF CallCommand, CallApi, Next, CommandNames
<1>4. CallRead => Next
  BY DEF CallRead, Next
<1>5. InCall \/ InApi => Next
  BY DEF InCall, InApi, Next
<1>6. CallbackEnds \/ Finally => Fail("none") \/ UNCHANGED vars
  BY DEF CallbackEnds, Finally
<1>7. Peer => Next
  BY DEF Peer, Next
<1> QED BY <1>1, <1>2, <1>3, <1>4, <1>5, <1>6, <1>7 DEF StackNext, RunForever

(* A connection begins on a client that holds nothing of an old one.        *)
LEMMA ConnectsEmpty ==
  ASSUME StackInv, [StackNext]_all, Next, ~CloseClient, ~SetClosed, NEW f, Connect(f)
  PROVE  ~sock /\ pending = <<>>
<1>1. op = "dial"
  BY DEF Connect
<1>2. pc = "connect"
  BY <1>1 DEF StackInv, LoopInv, InMethod
<1>3. sock = FALSE
  BY <1>2 DEF StackInv, LoopInv, Between
<1> QED BY <1>2, <1>3 DEF StackInv, Leftover

(* What another thread's close() leaves of the client. *)
LEMMA ClosingStep ==
  ASSUME ClientInv, CloseClient
  PROVE  ClientInv'
<1>1. TypeOK /\ Held /\ Ascending
  BY DEF ClientInv
<1>2. /\ sock' \in BOOLEAN /\ connected' \in BOOLEAN /\ authenticated' \in BOOLEAN
      /\ pendingBytes' \in Int
      /\ UNCHANGED <<call, result, switch, seen, counters>>
  <2>1. CloseClient => /\ UNCHANGED <<call, result, switch, seen, counters>>
                       /\ sock' \in {sock, FALSE} /\ pendingBytes' \in {pendingBytes, 0}
                       /\ connected' \in {connected, FALSE} /\ authenticated' \in {authenticated, FALSE}
    BY DEF CloseClient, ClearBuffer, ClearPending, ClearBytes, CloseSocket, At, flags, queue
  <2>2. sock \in BOOLEAN /\ connected \in BOOLEAN /\ authenticated \in BOOLEAN /\ pendingBytes \in Int
    BY <1>1 DEF TypeOK
  <2>3. UNCHANGED <<call, result, switch, seen, counters>>
    BY <2>1
  <2>4. sock' \in BOOLEAN /\ connected' \in BOOLEAN /\ authenticated' \in BOOLEAN
    BY <2>1, <2>2
  <2>5. pendingBytes' \in Int
    BY <2>1, <2>2
  <2> QED BY <2>3, <2>4, <2>5
<1>3. pending' = pending \/ pending' = <<>>
  BY DEF CloseClient, ClearBuffer, ClearPending, ClearBytes, CloseSocket, queue
<1>4. up' = up \/ up' = <<>>
  BY DEF CloseClient, ClearBuffer, ClearPending, ClearBytes, CloseSocket
<1>5. PICK n \in 0..Len(down) : down' = SubSeq(down, n + 1, Len(down)) \/ (n = 0 /\ down' = down)
                                \/ down' = <<>>
  <2>1. Len(down) \in Nat
    BY <1>1, LenProperties DEF TypeOK
  <2>2. 0 \in 0..Len(down)
    BY <2>1
  <2>3. ASSUME ClearBuffer PROVE \E n \in 0..Len(down) : down' = SubSeq(down, n + 1, Len(down))
    BY <2>3 DEF ClearBuffer
  <2>4. ~ClearBuffer => down' = down \/ down' = <<>>
    BY DEF CloseClient, ClearPending, ClearBytes, CloseSocket
  <2> QED BY <2>2, <2>3, <2>4
<1>6. /\ down' \in Seq(Frame) /\ Len(down') \in Nat
      /\ \A i \in 1..Len(down') : i + n \in 1..Len(down) /\ down'[i] = down[i + n]
  <2>1. Len(down) \in Nat /\ down \in Seq(Frame) /\ n \in Nat
    BY <1>1, LenProperties DEF TypeOK
  <2>2. CASE down' = SubSeq(down, n + 1, Len(down))
    <3>1. n + 1 \in 1..(Len(down) + 1) /\ Len(down) \in (n + 1) - 1..Len(down)
      BY <2>1
    <3>2. /\ down' \in Seq(Frame) /\ Len(down') = Len(down) - n
          /\ \A i \in 1..Len(down) - n : down'[i] = down[n + i]
      BY <2>1, <2>2, <3>1, SubSeqProperties
    <3> QED BY <2>1, <3>2
  <2>3. CASE n = 0 /\ down' = down
    BY <2>1, <2>3
  <2>4. CASE down' = <<>>
    BY <2>4, EmptySequences
  <2> QED BY <1>5, <2>2, <2>3, <2>4
<1>7. TypeOK'
  <2>1. pending' \in Seq(Frame) /\ up' \in Seq([name : CommandNames, cmd : Nat])
    BY <1>1, <1>3, <1>4, EmptySequences DEF TypeOK
  <2>2. /\ authed' \in BOOLEAN /\ subscribed' \in BOOLEAN
        /\ op' \in {"idle", "dial", "connect", "read"} \cup CommandNames
        /\ cmd' \in Nat /\ left' \in 0..Timeout /\ spent' \in Nat
        /\ result' \in [kind : Kinds, cmd : Nat, reply : Nat]
        /\ emitted' \in Nat /\ seen' \in Nat /\ connections' \in Nat /\ commands' \in Nat
    BY <1>1, <1>2 DEF TypeOK, call, switch, counters
  <2> QED BY <1>2, <1>6, <2>1, <2>2 DEF TypeOK
<1>8. Held'
  <2>1. op' = op /\ (op' = "read" => pending' = <<>>)
    BY <1>1, <1>2, <1>3 DEF Held, call
  <2>2. CASE CloseSocket
    BY <2>1, <2>2 DEF CloseSocket, Held
  <2>3. CASE ~CloseSocket
    <3>1. sock' = sock
      BY <2>3 DEF CloseClient, ClearBuffer, ClearPending, ClearBytes, flags
    <3>2. down = <<>> => down' = <<>>
      <4> SUFFICES ASSUME down = <<>> PROVE down' = <<>>
        OBVIOUS
      <4>1. Len(down) = 0 /\ n \in Nat
        OBVIOUS
      <4>2. Len(down') = 0
        BY <1>6, <4>1
      <4> QED BY <1>6, <4>2, EmptySeq, LenProperties
    <3> QED BY <1>1, <1>4, <2>1, <3>1, <3>2 DEF Held
  <2> QED BY <2>2, <2>3
<1>9. Ascending'
  <2>1. emitted' = emitted /\ seen' = seen /\ n \in Nat /\ 0 \in Nat
    BY <1>2, <1>1, LenProperties DEF switch, TypeOK
  <2>2. /\ Len(pending') \in Nat
        /\ \A i \in 1..Len(pending') : i + 0 \in 1..Len(pending) /\ pending'[i] = pending[i + 0]
    <3>1. Len(pending) \in Nat
      BY <1>1, LenProperties DEF TypeOK
    <3>2. CASE pending' = <<>>
      BY <3>2
    <3>3. CASE pending' = pending
      BY <3>1, <3>3
    <3> QED BY <1>3, <3>2, <3>3
  <2> QED BY <1>1, <1>6, <2>1, <2>2, AscendingFewer
<1> QED BY <1>7, <1>8, <1>9 DEF ClientInv

(* Every step keeps the client's part of the invariant. *)
LEMMA ClientInvStep ==
  ASSUME StackInv, [StackNext]_all
  PROVE  ClientInv'
<1>1. TypeOK /\ Held /\ Ascending
  BY DEF StackInv, ClientInv
<1>2. ASSUME Fail("none") PROVE ClientInv'
  <2>1. TypeOK'
    BY <1>1, <1>2, FailTyped DEF Kinds
  <2>2. Held'
    BY <1>2, FailEffect DEF Held
  <2>3. Ascending'
    BY <1>1, <1>2, FailEffect, AscendingAfterRelease
  <2> QED BY <2>1, <2>2, <2>3 DEF ClientInv
<1>3. ASSUME Next, ~CloseClient, ~SetClosed PROVE ClientInv'
  BY <1>1, <1>3, ConnectsEmpty, TypeStep, HeldStep, AscendingStep DEF ClientInv
<1>4. ASSUME UNCHANGED vars PROVE ClientInv'
  <2>1. TypeOK' /\ Held' /\ pending' = pending /\ down' = down /\ seen' = seen /\ emitted' = emitted
    BY <1>1, <1>4, TypeStep, HeldStep DEF vars
  <2> QED BY <1>1, <2>1, AscendingUnchanged DEF ClientInv
<1>5. CASE CloseClient
  BY <1>5, ClosingStep DEF StackInv
<1>6. CASE SetClosed \/ UNCHANGED all
  BY <1>4, <1>6 DEF SetClosed, all
<1> QED BY <1>2, <1>3, <1>4, <1>5, <1>6, ClientStep

(* Until close() is called, nothing is dropped from under the client.       *)
LEMMA UndisturbedStep ==
  ASSUME StackInv, [StackNext]_all
  PROVE  Undisturbed'
<1>1. TypeOK /\ Undisturbed
  BY DEF StackInv, ClientInv
<1>2. ~closed' => ~closed
  BY DEF StackNext, RunForever, Check, CallConnect, Dialling, CallCommand, Iterate, CallRead, InCall,
       CallApi, InApi, CallbackEnds, Handle, Wake, Finally, SetClosed, CloseClient, ClearBuffer,
       ClearPending, ClearBytes, CloseSocket, At, Peer, threads, all
<1>3. closer' # "out" => closed'
  <2>1. CASE SetClosed
    BY <2>1 DEF SetClosed
  <2>2. CASE CloseClient
    BY <1>1, <2>2, Closing DEF Undisturbed
  <2>3. CASE ~SetClosed /\ ~CloseClient
    <3>1. closer' = closer
      BY <2>3, PeerActs
         DEF StackNext, RunForever, Check, CallConnect, Dialling, CallCommand, Iterate, CallRead,
             InCall, CallApi, InApi, CallbackEnds, OverWith, Handle, Wake, Finally, threads, all
    <3>2. closed' = closed \/ closed' = TRUE
      BY <2>3, PeerActs
         DEF StackNext, RunForever, Check, CallConnect, Dialling, CallCommand, Iterate, CallRead,
             InCall, CallApi, InApi, CallbackEnds, Handle, Wake, Finally, threads, all
    <3> QED BY <1>1, <3>1, <3>2 DEF Undisturbed
  <2> QED BY <2>1, <2>2, <2>3
<1>4. ASSUME ~closed' PROVE Emptied' /\ Numbered'
  <2>1. ~closed /\ Emptied /\ Numbered /\ closer = "out"
    BY <1>1, <1>2, <1>4 DEF Undisturbed
  <2>2. ~CloseClient /\ ~SetClosed
    BY <1>4, <2>1, Closing DEF SetClosed
  <2>3. CASE Fail("none")
    <3>1. Emptied'
      BY <2>3, FailEffect DEF Emptied, Held
    <3>2. Numbered'
      BY <1>1, <2>1, <2>3, FailEffect, NumberedAfterRelease DEF Fail
    <3> QED BY <3>1, <3>2
  <2>4. CASE Next
    BY <1>1, <2>1, <2>2, <2>4, ConnectsEmpty, EmptiedStep, NumberedStep
  <2>5. CASE UNCHANGED vars
    <3>1. Emptied'
      BY <1>1, <2>1, <2>5, EmptiedStep
    <3>2. Numbered'
      BY <2>1, <2>5, NumberedUnchanged DEF vars
    <3> QED BY <3>1, <3>2
  <2>6. UNCHANGED all => UNCHANGED vars
    BY DEF all
  <2> QED BY <2>2, <2>3, <2>4, <2>5, <2>6, ClientStep
<1> QED BY <1>3, <1>4 DEF Undisturbed

(* What is queued too late is found by a loop that stops.                   *)
LEMMA LeftoverStep ==
  ASSUME StackInv, [StackNext]_all
  PROVE  Leftover'
<1>1. TypeOK /\ Held /\ Leftover /\ InMethod /\ Undisturbed
  BY DEF StackInv, LoopInv, ClientInv
<1> USE DEF Leftover
<1>2. ASSUME pending' = <<>> PROVE Leftover'
  BY <1>2
<1>3. ASSUME UNCHANGED <<pending, closer>>, sock' = sock \/ pending' = <<>>, closed' = closed,
             pc' \in {"check", "connect", "read", "sleep", "ended"} =>
               pc \in {"check", "connect", "read", "sleep", "ended"} \/ ~closed
      PROVE  Leftover'
  BY <1>1, <1>3
<1>4. ASSUME NEW k, Fail(k) PROVE Leftover'
  BY <1>2, <1>4, FailEffect
<1>5. CASE Check \/ Iterate \/ Handle \/ Wake \/ UNCHANGED all
  <2>1. CASE Check
    BY <2>1, <1>3 DEF Check, Move, vars, threads
  <2>2. CASE Iterate
    BY <2>2, <1>3 DEF Iterate, Move, vars, threads
  <2>3. CASE Handle
    BY <2>3, <1>3 DEF Handle, Move, vars, threads
  <2>4. CASE Wake
    BY <2>4, <1>3 DEF Wake, Move, vars, threads
  <2>5. CASE UNCHANGED all
    BY <2>5, <1>3 DEF all, vars, threads, loop
  <2> QED BY <1>5, <2>1, <2>2, <2>3, <2>4, <2>5
<1>6. CASE CallConnect
  BY <1>6, <1>3, CallBegins DEF CallConnect, Dial, queue, threads, loop
<1>7. CASE Dialling
  <2>1. pc = "connect" /\ sock = FALSE /\ UNCHANGED threads /\ pending' = pending
    BY <1>7, DiallingSteps DEF StackInv, LoopInv, Tick, Connect, DialFails, queue
  <2>2. pending = <<>>
    BY <1>1, <2>1
  <2> QED BY <1>2, <2>1, <2>2
<1>8. CASE CallCommand("auth", "auth") \/ CallCommand("subscribe", "event")
  <2>1. UNCHANGED threads
    BY <1>8 DEF CallCommand
  <2>2. CASE SendFails
    BY <2>2, <1>4 DEF SendFails
  <2>3. CASE (NoSocket /\ Ends) \/ ((Send("auth") \/ Send("event")) /\ UNCHANGED loop)
    <3>1. pending' = pending /\ sock' = sock
      BY <2>3, DoneEffect DEF NoSocket, Send, queue, flags
    <3>2. pc' = pc \/ pc' = "except"
      <4>1. CASE NoSocket /\ Ends
        <5>1. result'.kind = "lost"
          BY <4>1, DoneEffect DEF NoSocket
        <5> QED BY <4>1, <5>1, HowItEnds DEF Ends, Throw
      <4> QED BY <2>3, <4>1 DEF loop
    <3> QED BY <2>1, <3>1, <3>2, <1>3 DEF threads
  <2> QED BY <1>8, <2>2, <2>3 DEF CallCommand
<1>9. CASE CallRead
  <2>1. pc = "read" /\ UNCHANGED threads
    BY <1>9 DEF CallRead
  <2>2. CASE Read /\ UNCHANGED loop
    BY <2>2, <1>2 DEF Read, queue
  <2>3. CASE ReadPending /\ Ends
    <3>1. CASE Fail("protocol")
      BY <3>1, <1>4
    <3>2. CASE ~Fail("protocol")
      <4>1. sock' = sock /\ result'.kind = "event" /\ pending # <<>>
        BY <2>3, <3>2 DEF ReadPending, flags, Return, Outcome
      <4>2. sock /\ closer \notin {"bytes", "socket"}
        BY <1>1, <2>1, <4>1
      <4> QED BY <2>1, <4>1, <4>2 DEF threads
    <3> QED BY <3>1, <3>2
  <2>4. CASE NoSocket /\ Ends
    <3>1. sock' = sock /\ pending' = pending /\ result'.kind = "lost"
      BY <2>4, DoneEffect DEF NoSocket, queue
    <3>2. pc' = "except"
      BY <2>4, <3>1, HowItEnds DEF Ends, Throw
    <3> QED BY <2>1, <3>1, <3>2, <1>3 DEF threads
  <2> QED BY <1>9, <2>2, <2>3, <2>4 DEF CallRead
<1>10. CASE InCall \/ InApi \/ CallApi
  <2>1. /\ UNCHANGED threads \/ (UNCHANGED <<closer, closed>>)
        /\ pc \notin {"connect"} /\ op # "dial"
    BY <1>1, <1>10 DEF InCall, InApi, CallApi, OverWith, Send, threads, InMethod
  <2>2. pc' \in {"check", "connect", "read", "sleep", "ended"} => pc' = pc
    BY <1>10, HowItEnds DEF InCall, InApi, CallApi, Ends, Move, Throw, loop
  <2>3. CASE KeepEvent /\ ~Fail("protocol")
    <3>1. sock /\ sock' = sock /\ op \in CommandNames /\ op' = op
      BY <1>1, <2>3 DEF KeepEvent, Held, Commanding, flags, call
    <3>2. pc \in {"auth", "subscribe", "deliver"}
      BY <1>1, <3>1 DEF InMethod, CommandNames
    <3>3. closer' = closer /\ closed' = closed
      BY <2>1 DEF threads
    <3>4. pc' \notin {"check", "connect", "read", "sleep", "ended"}
      BY <2>2, <3>2
    <3> QED BY <1>1, <3>1, <3>3, <3>4 DEF Undisturbed
  <2>4. CASE UNCHANGED pending /\ sock' = sock
    BY <2>1, <2>2, <2>4, <1>3 DEF threads
  <2>5. \/ \E k : Fail(k)
        \/ KeepEvent /\ ~Fail("protocol")
        \/ UNCHANGED pending /\ sock' = sock
    <3>1. CallApi => UNCHANGED pending /\ sock' = sock
      BY DEF CallApi, Send, flags, queue
    <3>2. ~DialFails /\ ~\E f \in {Greeting, Rejection} : Connect(f)
      BY <2>1 DEF DialFails, Connect
    <3>3. Lose \/ GreetingExpires \/ RefuseFrame \/ CommandExpires => \E k : Fail(k)
      BY DEF Lose, GreetingExpires, RefuseFrame, CommandExpires
    <3>4. Tick => UNCHANGED pending /\ sock' = sock
      BY DEF Tick, flags, queue
    <3>5. TakeGreeting \/ TakeReply \/ ReadExpires =>
            (\E k : Fail(k)) \/ ((\E k, r : Done(k, r)) /\ UNCHANGED pending)
      BY DEF TakeGreeting, TakeReply, ReadExpires, queue
    <3>6. TakeFrame => (\E k : Fail(k)) \/ (UNCHANGED pending /\ sock' = sock)
      BY DEF TakeFrame, flags, queue
    <3>7. KeepEvent => (\E k : Fail(k)) \/ (KeepEvent /\ ~Fail("protocol"))
      OBVIOUS
    <3> QED BY <1>10, <3>1, <3>2, <3>3, <3>4, <3>5, <3>6, <3>7, DoneEffect DEF InCall, InApi, Step
  <2> QED BY <2>3, <2>4, <2>5, <1>4
<1>11. CASE CallbackEnds
  <2>1. CASE UNCHANGED <<vars, closed>>
    <3>1. UNCHANGED <<pending, closer>> /\ sock' = sock /\ closed' = closed /\ pc' \in {"iter", "except"}
      BY <1>11, <2>1 DEF CallbackEnds, OverWith, Move, Throw, vars
    <3> QED BY <3>1, <1>3
  <2>2. CASE Fail("none")
    BY <2>2, <1>4
  <2> QED BY <1>11, <2>1, <2>2 DEF CallbackEnds
<1>12. CASE Finally
  BY <1>12, <1>4 DEF Finally
<1>13. CASE SetClosed
  BY <1>1, <1>13 DEF SetClosed, Outside, vars, loop
<1>14. CASE CloseClient
  <2>1. pc' = pc /\ closed' = closed
    BY <1>14, Closing DEF loop
  <2>2. CASE ClearPending
    BY <2>2, <1>2 DEF ClearPending
  <2>3. CASE ClearBuffer
    <3>1. closer' = "pending" /\ pending' = pending /\ sock' = sock
      BY <2>3 DEF ClearBuffer, At, queue
    <3> QED BY <1>1, <2>1, <3>1
  <2>4. CASE ClearBytes
    <3>1. closer = "bytes" /\ pending' = pending
      BY <2>4 DEF ClearBytes, At
    <3> QED BY <1>1, <2>1, <3>1
  <2>5. CASE CloseSocket
    <3>1. closer = "socket" /\ pending' = pending
      BY <2>5 DEF CloseSocket, At, queue
    <3> QED BY <1>1, <2>1, <3>1
  <2> QED BY <1>14, <2>2, <2>3, <2>4, <2>5 DEF CloseClient
<1>15. CASE Peer
  BY <1>15, <1>3, PeerActs DEF loop, threads
<1> HIDE DEF Leftover
<1> QED BY <1>5, <1>6, <1>7, <1>8, <1>9, <1>10, <1>11, <1>12, <1>13, <1>14, <1>15
        DEF StackNext, RunForever

(* The invariant holds from the start. *)
LEMMA StackInvariant == StackSpec => []StackInv
<1>1. StackInit => StackInv
  <2> SUFFICES ASSUME StackInit PROVE StackInv
    OBVIOUS
  <2>1. /\ Init /\ op = "idle" /\ pc = "check" /\ sock = FALSE /\ op # "read"
        /\ seen = 0 /\ emitted = 0 /\ connections = 0 /\ handed = <<0, 0>>
        /\ up = <<>> /\ down = <<>> /\ pending = <<>> /\ closer = "out"
    BY DEF StackInit, Init
  <2>2. Len(pending) = 0 /\ Len(down) = 0
    BY <2>1
  <2>3. TypeOK
    BY <2>1, TypeInit
  <2>4. Held /\ Emptied
    BY <2>1 DEF Held, Emptied
  <2>5. Ascending
    BY <2>1, <2>2 DEF Ascending, QueueAscends, WireAscends, QueueFirst
  <2>6. Numbered
    <3>1. Queued = 0
      BY <2>1, <2>2 DEF Queued
    <3> QED BY <2>1, <2>2, <3>1 DEF Numbered, QueueNumbered, WireNumbered, EndsAtEmitted
  <2>7. InMethod /\ Between /\ HandedUp
    BY <2>1 DEF InMethod, Between, HandedUp, Given
  <2> QED BY <2>1, <2>3, <2>4, <2>5, <2>6, <2>7
          DEF StackInv, ClientInv, Undisturbed, Leftover, LoopInv
<1>2. StackInv /\ [StackNext]_all => StackInv'
  BY ClientInvStep, UndisturbedStep, LeftoverStep, LoopStep DEF StackInv
<1> QED BY <1>1, <1>2, PTL DEF StackSpec

-----------------------------------------------------------------------------
(* The callback is handed the events of each connection in order and none   *)
(* twice, whatever its own commands did to the queue or the connection, and *)
(* at whatever point of another thread's close(); and until that is called, *)
(* from the first on and none skipped (esl_listener.py:175-191,             *)
(* esl.py:287-297, 599-664).                                                *)
THEOREM HandedOver == StackSpec => HandedInOrder
<1> DEFINE Before0 == IF handed'[1] = handed[1] THEN handed[2] ELSE 0
           Handing == handed' # handed =>
                        /\ handed'[1] >= handed[1] /\ handed'[2] > Before0
                        /\ ~closed => handed'[2] = Before0 + 1
<1>1. StackInv /\ [StackNext]_all => [Handing]_all
  <2> SUFFICES ASSUME StackInv, [StackNext]_all PROVE Handing
    OBVIOUS
  <2>1. connections \in Nat /\ seen \in Nat /\ HandedUp
    BY DEF StackInv, LoopInv, ClientInv, TypeOK
  <2>2. ASSUME pc = "deliver", OverWith PROVE Handing
    BY <2>1, <2>2 DEF OverWith, HandedUp, Given
  <2>3. CloseClient => handed' = handed
    BY Closing
  <2>4. InApi \/ CallbackEnds => (pc = "deliver" /\ OverWith) \/ handed' = handed
    BY DEF InApi, CallbackEnds
  <2>5. Check \/ CallConnect \/ Dialling \/ CallCommand("auth", "auth") \/ CallCommand("subscribe", "event")
          \/ Iterate \/ CallRead \/ InCall \/ CallApi \/ Handle \/ Wake \/ Finally
          \/ SetClosed \/ UNCHANGED all => handed' = handed
    BY DEF Check, CallConnect, Dialling, CallCommand, Iterate, CallRead, InCall, CallApi, Handle,
           Wake, Finally, SetClosed, Outside, all
  <2>6. (pc = "deliver" /\ OverWith) \/ handed' = handed
    BY <2>3, <2>4, <2>5, Closing, PeerActs DEF StackNext, RunForever
  <2> QED BY <2>2, <2>6
<1> QED BY <1>1, StackInvariant, PTL DEF StackSpec, HandedInOrder

(* Each step of the loop with the client is one of the listener, or none.   *)
LEMMA ListenerStep ==
  ASSUME StackInv, [StackNext]_all
  PROVE  [Listener!Next]_Listener!vars
<1> DEFINE Goal == [Listener!Next]_Listener!vars
<1> SUFFICES Goal
  OBVIOUS
<1>1. ClientInv /\ Undisturbed /\ InMethod /\ Between /\ sock \in BOOLEAN /\ sock' \in BOOLEAN
  BY ClientInvStep DEF StackInv, LoopInv, ClientInv, TypeOK
<1>2. ASSUME UNCHANGED <<loop, timing, late, tries, closed>>, sock' = sock,
             (closer' = "out") <=> (closer = "out")
      PROVE  Goal
  BY <1>2 DEF loop, timing, threads, Listener!vars, Listener!loop, Listener!timing, Listener!history
<1>3. ASSUME \/ Listener!Check \/ Listener!Connect \/ Listener!Authenticate
             \/ Listener!Subscribe \/ Listener!Iterate \/ Listener!Read
             \/ Listener!Deliver \/ Listener!Handle \/ Listener!Wake
             \/ Listener!Finally \/ Listener!SetClosed \/ Listener!CloseClient
      PROVE  Goal
  BY <1>3 DEF Listener!Next, Listener!RunForever
<1> USE DEF Move, Throw, loop, timing, threads,
            Listener!loop, Listener!timing, Listener!history, Listener!Go, Listener!Raise
<1> HIDE DEF Goal
<1>4. CASE Check
  <2>1. Listener!Check
    BY <1>4 DEF Check, vars, Listener!Check
  <2> QED BY <2>1, <1>3
<1>5. CASE CallConnect \/ Dialling
  <2>1. CASE CallConnect
    BY <2>1, <1>2, CallBegins DEF CallConnect
  <2>2. CASE Dialling
    <3>1. pc = "connect" /\ UNCHANGED <<timing, threads, late>>
      BY <1>1, <2>2, DiallingSteps
    <3>2. CASE Tick /\ UNCHANGED <<loop, tries>>
      BY <3>1, <3>2, <1>2, CallBegins
    <3>3. CASE \/ pc' = "greeting" /\ raised' = raised /\ sock' = TRUE /\ tries' = Listener!Count(tries)
               \/ pc' = "except" /\ raised' = "lost" /\ sock' = FALSE /\ tries' = Listener!Count(tries)
      <4>1. Listener!Connect
        BY <3>1, <3>3 DEF Listener!Connect
      <4> QED BY <4>1, <1>3
    <3> QED BY <1>1, <2>2, <3>2, <3>3, DiallingSteps, CallBegins
  <2> QED BY <1>5, <2>1, <2>2
<1>6. ASSUME pc \in {"greeting", "auth"}, pc' = "except", raised' \in {"lost", "timeout"},
             sock' = FALSE, UNCHANGED <<timing, threads, late, tries>>
      PROVE  Goal
  <2>1. Listener!Authenticate
    BY <1>6 DEF Listener!Authenticate
  <2> QED BY <2>1, <1>3
<1>7. ASSUME pc = "subscribe", pc' = "except", raised' \in {"lost", "timeout"},
             sock' = FALSE, UNCHANGED <<timing, threads, late, tries>>
      PROVE  Goal
  <2>1. Listener!Subscribe
    BY <1>7 DEF Listener!Subscribe
  <2> QED BY <2>1, <1>3
<1>8. ASSUME pc = "read", pc' = "except", raised' = "lost",
             sock' = FALSE, UNCHANGED <<timing, threads, late, tries>>
      PROVE  Goal
  <2>1. Listener!Read
    BY <1>8 DEF Listener!Read
  <2> QED BY <2>1, <1>3
<1>9. CASE CallCommand("auth", "auth") \/ CallCommand("subscribe", "event")
  <2>1. pc \in {"auth", "subscribe"} /\ UNCHANGED <<timing, threads, late, tries>>
    BY <1>9 DEF CallCommand
  <2>2. \/ ((NoSocket /\ sock = FALSE) \/ SendFails) /\ Ends
        \/ (Send("auth") \/ Send("event")) /\ UNCHANGED loop
    BY <1>1, <1>9 DEF CallCommand, NoSocket
  <2>3. CASE ((NoSocket /\ sock = FALSE) \/ SendFails) /\ Ends
    <3>1. sock' = FALSE /\ pc' = "except" /\ raised' = "lost"
      BY <2>3, CallRaises, HowItEnds DEF Ends
    <3> QED BY <2>1, <3>1, <1>6, <1>7
  <2>4. CASE (Send("auth") \/ Send("event")) /\ UNCHANGED loop
    BY <2>1, <2>4, <1>2, CallBegins
  <2> QED BY <2>2, <2>3, <2>4
<1>10. CASE Iterate
  <2>1. Listener!Iterate
    BY <1>10 DEF Iterate, vars, Listener!Iterate
  <2> QED BY <2>1, <1>3
<1>11. CASE CallRead
  <2>1. pc = "read" /\ UNCHANGED <<timing, threads, late, tries>>
    BY <1>11 DEF CallRead
  <2>2. CASE Read /\ UNCHANGED loop
    BY <2>1, <2>2, <1>2, CallBegins
  <2>3. CASE ReadPending /\ Ends /\ result'.kind = "event"
    <3>1. sock /\ sock' = sock /\ pc' = "deliver" /\ raised' = raised
      BY <2>1, <2>3, QueueReturns, HowItEnds DEF Ends
    <3>2. Listener!Read
      BY <2>1, <3>1 DEF Listener!Read
    <3> QED BY <3>2, <1>3
  <2>4. CASE ReadPending /\ Ends /\ result'.kind = "protocol"
    <3>1. sock' = FALSE /\ pc' = "except" /\ raised' = "lost"
      BY <2>1, <2>4, QueueReturns, HowItEnds DEF Ends
    <3> QED BY <2>1, <3>1, <1>8
  <2>5. CASE NoSocket /\ Ends
    <3>1. sock = FALSE
      BY <1>1, <2>5 DEF NoSocket
    <3>2. sock' = FALSE /\ pc' = "except" /\ raised' = "lost"
      BY <2>5, <3>1, CallRaises, HowItEnds DEF Ends
    <3> QED BY <2>1, <3>2, <1>8
  <2> QED BY <1>1, <1>11, <2>2, <2>3, <2>4, <2>5, QueueReturns DEF CallRead
<1>12. CASE InCall
  <2>0. pc \notin {"connect", "deliver"} /\ UNCHANGED <<threads, late, tries>> /\ op # "dial"
    BY <1>1, <1>12 DEF InCall, InMethod
  <2>1. Advances /\ pc # "deliver" /\ UNCHANGED <<threads, late, tries>>
    BY <1>1, <1>12, <2>0, MethodAdvances DEF InCall
  <2>2. \/ pc = "greeting" /\ op = "connect"
        \/ pc = "auth" /\ op = "auth"
        \/ pc = "subscribe" /\ op = "event"
        \/ pc = "read" /\ op = "read"
    BY <1>1, <2>0, <2>1 DEF Advances, InMethod
  <2>3. ~(pc = "subscribe" /\ pc' = "iter") => UNCHANGED timing
    BY <1>12 DEF InCall, Timing
  <2>4. CASE op' # "idle" /\ UNCHANGED loop
    <3>1. sock' = sock
      BY <2>1, <2>4 DEF Advances, GoesOn
    <3>2. UNCHANGED timing
      BY <2>3, <2>4
    <3> QED BY <2>1, <2>4, <3>1, <3>2, <1>2
  <2>5. CASE Ends
    <3>1. EndsKeeping \/ EndsIdle \/ EndsClosed
      BY <2>1, <2>5 DEF Advances, GoesOn, Ends
    <3>2. CASE EndsKeeping /\ result'.kind = "ok"
      <4>1. /\ sock /\ sock' = sock /\ raised' = raised
            /\ \/ pc = "greeting" /\ pc' = "auth"
               \/ pc = "auth" /\ pc' = "subscribe"
               \/ pc = "subscribe" /\ pc' = "iter"
        BY <2>1, <2>5, <3>2, HowItEnds DEF Ends, EndsKeeping
      <4>2. CASE pc = "greeting"
        <5>1. pc' = "auth" /\ UNCHANGED timing
          BY <2>3, <4>1, <4>2
        <5> QED BY <2>1, <4>1, <4>2, <5>1 DEF Goal, Listener!vars
      <4>3. CASE pc = "auth"
        <5>1. pc' = "subscribe" /\ UNCHANGED timing
          BY <2>3, <4>1, <4>3
        <5>2. Listener!Authenticate
          BY <2>1, <4>1, <4>3, <5>1 DEF Listener!Authenticate
        <5> QED BY <5>2, <1>3
      <4>4. CASE pc = "subscribe"
        <5>1. pc' = "iter" /\ backoff' = Base /\ last' = 0 /\ wait' = wait
          BY <1>12, <4>1, <4>4 DEF InCall, Timing
        <5>2. Listener!Subscribe
          BY <2>1, <4>1, <4>4, <5>1 DEF Listener!Subscribe
        <5> QED BY <5>2, <1>3
      <4> QED BY <4>1, <4>2, <4>3, <4>4
    <3>3. CASE EndsKeeping /\ result'.kind = "refused"
      <4>1. /\ sock /\ sock' = sock /\ pc = "subscribe"
            /\ pc' = "except" /\ raised' = "refused"
        BY <2>2, <2>5, <3>3, HowItEnds DEF Ends, EndsKeeping
      <4>2. UNCHANGED timing
        BY <2>3, <4>1
      <4>3. Listener!Subscribe
        BY <2>1, <4>1, <4>2 DEF Listener!Subscribe
      <4> QED BY <4>3, <1>3
    <3>4. CASE EndsKeeping /\ result'.kind \in {"event", "other"}
      <4>1. /\ sock /\ sock' = sock /\ pc = "read"
            /\ pc' \in {"deliver", "iter"} /\ raised' = raised
        BY <2>2, <2>5, <3>4, HowItEnds DEF Ends, EndsKeeping
      <4>2. UNCHANGED timing
        BY <2>3, <4>1
      <4>3. Listener!Read
        BY <2>1, <4>1, <4>2 DEF Listener!Read
      <4> QED BY <4>3, <1>3
    <3>5. CASE EndsIdle
      <4>1. sock' = sock /\ pc = "read" /\ pc' = "iter" /\ raised' = raised
        BY <2>2, <2>5, <3>5, HowItEnds DEF Ends, EndsIdle
      <4>2. UNCHANGED timing
        BY <2>3, <4>1
      <4>3. Listener!Read
        BY <2>1, <4>1, <4>2 DEF Listener!Read
      <4> QED BY <4>3, <1>3
    <3>6. CASE EndsClosed /\ result'.kind # "denied"
      <4>1. /\ sock' = FALSE /\ pc' = "except" /\ raised' \in {"lost", "timeout"}
            /\ pc = "read" => raised' = "lost"
        BY <2>2, <2>5, <3>6, HowItEnds DEF Ends, EndsClosed
      <4>2. UNCHANGED timing
        BY <2>3, <4>1
      <4> QED BY <2>1, <2>2, <4>1, <4>2, <1>6, <1>7, <1>8
    <3>7. CASE EndsClosed /\ result'.kind = "denied"
      <4>1. /\ sock' = FALSE /\ sock /\ pc = "auth" /\ pc' = "except" /\ raised' = "denied"
        BY <2>2, <2>5, <3>7, HowItEnds DEF Ends, EndsClosed
      <4>2. UNCHANGED timing
        BY <2>3, <4>1
      <4>3. Listener!Authenticate
        BY <2>1, <4>1, <4>2 DEF Listener!Authenticate
      <4> QED BY <4>3, <1>3
    <3> QED BY <3>1, <3>2, <3>3, <3>4, <3>5, <3>6, <3>7 DEF EndsKeeping
  <2> QED BY <1>12, <2>4, <2>5 DEF InCall
<1>13. ASSUME pc = "deliver", (pc' = "iter" /\ raised' = raised)
                              \/ (pc' = "except" /\ raised' \in {"lost", "callback"}),
              OverWith,
              (sock' = sock /\ closed' = closed) \/ (sock' = FALSE /\ closed' \in {closed, TRUE})
       PROVE  Goal
  <2>1. Listener!Deliver
    BY <1>13 DEF OverWith, Listener!Deliver
  <2> QED BY <2>1, <1>3
<1>14. CASE CallApi
  BY <1>14, <1>2, CallBegins DEF CallApi
<1>15. CASE InApi
  <2>0. pc = "deliver" /\ op # "dial"
    BY <1>1, <1>15 DEF InApi, InMethod
  <2>1. Advances /\ pc = "deliver"
    BY <1>1, <1>15, <2>0, MethodAdvances DEF InApi
  <2>2. op = "api"
    BY <1>1, <2>1 DEF Advances, InMethod
  <2>3. CASE op' # "idle" \/ result'.kind = "ok"
    <3>1. UNCHANGED <<loop, timing, threads, late, tries>>
      BY <1>15, <2>3 DEF InApi
    <3>2. sock' = sock
      BY <2>1, <2>3 DEF Advances, GoesOn, EndsKeeping, EndsIdle, EndsClosed
    <3> QED BY <3>1, <3>2, <1>2
  <2>4. CASE op' = "idle" /\ result'.kind # "ok"
    <3>1. /\ (pc' = "iter" /\ raised' = raised)
             \/ (pc' = "except" /\ raised' \in {"lost", "callback"})
          /\ OverWith /\ closed' = closed
      BY <1>15, <2>4 DEF InApi
    <3>2. sock' = FALSE
      BY <2>1, <2>2, <2>4 DEF Advances, GoesOn, EndsKeeping, EndsIdle, EndsClosed
    <3> QED BY <2>1, <3>1, <3>2, <1>13
  <2> QED BY <2>3, <2>4
<1>16. CASE CallbackEnds
  <2>1. /\ pc = "deliver" /\ OverWith
        /\ (pc' = "iter" /\ raised' = raised)
           \/ (pc' = "except" /\ raised' \in {"lost", "callback"})
    BY <1>16 DEF CallbackEnds
  <2>2. (sock' = sock /\ closed' = closed) \/ (sock' = FALSE /\ closed' \in {closed, TRUE})
    BY <1>16, Closing DEF CallbackEnds, vars
  <2> QED BY <2>1, <2>2, <1>13
<1>17. CASE Handle
  <2>1. Listener!Handle
    BY <1>17 DEF Handle, vars, Listener!Handle
  <2> QED BY <2>1, <1>3
<1>18. CASE Wake
  <2>1. Listener!Wake
    BY <1>18 DEF Wake, vars, Listener!Wake
  <2> QED BY <2>1, <1>3
<1>19. CASE Finally
  <2>1. Listener!Finally
    BY <1>19, Closing DEF Finally, Listener!Finally
  <2> QED BY <2>1, <1>3
<1>20. CASE SetClosed
  <2>1. Listener!SetClosed
    BY <1>20 DEF SetClosed, Outside, vars, Listener!SetClosed
  <2> QED BY <2>1, <1>3
<1>21. CASE CloseClient
  <2>1. UNCHANGED <<loop, timing, late, tries, closed>>
    BY <1>21, Closing
  <2>2. CASE CloseSocket
    <3>1. closer = "socket" /\ closer' = "out" /\ sock' = FALSE
      BY <2>2 DEF CloseSocket, At
    <3>2. Listener!CloseClient
      BY <2>1, <3>1 DEF Listener!CloseClient
    <3> QED BY <3>2, <1>3
  <2>3. CASE ~CloseSocket
    <3>1. sock' = sock /\ closer # "out" /\ closer' # "out"
      BY <1>21, <2>3, Closing DEF CloseClient, ClearBuffer, ClearPending, ClearBytes, At
    <3> QED BY <2>1, <3>1, <1>2
  <2> QED BY <2>2, <2>3
<1>22. CASE Peer
  BY <1>22, <1>2, PeerActs
<1>23. CASE UNCHANGED all
  BY <1>23, <1>2 DEF all, vars
<1> QED BY <1>4, <1>5, <1>9, <1>10, <1>11, <1>12, <1>14, <1>15, <1>16, <1>17, <1>18, <1>19,
           <1>20, <1>21, <1>22, <1>23 DEF StackNext, RunForever

(* The loop with the client implements ESLListener: its methods end in no   *)
(* other ways than that module allows, and the connection comes and goes at *)
(* no other times (run_forever, esl_listener.py:162-191, on esl.py).        *)
THEOREM ListenerImplemented == StackSpec => ImplementsListener
<1>1. StackInit => Listener!Init
  BY DEF StackInit, Init, Listener!Init
<1> QED BY <1>1, ListenerStep, StackInvariant, PTL
        DEF StackSpec, ImplementsListener, Listener!Spec
=============================================================================
