----------------------------- MODULE ESLFraming -----------------------------
(***************************************************************************)
(* ESLClient._read_frame and what it stands on: _read_until, _read_exact,  *)
(* _recv, _parse_content_length and _raise_protocol_error (clients/esl.py) *)
(* over one TCP connection whose bytes arrive cut at arbitrary places.     *)
(*                                                                         *)
(* A byte is LF, a member of DOMAIN Value, or any other member of Byte.  A *)
(* byte b of DOMAIN Value stands for the header line                       *)
(* "Content-Length: Value[b]" when it is a line of its own; followed by    *)
(* anything else on its line it is a Content-Length that is not a number.  *)
(* Every other line is a header this reader does not look at.              *)
(***************************************************************************)
EXTENDS Integers, Sequences, FiniteSets

CONSTANTS
  Byte,       \* the byte alphabet
  LF,         \* the line feed
  Value,      \* [byte that is a Content-Length line |-> the declared length]
  MaxHeader,  \* config.max_header_bytes
  MaxBody,    \* config.max_body_bytes
  MaxFrame,   \* config.max_frame_bytes
  RecvMax,    \* the 4096 of sock.recv(4096)
  Timeout,    \* config.timeout, in ticks
  Streams     \* what a peer may send on one connection

ASSUME AlphabetAssumption ==
  /\ LF \in Byte
  /\ DOMAIN Value \subseteq Byte \ {LF}
  /\ \A b \in DOMAIN Value : Value[b] \in Nat

(* config.py clamps every cap to a finite positive range, each on its own:  *)
(* nothing makes MaxFrame at least MaxHeader.                               *)
ASSUME LimitAssumption ==
  /\ MaxHeader \in Nat \ {0} /\ MaxBody \in Nat \ {0} /\ MaxFrame \in Nat \ {0}
  /\ RecvMax \in Nat \ {0} /\ Timeout \in Nat \ {0}

ASSUME StreamAssumption == Streams \subseteq Seq(Byte)

VARIABLES
  open,    \* self._sock is not None
  stream,  \* everything the peer sends on this connection (history)
  wire,    \* the bytes of it that recv has not returned yet
  buffer,  \* self._buffer
  pc,      \* "idle": no read; "header": in _read_until; "body": in _read_exact
  head,    \* the header block already taken while in _read_exact
  need,    \* n, the declared body length, while in _read_exact
  left,    \* deadline - now
  spent,   \* ticks since _read_frame was entered (history)
  frames,  \* the frames returned on this connection (history)
  taken,   \* the bytes those frames were made of (history)
  result   \* how the last _read_frame ended

conn   == <<open, stream, wire>>
read   == <<pc, head, need, left, spent>>
log    == <<frames, taken>>
vars   == <<open, stream, wire, buffer, pc, head, need, left, spent,
            frames, taken, result>>

Results == {"none", "frame", "timeout", "lost", "protocol"}

-----------------------------------------------------------------------------
(* Header blocks. *)

(* The bytes of a blank-line terminated block start at 1 and end at the     *)
(* first e such that e-1 and e are both LF.                                 *)
BlockEnds(s) == {e \in 2..Len(s) : s[e] = LF /\ s[e - 1] = LF}
HasBlock(s) == BlockEnds(s) # {}
BlockEnd(s) == CHOOSE e \in BlockEnds(s) : \A f \in BlockEnds(s) : e <= f

(* _parse_headers keeps the last line of a key. *)
LengthLines(h) ==
  {i \in 1..Len(h) : h[i] \in DOMAIN Value /\ (i = 1 \/ h[i - 1] = LF)}
LengthLine(h) == CHOOSE i \in LengthLines(h) : \A j \in LengthLines(h) : j <= i

(* No Content-Length and Content-Length: 0 both mean no body is read. *)
BodyLength(h) == IF LengthLines(h) = {} THEN 0 ELSE Value[h[LengthLine(h)]]

(* Nothing but digits follows the key. *)
LengthIsNumber(h) ==
  LengthLines(h) # {} /\ LengthLine(h) < Len(h) => h[LengthLine(h) + 1] = LF

(* Fault: the body cap is forgotten. *)
LengthUncapped(h) == LengthIsNumber(h)

(* _parse_content_length: digits only, and not above the body cap.          *)
LengthAccepted(h) == LengthIsNumber(h) /\ BodyLength(h) \in 0..MaxBody

(* Fault: only header and body are capped, not the frame. *)
FrameUncapped(e, h) == e <= MaxHeader /\ LengthAccepted(h)

(* The checks of _read_until and _read_frame on a block of e bytes, h being *)
(* the block without its terminator.                                        *)
Acceptable(e, h) ==
  /\ e <= MaxHeader
  /\ e <= MaxFrame
  /\ LengthAccepted(h)
  /\ e + BodyLength(h) <= MaxFrame

-----------------------------------------------------------------------------
Init ==
  /\ open = FALSE /\ stream = <<>> /\ wire = <<>> /\ buffer = <<>>
  /\ pc = "idle" /\ head = <<>> /\ need = 0 /\ left = 0 /\ spent = 0
  /\ frames = <<>> /\ taken = <<>> /\ result = "none"

(* ESLClient.connect up to the greeting: a fresh socket, an empty buffer.   *)
Connect(s) ==
  /\ pc = "idle" /\ ~open
  /\ open' = TRUE /\ stream' = s /\ wire' = s /\ buffer' = <<>>
  /\ frames' = <<>> /\ taken' = <<>> /\ result' = "none"
  /\ UNCHANGED read

(* ESLClient.close: whatever was buffered or not yet received is gone.      *)
Shut == open' = FALSE /\ wire' = <<>> /\ buffer' = <<>> /\ UNCHANGED stream

(* The read is over. *)
Return(r) ==
  /\ result' = r
  /\ pc' = "idle" /\ head' = <<>> /\ need' = 0 /\ left' = 0 /\ spent' = 0

Close == pc = "idle" /\ open /\ Shut /\ UNCHANGED <<read, log, result>>

(* _read_frame(deadline = now + d): read_event and connect give it the      *)
(* whole timeout, _command what is left of the command's.                   *)
ReadFrame(d) ==
  /\ pc = "idle" /\ open
  /\ pc' = "header" /\ left' = d /\ spent' = 0 /\ result' = "none"
  /\ UNCHANGED <<conn, buffer, head, need, log>>

(* With no socket, _recv raises ESLConnectionError at once.                 *)
ReadClosed ==
  /\ pc = "idle" /\ ~open
  /\ Return("lost")
  /\ UNCHANGED <<conn, buffer, log>>

(* _raise_protocol_error. *)
Refuse == Shut /\ Return("protocol") /\ UNCHANGED log

(* The bytes of a frame. *)
Encoding(h, b) == h \o <<LF, LF>> \o b

Yield(h, b) ==
  /\ frames' = Append(frames, [head |-> h, body |-> b])
  /\ taken' = taken \o Encoding(h, b)
  /\ Return("frame") /\ UNCHANGED conn

(* The marker is in the buffer: take the block, check it, and either return *)
(* the frame, go on to its body, or refuse it.                              *)
TakeHeader ==
  /\ pc = "header" /\ HasBlock(buffer)
  /\ LET e == BlockEnd(buffer)
         h == SubSeq(buffer, 1, e - 2)
     IN  \/ ~Acceptable(e, h) /\ Refuse
         \/ /\ Acceptable(e, h)
            /\ buffer' = SubSeq(buffer, e + 1, Len(buffer))
            /\ \/ BodyLength(h) = 0 /\ Yield(h, <<>>)
               \/ /\ BodyLength(h) > 0
                  /\ pc' = "body" /\ head' = h /\ need' = BodyLength(h)
                  /\ UNCHANGED <<conn, left, spent, log, result>>

(* Fault: the cap is taken one byte early. *)
HeaderTooLongEarly ==
  /\ pc = "header" /\ ~HasBlock(buffer) /\ Len(buffer) >= MaxHeader - 1
  /\ Refuse

HeaderTooLong ==
  /\ pc = "header" /\ ~HasBlock(buffer) /\ Len(buffer) >= MaxHeader
  /\ Refuse

(* Fault: what was received beyond the body is thrown away. *)
TakeBodyDropsRest ==
  /\ pc = "body" /\ Len(buffer) >= need
  /\ buffer' = <<>>
  /\ Yield(head, SubSeq(buffer, 1, need))

TakeBody ==
  /\ pc = "body" /\ Len(buffer) >= need
  /\ buffer' = SubSeq(buffer, need + 1, Len(buffer))
  /\ Yield(head, SubSeq(buffer, 1, need))

(* Fault: a header block is collected without a cap. *)
InRecvUncapped ==
  \/ pc = "header" /\ ~HasBlock(buffer)
  \/ pc = "body" /\ Len(buffer) < need

(* The reader sits in _recv. *)
InRecv ==
  \/ pc = "header" /\ ~HasBlock(buffer) /\ Len(buffer) < MaxHeader
  \/ pc = "body" /\ Len(buffer) < need

(* Fault: every recv gets the whole timeout. *)
RecvRestartsDeadline(k) ==
  /\ InRecv /\ left > 0
  /\ k <= RecvMax /\ k <= Len(wire)
  /\ buffer' = buffer \o SubSeq(wire, 1, k)
  /\ wire' = SubSeq(wire, k + 1, Len(wire))
  /\ left' = Timeout
  /\ UNCHANGED <<open, stream, pc, head, need, spent, log, result>>

(* recv returns the next k bytes of the stream. *)
Recv(k) ==
  /\ InRecv /\ left > 0
  /\ k <= RecvMax /\ k <= Len(wire)
  /\ buffer' = buffer \o SubSeq(wire, 1, k)
  /\ wire' = SubSeq(wire, k + 1, Len(wire))
  /\ UNCHANGED <<open, stream, read, log, result>>

(* Time passes while recv blocks. *)
Tick ==
  /\ InRecv /\ left > 0
  /\ left' = left - 1 /\ spent' = spent + 1
  /\ UNCHANGED <<conn, buffer, pc, head, need, log, result>>

(* Fault: a buffered half of a frame is taken for an idle connection. *)
ExpireKeepsPartial ==
  /\ InRecv /\ left = 0
  /\ IF pc = "body"
     THEN Shut /\ Return("lost")
     ELSE Return("timeout") /\ UNCHANGED <<conn, buffer>>
  /\ UNCHANGED log

(* Fault: an unfinished frame is waited for once more. *)
ExpireWaitsOn ==
  /\ InRecv /\ left = 0
  /\ IF pc = "body" \/ buffer # <<>>
     THEN left' = Timeout /\ spent' = 0 /\ UNCHANGED <<conn, buffer, pc, head, need, result>>
     ELSE Return("timeout") /\ UNCHANGED <<conn, buffer>>
  /\ UNCHANGED log

(* The deadline is over: socket.timeout, or remaining <= 0 before recv.     *)
(* With part of a frame consumed or buffered the stream cannot be used any  *)
(* more; otherwise this is an idle tick and the connection stays.           *)
Expire ==
  /\ InRecv /\ left = 0
  /\ IF pc = "body" \/ buffer # <<>>
     THEN Shut /\ Return("lost")
     ELSE Return("timeout") /\ UNCHANGED <<conn, buffer>>
  /\ UNCHANGED log

(* recv fails (OSError) or returns nothing: the peer is gone.               *)
Lose ==
  /\ InRecv /\ left > 0
  /\ Shut /\ Return("lost")
  /\ UNCHANGED log

Step == TakeHeader \/ HeaderTooLong \/ TakeBody \/ Tick \/ Expire

Next ==
  \/ \E s \in Streams : Connect(s)
  \/ Close
  \/ \E d \in 1..Timeout : ReadFrame(d)
  \/ ReadClosed
  \/ Step
  \/ \E k \in 1..RecvMax : Recv(k)
  \/ Lose

Spec == Init /\ [][Next]_vars

(* The interpreter runs the reader, and time passes.  Nothing is assumed of *)
(* the peer.                                                                *)
FairSpec == Spec /\ WF_vars(Step)
-----------------------------------------------------------------------------
Frame == [head : Seq(Byte), body : Seq(Byte)]

(* The shape of the state; between reads nothing of a read is left over.    *)
TypeOK ==
  /\ open \in BOOLEAN
  /\ stream \in Seq(Byte) /\ wire \in Seq(Byte) /\ buffer \in Seq(Byte)
  /\ pc \in {"idle", "header", "body"}
  /\ head \in Seq(Byte) /\ need \in 0..MaxBody
  /\ left \in 0..Timeout /\ spent \in Nat
  /\ frames \in Seq(Frame) /\ taken \in Seq(Byte)
  /\ result \in Results
  /\ pc # "idle" => open
  /\ pc # "body" => head = <<>>

(* However the bytes were cut, and whatever was refused, timed out or       *)
(* returned before: while a connection is open, the bytes of the frames     *)
(* returned, of the header already taken, of self._buffer and of the wire   *)
(* are the peer's stream, none lost, repeated or moved across a boundary.   *)
Partial == IF pc = "body" THEN Encoding(head, <<>>) ELSE <<>>

StreamAccounted == open => stream = taken \o Partial \o buffer \o wire

(* What a misbehaving peer can make the client hold: self._buffer never     *)
(* exceeds the larger of the two caps by a whole recv.                      *)
BufferBound ==
  Len(buffer) < (IF MaxHeader > MaxBody THEN MaxHeader ELSE MaxBody) + RecvMax

(* A peer that trickles bytes cannot hold a read longer than the timeout:   *)
(* the deadline is the frame's, not each recv's.                            *)
FrameDeadline == spent + left <= Timeout

(* A read that ends in ESLTimeout is a liveness tick: it leaves the         *)
(* connection open, at a frame boundary, with no byte consumed.             *)
IdleTickIsClean ==
  [][result' = "timeout" /\ result # "timeout" =>
       open' /\ buffer' = <<>> /\ stream' = taken' \o wire']_vars

(* The bytes s start with a frame the limits forbid: no blank line within   *)
(* MaxHeader bytes, or a declared length that is malformed or too large.    *)
Refusable(s) ==
  LET first == SubSeq(s, 1, IF Len(s) < MaxHeader THEN Len(s) ELSE MaxHeader)
      h == SubSeq(s, 1, BlockEnd(first) - 2)
  IN  IF HasBlock(first)
      THEN ~LengthAccepted(h) \/ BlockEnd(first) + BodyLength(h) > MaxFrame
      ELSE Len(s) >= MaxHeader

(* Protocol errors are the peer's: a frame within the limits is never       *)
(* refused because of where a recv happened to end.                         *)
RefusedForCause ==
  result = "protocol" =>
    Refusable(SubSeq(stream, Len(taken) + 1, Len(stream)))

(* Every read returns: frame, idle tick, lost connection or protocol error. *)
ReadReturns == pc # "idle" ~> pc = "idle"

(* The frame that the bytes s start with, how many of them it takes, and    *)
(* whether it is there, complete and not refusable.                         *)
FirstHead(s) == SubSeq(s, 1, BlockEnd(s) - 2)
FrameSize(s) == BlockEnd(s) + BodyLength(FirstHead(s))
FirstFrame(s) == [head |-> FirstHead(s), body |-> SubSeq(s, BlockEnd(s) + 1, FrameSize(s))]
StartsWithFrame(s) == HasBlock(s) /\ ~Refusable(s) /\ Len(s) >= FrameSize(s)

(* Decoding a whole stream at once: the frames in it from byte p on, up to  *)
(* the first incomplete or refusable one.                                   *)
Decode(s) ==
  LET from[p \in 1..Len(s) + 1] ==
        LET rest == SubSeq(s, p, Len(s))
        IN  IF StartsWithFrame(rest)
            THEN <<FirstFrame(rest)>> \o from[p + FrameSize(rest)] ELSE <<>>
  IN  from

(* ESLFraming implements FrameChannel: todo is what decoding the peer's     *)
(* stream, in one piece, gives after the bytes of the frames returned.      *)
Todo == IF open THEN Decode(stream)[Len(taken) + 1] ELSE <<>>

Channel == INSTANCE FrameChannel WITH up <- open, got <- frames, todo <- Todo

(* Fragmentation is invisible: each read hands over the next frame of the   *)
(* stream as a one-piece decoder sees it, or ends the connection.           *)
ImplementsChannel == Channel!Spec
=============================================================================
