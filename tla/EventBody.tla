----------------------------- MODULE EventBody ------------------------------
(***************************************************************************)
(* What read_event makes of a frame (clients/esl.py): _parse_event_body    *)
(* unwraps the event inside the body of a text/event-plain frame.          *)
(*                                                                         *)
(* ESLFraming deals in bytes; here the body has been decoded.  Lead and    *)
(* Trail are the bytes of a two-byte character; one without the other is   *)
(* not UTF-8 and is replaced.  Sizes are checked against the text encoded  *)
(* again, so a replaced byte counts three.                                 *)
(***************************************************************************)
EXTENDS ESLFraming, Functions

CONSTANTS
  EventLine,    \* the header line "Content-Type: text/event-plain"
  Lead, Trail,  \* the bytes of a two-byte character
  Pair,         \* that character
  Replacement   \* U+FFFD

ASSUME CharacterAssumption ==
  /\ {EventLine, Lead, Trail} \subseteq Byte \ ({LF} \cup DOMAIN Value)
  /\ Pair \notin Byte /\ Replacement \notin Byte
  /\ Lead # Trail

(* The bytes i and i + 1 of s are the halves of a character. *)
Halves(s, i) == i \in 1..Len(s) - 1 /\ s[i] = Lead /\ s[i + 1] = Trail

(* Where the characters of s start, which of them starts at byte i, and how *)
(* many have started by then.                                               *)
Starts(s) == {i \in 1..Len(s) : ~Halves(s, i - 1)}
Char(s, i) ==
  IF Halves(s, i) THEN Pair ELSE IF s[i] \in {Lead, Trail} THEN Replacement ELSE s[i]
Rank(s, i) == Cardinality({j \in Starts(s) : j <= i})

(* bytes.decode(errors="replace") *)
Text(s) ==
  [k \in 1..Cardinality(Starts(s)) |-> Char(s, CHOOSE i \in Starts(s) : Rank(s, i) = k)]

(* len(t.encode()) *)
EncodedSize(t) ==
  Len(t) + Cardinality({k \in DOMAIN t : t[k] = Pair})
         + 2 * Cardinality({k \in DOMAIN t : t[k] = Replacement})

IsEvent(frame) ==
  \E i \in 1..Len(frame.head) :
    /\ frame.head[i] = EventLine
    /\ i = 1 \/ frame.head[i - 1] = LF
    /\ i = Len(frame.head) \/ frame.head[i + 1] = LF

Malformed == [kind |-> "protocol", head |-> <<>>, body |-> <<>>]
Event(h, b) == [kind |-> "event", head |-> h, body |-> b]

(* Fault: the payload is measured in characters. *)
LacksCharacters(rest, n) == Len(rest) < n

Lacks(rest, n) == EncodedSize(rest) < n

(* _parse_event_body, of the decoded body t: the event's header block and   *)
(* its payload, or a protocol error.                                        *)
Unwrapped(t) ==
  LET sep == HasBlock(t)
      e == BlockEnd(t)
      h == IF sep THEN SubSeq(t, 1, e - 2) ELSE t
      rest == IF sep THEN SubSeq(t, e + 1, Len(t)) ELSE <<>>
      size == EncodedSize(h) + IF sep THEN 2 ELSE 0
      n == BodyLength(h)
  IN  IF \/ size > MaxHeader \/ size > MaxFrame
         \/ ~LengthAccepted(h)
         \/ size + n > MaxFrame
         \/ n > 0 /\ (~sep \/ Lacks(rest, n))
      THEN Malformed
      ELSE Event(h, SubSeq(rest, 1, IF n < Len(rest) THEN n ELSE Len(rest)))

(* read_event, of a frame _read_frame returned. *)
Delivered(frame) ==
  IF IsEvent(frame) THEN Unwrapped(Text(frame.body)) ELSE Event(frame.head, frame.body)

-----------------------------------------------------------------------------
(* mod_event_socket's plain serialization: UTF-8, a header block, and a     *)
(* payload if and only if a length that counts its bytes is declared.       *)
Serialized(b) ==
  LET h == SubSeq(b, 1, BlockEnd(b) - 2) IN
  /\ HasBlock(b) /\ LengthIsNumber(h)
  /\ Len(b) = BlockEnd(b) + BodyLength(h)
  /\ Replacement \notin Range(Text(b))

(* An event that reached the client whole comes out whole: every limit the  *)
(* event itself is held to, but the one on its header, is met already when  *)
(* its frame passed, and a payload keeps every character, however many      *)
(* bytes those take (_parse_event_body measures bytes, cuts characters).    *)
EventsSurvive ==
  \A i \in 1..Len(frames) :
    LET f == frames[i]
        e == BlockEnd(f.body)
    IN  IsEvent(f) /\ Serialized(f.body) =>
          Delivered(f) =
            IF e > MaxHeader THEN Malformed
            ELSE Event(Text(SubSeq(f.body, 1, e - 2)), Text(SubSeq(f.body, e + 1, Len(f.body))))
=============================================================================
