----------------------------- MODULE MCFraming ------------------------------
(* ESLFraming over every stream of at most Pieces pieces of the wire         *)
(* format, accepted, refused and truncated ones, and every short stream; and *)
(* EventBody over the events among them.                                     *)
EXTENDS EventBody, SequencesExt

CONSTANTS Pieces, ShortLength

mcValue == [i \in {"len0", "len1", "len2", "len3", "len4", "len6", "len7", "len8"} |->
  CASE i = "len0" -> 0 [] i = "len1" -> 1 [] i = "len2" -> 2 [] i = "len3" -> 3
    [] i = "len4" -> 4 [] i = "len6" -> 6 [] i = "len7" -> 7 [] i = "len8" -> 8]
mcByte == {"lf", "x", "evt", "lead", "trail"} \cup DOMAIN mcValue

(* Whole frames and heads of frames; with MaxHeader 5, MaxBody 7 and         *)
(* MaxFrame 11 they meet every limit from both sides.                        *)
Piece == {
  <<"lf", "lf">>,                                  \* an empty block
  <<"x", "lf", "lf">>,                             \* no body
  <<"x", "x", "x", "lf", "lf">>,                   \* header of MaxHeader bytes
  <<"x", "x", "x", "x", "lf", "lf">>,              \* one byte over MaxHeader
  <<"len0", "lf", "lf">>,
  <<"len2", "lf", "lf", "lf", "lf">>,              \* a body that is a blank line
  <<"len7", "lf", "x", "lf", "lf", "x", "x">>,     \* over MaxFrame
  <<"len2", "lf", "len1", "lf", "lf", "x">>,       \* the last length counts
  <<"len8", "lf", "lf", "x">>,                     \* over MaxBody
  <<"len1", "x", "lf", "lf">> }                    \* not a number

EventPiece == {<<"evt", "lf">> \o s : s \in {
  <<"len3", "lf", "lf", "x", "lf", "lf">>,                          \* no payload
  <<"len4", "lf", "lf", "x", "x", "x", "x">>,                       \* no blank line
  <<"len6", "lf", "lf", "len3", "lf", "lf", "lead", "trail", "x">>, \* two characters
  <<"len6", "lf", "lf", "len2", "lf", "lf", "lead", "trail", "x">>, \* and one to spare
  <<"len6", "lf", "lf", "x", "x", "x", "x", "lf", "lf">>,           \* over MaxHeader
  <<"len4", "lf", "lf", "len2", "lf", "lf", "lead">>,               \* half a character
  <<"len4", "lf", "lf", "len8", "lf", "lf", "x">> }}                \* over MaxBody

mcStreams ==
  {FlattenSeq(t) : t \in SeqOf(Piece, Pieces)}
  \cup {p \o q : p \in EventPiece, q \in EventPiece \cup {<<>>}}
  \cup SeqOf({"lf", "x", "len1"}, ShortLength)
  \cup {[i \in 1..12 |-> "x"]}                      \* a header without end
=============================================================================
