---------------------------- MODULE FrameChannel ----------------------------
(***************************************************************************)
(* What the byte-level reader of ESLFraming promises to the client above   *)
(* it: a connection carries a sequence of whole frames, which are handed   *)
(* over one at a time, each once and in order, until the connection is     *)
(* dropped.  How the peer's bytes were cut into segments is not visible.   *)
(***************************************************************************)
EXTENDS Sequences

VARIABLES
  up,    \* is there a connection?
  todo,  \* the frames the peer has put on the connection and nobody has read
  got    \* the frames handed over since the connection was opened

vars == <<up, todo, got>>

Init == up = FALSE /\ todo = <<>> /\ got = <<>>

(* A new connection starts with whatever the peer will send on it. *)
Open == ~up /\ up' = TRUE /\ got' = <<>>

Deliver ==
  /\ up /\ todo # <<>>
  /\ got' = Append(got, Head(todo))
  /\ todo' = Tail(todo)
  /\ UNCHANGED up

(* Whatever was not read is lost with the connection. *)
Drop == up /\ up' = FALSE /\ todo' = <<>> /\ UNCHANGED got

Next == Open \/ Deliver \/ Drop

Spec == Init /\ [][Next]_vars
=============================================================================
