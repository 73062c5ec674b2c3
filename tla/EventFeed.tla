----------------------------- MODULE EventFeed ------------------------------
(***************************************************************************)
(* What a consumer of ESLClient.read_event is promised about the events of *)
(* one connection: they come in the order the switch emitted them, none    *)
(* skipped and none repeated, however many commands run in between.  What  *)
(* the connection had not delivered when it ended is lost with it.         *)
(***************************************************************************)
EXTENDS Naturals

VARIABLES
  live,  \* is there a connection?
  sent,  \* how many events the switch has emitted on it
  seen   \* the number of the last event handed to the consumer

vars == <<live, sent, seen>>

Init == live = FALSE /\ sent = 0 /\ seen = 0

Open == ~live /\ live' = TRUE /\ sent' = 0 /\ seen' = 0

Emit == live /\ sent' = sent + 1 /\ UNCHANGED <<live, seen>>

Deliver == live /\ seen < sent /\ seen' = seen + 1 /\ UNCHANGED <<live, sent>>

Drop == live /\ live' = FALSE /\ UNCHANGED <<sent, seen>>

Next == Open \/ Emit \/ Deliver \/ Drop

Spec == Init /\ [][Next]_vars
=============================================================================
