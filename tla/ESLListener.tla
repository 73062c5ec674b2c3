---------------------------- MODULE ESLListener -----------------------------
(***************************************************************************)
(* ESLEventListener (clients/esl_listener.py): run_forever connects,       *)
(* streams events to a callback and reconnects with backoff, until close() *)
(* is called by the callback or by another thread.                         *)
(*                                                                         *)
(* The methods of the client are atomic here and end in the ways ESLClient *)
(* says they can; ListenerClose looks into them.  What is kept of the      *)
(* client is whether it holds a socket.                                    *)
(***************************************************************************)
EXTENDS Naturals

CONSTANTS Base, MaxBackoff   \* run_forever's base_backoff and max_backoff

ASSUME BackoffAssumption == Base \in Nat \ {0} /\ MaxBackoff \in Nat \ {0}

VARIABLES
  pc,        \* where run_forever is
  raised,    \* the exception on its way, "none" or "return"
  backoff,   \* the local variable of that name
  wait,      \* what the last sleep was asked for (history)
  last,      \* the last wait since a clean start, 0 if none (history)
  live,      \* the client holds a socket
  closed,    \* self._closed
  closer,    \* another thread: inside close(), past its first line, or not
  late,      \* callbacks begun after close() began (history, up to LateBound)
  tries      \* connections begun after close() began (history, up to LateBound)

loop == <<pc, raised>>
timing == <<backoff, wait, last>>
history == <<late, tries>>
vars == <<loop, timing, live, closed, closer, history>>

Places == {"check", "connect", "auth", "subscribe", "iter", "read", "deliver",
           "except", "sleep", "finally", "ended"}
(* "lost" stands for ESLConnectionError, ESLProtocolError and OSError, which *)
(* run_forever catches; the others are ESLTimeout, ESLAuthError, the ESLError *)
(* of a refused subscription, and what else a callback raises.              *)
Exceptions == {"lost", "timeout", "denied", "refused", "callback"}

LateBound == 2
Count(n) == IF closed /\ n < LateBound THEN n + 1 ELSE n
Lesser(a, b) == IF a < b THEN a ELSE b

Init ==
  /\ pc = "check" /\ raised = "none"
  /\ backoff = Base /\ wait = 0 /\ last = 0
  /\ live = FALSE /\ closed = FALSE /\ closer = "out"
  /\ late = 0 /\ tries = 0

-----------------------------------------------------------------------------
Go(place) == pc' = place /\ UNCHANGED raised
Raise(e) == pc' = "except" /\ raised' = e

Check ==
  /\ pc = "check"
  /\ IF closed THEN pc' = "ended" /\ raised' = "return" ELSE Go("connect")
  /\ UNCHANGED <<timing, live, closed, closer, history>>

(* start(): a method of the client that fails has closed it, except that a  *)
(* refused subscription leaves it open.  A close() by another thread does   *)
(* not wake a recv: the method that waits may time out on a client that is  *)
(* closed by then.                                                          *)
Connect ==
  /\ pc = "connect"
  /\ \/ live' = TRUE /\ Go("auth")
     \/ live' = FALSE /\ \E e \in {"lost", "timeout"} : Raise(e)
  /\ tries' = Count(tries)
  /\ UNCHANGED <<timing, closed, closer, late>>

Authenticate ==
  /\ pc = "auth"
  /\ \/ live /\ Go("subscribe") /\ UNCHANGED live
     \/ live' = FALSE /\ \E e \in {"lost", "timeout"} : Raise(e)
     \/ live /\ live' = FALSE /\ Raise("denied")
  /\ UNCHANGED <<timing, closed, closer, history>>

(* Fault: a clean start does not reset the backoff.                         *)
SubscribeKeepsBackoff ==
  /\ pc = "subscribe"
  /\ \/ live /\ Go("iter") /\ last' = 0 /\ UNCHANGED <<live, backoff, wait>>
     \/ live' = FALSE /\ Raise("lost") /\ UNCHANGED timing
  /\ UNCHANGED <<closed, closer, history>>

Subscribe ==
  /\ pc = "subscribe"
  /\ \/ live /\ Go("iter") /\ backoff' = Base /\ last' = 0 /\ UNCHANGED <<live, wait>>
     \/ live' = FALSE /\ (\E e \in {"lost", "timeout"} : Raise(e)) /\ UNCHANGED timing
     \/ live /\ Raise("refused") /\ UNCHANGED <<live, timing>>
  /\ UNCHANGED <<closed, closer, history>>

(* Fault: the stream does not look at the flag. *)
IterateUnchecked ==
  /\ pc = "iter" /\ Go("read")
  /\ UNCHANGED <<timing, live, closed, closer, history>>

(* iter_raw: the stream ends when the listener is closed. *)
Iterate ==
  /\ pc = "iter"
  /\ IF closed THEN Go("finally") ELSE Go("read")
  /\ UNCHANGED <<timing, live, closed, closer, history>>

(* read_event returns an event; times out, or returns a frame that is no    *)
(* event; or raises.                                                        *)
Read ==
  /\ pc = "read"
  /\ \/ live /\ Go("deliver") /\ UNCHANGED live
     \/ Go("iter") /\ UNCHANGED live
     \/ live' = FALSE /\ Raise("lost")
  /\ UNCHANGED <<timing, closed, closer, history>>

(* on_event may lose the connection, when it uses the client itself, may    *)
(* close the listener, and may raise; an OSError of its own is taken for    *)
(* one of the connection.                                                   *)
Deliver ==
  /\ pc = "deliver"
  /\ \/ UNCHANGED <<closed, live>>
     \/ UNCHANGED closed /\ live' = FALSE
     \/ closed' = TRUE /\ live' = FALSE
  /\ \/ Go("iter")
     \/ \E e \in {"lost", "callback"} : Raise(e)
  /\ late' = Count(late)
  /\ UNCHANGED <<timing, closer, tries>>

(* Fault: a loss ends the loop. *)
HandleGivesUp ==
  /\ pc = "except" /\ Go("finally")
  /\ UNCHANGED <<timing, live, closed, closer, history>>

(* The except clause: only what stands for a lost connection is retried.    *)
Handle ==
  /\ pc = "except"
  /\ \/ raised # "lost" /\ Go("finally") /\ UNCHANGED wait
     \/ raised = "lost" /\ closed /\ pc' = "finally" /\ raised' = "return" /\ UNCHANGED wait
     \/ raised = "lost" /\ ~closed /\ pc' = "sleep" /\ raised' = "none" /\ wait' = backoff
  /\ UNCHANGED <<backoff, last, live, closed, closer, history>>

(* Fault: the maximum is forgotten. *)
WakeUncapped ==
  /\ pc = "sleep" /\ Go("finally")
  /\ last' = wait /\ backoff' = backoff * 2
  /\ UNCHANGED <<wait, live, closed, closer, history>>

Wake ==
  /\ pc = "sleep" /\ Go("finally")
  /\ last' = wait /\ backoff' = Lesser(backoff * 2, MaxBackoff)
  /\ UNCHANGED <<wait, live, closed, closer, history>>

(* Fault: the client is closed only when the loop ends. *)
FinallyKeepsClient ==
  /\ pc = "finally"
  /\ Go(IF raised = "none" THEN "check" ELSE "ended")
  /\ live' = (raised = "none" /\ ~closed /\ live)
  /\ UNCHANGED <<timing, closed, closer, history>>

Finally ==
  /\ pc = "finally"
  /\ Go(IF raised = "none" THEN "check" ELSE "ended")
  /\ live' = FALSE
  /\ UNCHANGED <<timing, closed, closer, history>>

-----------------------------------------------------------------------------
(* close() by another thread, any number of times: the flag, then the       *)
(* client.                                                                  *)
SetClosed ==
  /\ closer = "out" /\ closer' = "in" /\ closed' = TRUE
  /\ UNCHANGED <<loop, timing, live, history>>

CloseClient ==
  /\ closer = "in" /\ closer' = "out" /\ live' = FALSE
  /\ UNCHANGED <<loop, timing, closed, history>>

-----------------------------------------------------------------------------
RunForever ==
  \/ Check \/ Connect \/ Authenticate \/ Subscribe
  \/ Iterate \/ Read \/ Deliver \/ Handle \/ Wake \/ Finally

Next == RunForever \/ SetClosed \/ CloseClient

Spec == Init /\ [][Next]_vars

(* Both threads run: methods of the client and the callback return, and a   *)
(* sleep ends.                                                              *)
FairSpec == Spec /\ WF_vars(RunForever) /\ WF_vars(CloseClient)
-----------------------------------------------------------------------------
TypeOK ==
  /\ pc \in Places /\ raised \in Exceptions \cup {"none", "return"}
  /\ backoff \in Nat /\ wait \in Nat /\ last \in Nat
  /\ backoff > MaxBackoff => backoff = Base
  /\ live \in BOOLEAN /\ closed \in BOOLEAN /\ closer \in {"out", "in"}
  /\ late \in 0..LateBound /\ tries \in 0..LateBound

(* Between two connections the client holds no socket: connect() never      *)
(* leaves the queue of an old connection behind (ESLClient promises its     *)
(* event order under this condition), and however run_forever ends, by      *)
(* return or by an exception, the client is closed (190-191).               *)
Disconnected == pc \in {"check", "connect", "ended"} => ~live

(* After close() began, wherever the loop was, at most one more callback    *)
(* and at most one more connection begin.                                   *)
StopsPromptly == late <= 1 /\ tries <= 1

(* The wait after a failure is twice the one before it, up to the maximum;  *)
(* the first one after a clean start is the base, whatever happened before. *)
BackoffDoubles ==
  [][pc' = "sleep" =>
       wait' = IF last = 0 THEN Base ELSE Lesser(2 * last, MaxBackoff)]_vars

(* A lost connection leads to a new attempt unless the listener is closed.  *)
Reconnects == pc = "except" /\ raised = "lost" ~> pc = "connect" \/ closed

(* What run_forever's docstring says: it returns only after close(), and    *)
(* failures of the connection do not end it.  Left aside are a rejected     *)
(* password, a refused subscription and what the callback raises.           *)
OnlyCloseEndsIt ==
  pc = "ended" /\ raised \notin {"denied", "refused", "callback"} => closed
=============================================================================
