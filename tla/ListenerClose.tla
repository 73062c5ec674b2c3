--------------------------- MODULE ListenerClose ----------------------------
(***************************************************************************)
(* ESLEventListener.close() called by other threads while run_forever      *)
(* streams events: the interpreter may switch threads between any two      *)
(* accesses to the client's attributes, and nothing locks them.  A step    *)
(* here is one such access, so a value tested in one step may be gone in   *)
(* the next; close() is the same code in every thread, run_forever's own   *)
(* finally included.  (TakeHeader and TakeBody slice the buffer twice and  *)
(* store it, esl.py 817-818 and 830-831, in one step: that a buffer which  *)
(* close() has cleared is stored back, StoreBuffer shows already.)         *)
(*                                                                         *)
(* The model starts while a subscribed connection is being read, possibly  *)
(* with events left over from the subscription, and follows run_forever    *)
(* until it ends or would reconnect.  An event frame is two units, its     *)
(* head and its body; recv returns one or two of them.                     *)
(***************************************************************************)
EXTENDS Integers, Sequences

CONSTANTS
  Closers,      \* the threads that call close()
  MaxPending,   \* events left in the queue at the start, at most
  MaxEvents     \* events the switch emits, those included

ASSUME BoundAssumption == MaxEvents \in Nat /\ MaxPending \in 0..MaxEvents

Reader == "reader"
ASSUME ThreadAssumption == Reader \notin Closers
Threads == Closers \cup {Reader}

VARIABLES
  sock,          \* self._sock is not None
  fd,            \* the socket itself is open
  closed,        \* the listener's self._closed
  pending, pendingBytes, buffer,   \* self._pending_events, ..., self._buffer
  at,            \* where each thread is
  old, chunk,    \* the reader's operands of `self._buffer += self._recv(...)`
  count,         \* its operand of `self._pending_event_bytes -= size`
  head,          \* the frame whose header it has taken, 0 if none
  then,          \* what it does after close(): raise, or end the iteration
  outcome,       \* how each thread ended, "none" while it runs
  wire,          \* units the switch has sent that recv has not returned
  delivered,     \* the last event on_event was called with (history)
  late           \* calls of on_event since close() began (history, to LateBound)

client == <<sock, fd, pending, pendingBytes, buffer>>
locals == <<old, chunk, count, head, then>>
vars == <<client, closed, at, locals, outcome, wire, delivered, late>>

LateBound == 2

Units(first, last) ==
  [i \in 1 .. 2 * (last - first + 1) |->
     [event |-> first + (i - 1) \div 2, part |-> IF i % 2 = 1 THEN "head" ELSE "body"]]

Init ==
  /\ sock = TRUE /\ fd = TRUE /\ closed = FALSE
  /\ \E n \in 0 .. MaxPending :
       /\ pending = [i \in 1..n |-> i] /\ pendingBytes = n
       /\ wire = Units(n + 1, MaxEvents)
  /\ buffer = <<>>
  /\ at = [t \in Threads |-> IF t = Reader THEN "iter" ELSE "start"]
  /\ old = <<>> /\ chunk = <<>> /\ count = 0 /\ head = 0 /\ then = "none"
  /\ outcome = [t \in Threads |-> "none"]
  /\ delivered = 0 /\ late = 0

-----------------------------------------------------------------------------
(* Control.  `then' says why the reader closes the client: because of an    *)
(* error, "lost", or in run_forever's finally, and then how that ends.      *)
Endings == {"returned", "retry", "AttributeError", "IndexError"}

At(t, place) == at[t] = place
To(t, place) == at' = [at EXCEPT ![t] = place]
Ends(t, how) == To(t, "ended") /\ outcome' = [outcome EXCEPT ![t] = how]

Same == UNCHANGED <<client, closed, old, chunk, count, head, outcome, wire, delivered, late>>

Goto(place) == To(Reader, place) /\ UNCHANGED then /\ Same
CloseThen(next) == To(Reader, "close") /\ then' = next /\ Same

-----------------------------------------------------------------------------
(* client.close(), an access at a time, in any thread. *)
Others == <<closed, old, chunk, count, head, wire, delivered, late>>

ClearBuffer(t) ==
  /\ At(t, "close") /\ To(t, "close_pending")
  /\ buffer' = <<>>
  /\ UNCHANGED <<sock, fd, pending, pendingBytes, then, outcome, Others>>

ClearPending(t) ==
  /\ At(t, "close_pending") /\ To(t, "close_bytes")
  /\ pending' = <<>>
  /\ UNCHANGED <<sock, fd, pendingBytes, buffer, then, outcome, Others>>

ClearBytes(t) ==
  /\ At(t, "close_bytes") /\ To(t, "close_test")
  /\ pendingBytes' = 0
  /\ UNCHANGED <<sock, fd, pending, buffer, then, outcome, Others>>

TestSock(t) ==
  /\ At(t, "close_test") /\ To(t, IF sock THEN "close_socket" ELSE "closed")
  /\ UNCHANGED <<client, then, outcome, Others>>

(* Fault: the reference is dropped and the socket left to itself. *)
CloseSocketForgets(t) ==
  /\ At(t, "close_socket") /\ To(t, "close_none")
  /\ UNCHANGED <<client, then, outcome, Others>>

(* self._sock.close(): another thread may have stored None since the test,  *)
(* and None has no close.  Then only the reader has somewhere left to go,   *)
(* if it was not in its finally yet.                                        *)
CloseSocket(t) ==
  /\ At(t, "close_socket")
  /\ \/ sock /\ fd' = FALSE /\ To(t, "close_none") /\ UNCHANGED <<then, outcome>>
     \/ /\ ~sock /\ UNCHANGED fd
        /\ IF t = Reader /\ then = "lost"
           THEN To(t, "close") /\ then' = "AttributeError" /\ UNCHANGED outcome
           ELSE Ends(t, "AttributeError") /\ UNCHANGED then
  /\ UNCHANGED <<sock, pending, pendingBytes, buffer, Others>>

ForgetSocket(t) ==
  /\ At(t, "close_none") /\ To(t, "closed")
  /\ sock' = FALSE
  /\ UNCHANGED <<fd, pending, pendingBytes, buffer, then, outcome, Others>>

CloseStep(t) ==
  \/ ClearBuffer(t) \/ ClearPending(t) \/ ClearBytes(t)
  \/ TestSock(t) \/ CloseSocket(t) \/ ForgetSocket(t)

-----------------------------------------------------------------------------
(* listener.close() in another thread. *)
SetClosed(t) ==
  /\ At(t, "start") /\ To(t, "close")
  /\ closed' = TRUE
  /\ UNCHANGED <<client, locals, outcome, wire, delivered, late>>

CloseReturns(t) ==
  /\ At(t, "closed") /\ Ends(t, "returned")
  /\ UNCHANGED <<client, then, Others>>

Closer(t) == SetClosed(t) \/ CloseStep(t) \/ CloseReturns(t)

-----------------------------------------------------------------------------
(* The reader: iter_raw and read_event. *)

(* Fault: the flag is not looked at. *)
IterateUnchecked == At(Reader, "iter") /\ Goto("pending")

(* Fault: a closed stream is skipped over, not left. *)
IterateSpins ==
  /\ At(Reader, "iter")
  /\ IF closed THEN Goto("iter") ELSE Goto("pending")

Iterate ==
  /\ At(Reader, "iter")
  /\ IF closed THEN CloseThen("returned") ELSE Goto("pending")

(* Fault: the queue is taken from without a look. *)
TestPendingNot == At(Reader, "pending") /\ Goto("pop")

TestPending ==
  /\ At(Reader, "pending") /\ Goto(IF pending # <<>> THEN "pop" ELSE "find")

PopFails == At(Reader, "pop") /\ pending = <<>> /\ CloseThen("IndexError")

(* Fault: the newest event first. *)
PopNewest ==
  /\ At(Reader, "pop") /\ pending # <<>>
  /\ head' = pending[Len(pending)] /\ pending' = SubSeq(pending, 1, Len(pending) - 1)
  /\ To(Reader, "count")
  /\ UNCHANGED <<sock, fd, pendingBytes, buffer, closed, old, chunk, count, then,
                 outcome, wire, delivered, late>>

Pop ==
  /\ At(Reader, "pop") /\ pending # <<>>
  /\ head' = Head(pending) /\ pending' = Tail(pending)
  /\ To(Reader, "count")
  /\ UNCHANGED <<sock, fd, pendingBytes, buffer, closed, old, chunk, count, then,
                 outcome, wire, delivered, late>>

LoadCount ==
  /\ At(Reader, "count") /\ To(Reader, "uncount")
  /\ count' = pendingBytes
  /\ UNCHANGED <<client, closed, old, chunk, head, then, outcome, wire, delivered, late>>

(* on_event is called with event e. *)
Deliver(e) ==
  /\ delivered' = e /\ head' = 0
  /\ late' = IF closed /\ late < LateBound THEN late + 1 ELSE late
  /\ To(Reader, "iter")

StoreCount ==
  /\ At(Reader, "uncount")
  /\ pendingBytes' = count - 1
  /\ Deliver(head)
  /\ UNCHANGED <<sock, fd, pending, buffer, closed, old, chunk, count, then, outcome, wire>>

-----------------------------------------------------------------------------
(* _read_frame: _read_until, then _read_exact. *)

Find ==
  /\ At(Reader, "find") /\ Goto(IF buffer # <<>> THEN "take" ELSE "load")

(* Two slices of a buffer that may have been cleared: then the header is    *)
(* empty, and so is the frame, which is no event.                           *)
TakeHeader ==
  /\ At(Reader, "take")
  /\ IF buffer # <<>>
     THEN head' = Head(buffer).event /\ buffer' = Tail(buffer) /\ To(Reader, "body")
     ELSE UNCHANGED <<head, buffer>> /\ To(Reader, "iter")
  /\ UNCHANGED <<sock, fd, pending, pendingBytes, closed, old, chunk, count, then,
                 outcome, wire, delivered, late>>

Measure ==
  /\ At(Reader, "body") /\ Goto(IF buffer # <<>> THEN "take_body" ELSE "load")

(* The slice is the body, or what a buffer holds that was cleared meanwhile: *)
(* nothing, or the head of a later frame.  Neither has an Event-Name.       *)
TakeBody ==
  /\ At(Reader, "take_body")
  /\ buffer' = IF buffer = <<>> THEN <<>> ELSE Tail(buffer)
  /\ IF buffer # <<>> /\ Head(buffer).part = "body"
     THEN Deliver(Head(buffer).event)
     ELSE To(Reader, "iter") /\ head' = 0 /\ UNCHANGED <<delivered, late>>
  /\ UNCHANGED <<sock, fd, pending, pendingBytes, closed, old, chunk, count, then, outcome, wire>>

(* `self._buffer += self._recv(...)' loads the buffer before the call.      *)
LoadBuffer ==
  /\ At(Reader, "load") /\ To(Reader, "recv_test")
  /\ old' = buffer
  /\ UNCHANGED <<client, closed, chunk, count, head, then, outcome, wire, delivered, late>>

StoreBuffer ==
  /\ At(Reader, "store") /\ To(Reader, IF head = 0 THEN "find" ELSE "body")
  /\ buffer' = old \o chunk /\ old' = <<>> /\ chunk' = <<>>
  /\ UNCHANGED <<sock, fd, pending, pendingBytes, closed, count, head, then, outcome,
                 wire, delivered, late>>

-----------------------------------------------------------------------------
(* _recv: self._sock is tested, then used twice. *)
RecvTest ==
  /\ At(Reader, "recv_test") /\ Goto(IF sock THEN "settimeout" ELSE "except")

Uses(place, next) ==
  /\ At(Reader, place)
  /\ \/ ~sock /\ CloseThen("AttributeError")
     \/ sock /\ ~fd /\ CloseThen("lost")
     \/ sock /\ fd /\ Goto(next)

SetTimeout == Uses("settimeout", "recv")
CallRecv == Uses("recv", "waiting")

Received(n) ==
  /\ At(Reader, "waiting") /\ fd /\ n <= Len(wire)
  /\ chunk' = SubSeq(wire, 1, n) /\ wire' = SubSeq(wire, n + 1, Len(wire))
  /\ To(Reader, "store")
  /\ UNCHANGED <<client, closed, old, count, head, then, outcome, delivered, late>>

(* The peer closed, or the descriptor went away under the call. *)
RecvFails == At(Reader, "waiting") /\ CloseThen("lost")

(* socket.timeout: an idle tick if nothing of a frame has arrived. *)
RecvExpires ==
  /\ At(Reader, "waiting")
  /\ IF head # 0 \/ buffer # <<>> THEN CloseThen("lost") ELSE Goto("iter")

-----------------------------------------------------------------------------
(* run_forever: the except clause, the sleep, the finally and the loop.     *)
Handle ==
  /\ At(Reader, "except")
  /\ IF closed THEN CloseThen("returned") ELSE Goto("sleep")

Wake == At(Reader, "sleep") /\ CloseThen("retry")

Closed ==
  /\ At(Reader, "closed")
  /\ \/ then = "lost" /\ Goto("except")
     \/ /\ then # "lost"
        /\ Ends(Reader, IF then = "retry" /\ closed THEN "returned" ELSE then)
        /\ UNCHANGED <<client, then, Others>>

Read ==
  \/ Iterate \/ TestPending \/ PopFails \/ Pop \/ LoadCount \/ StoreCount
  \/ Find \/ TakeHeader \/ Measure \/ TakeBody \/ LoadBuffer \/ StoreBuffer
  \/ RecvTest \/ SetTimeout \/ CallRecv
  \/ (\E n \in 1..2 : Received(n)) \/ RecvFails \/ RecvExpires
  \/ Handle \/ Wake \/ Closed \/ CloseStep(Reader)

Next == Read \/ \E t \in Closers : Closer(t)

Spec == Init /\ [][Next]_vars

(* The interpreter runs every thread, and recv returns within its timeout.  *)
FairSpec == Spec /\ WF_vars(Read) /\ \A t \in Closers : WF_vars(Closer(t))
-----------------------------------------------------------------------------
Ended(t) == At(t, "ended")

(* However the threads interleave, no socket is left open that nothing      *)
(* refers to, and when all have ended everything of the connection is gone. *)
NothingLeaks ==
  /\ fd => sock
  /\ Ended(Reader) => ~fd /\ ~sock
  /\ Ended(Reader) => pending = <<>> /\ pendingBytes = 0 /\ buffer = <<>>

(* At most one event is still handed to on_event after close() began.       *)
OneLateEvent == late <= 1

(* Events are delivered whole and in order, also those that a stale copy of *)
(* the buffer brings back; before close(), none is skipped.                 *)
InOrder ==
  [][delivered' # delivered =>
       delivered' > delivered /\ (~closed => delivered' = delivered + 1)]_vars

(* Without a close() by another thread run_forever does not fail: the       *)
(* attribute errors below are races.                                        *)
FailsOnlyInRace == outcome[Reader] \in {"AttributeError", "IndexError"} => closed

(* Once close() has begun, all threads end, whatever they ran into.         *)
AllEnd == closed ~> \A t \in Threads : Ended(t) \/ At(t, "start")

(* ESLClient.close: "Idempotent; swallows teardown errors."                 *)
CloseSwallowsErrors == \A t \in Closers : outcome[t] # "AttributeError"
=============================================================================
