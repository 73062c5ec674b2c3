----------------------------- MODULE ESLClient ------------------------------
(***************************************************************************)
(* ESLClient (clients/esl.py) and the event socket it talks to, a whole    *)
(* frame at a time: the connection lifecycle, commands and their replies,  *)
(* events that race with a reply, and the stream of events.  ESLFraming    *)
(* models what happens below a frame; of it this module keeps the four     *)
(* ways _read_frame can end.                                               *)
(*                                                                         *)
(* One thread uses the client, one method at a time, in any order the      *)
(* methods themselves allow.  The switch is code outside this repository.  *)
(***************************************************************************)
EXTENDS Integers, Sequences

CONSTANTS
  MaxPending,     \* _MAX_PENDING_EVENTS
  MaxFrame,       \* config.max_frame_bytes, which also caps pending bytes
  Sizes,          \* sizes of event frames
  Timeout,        \* config.timeout, in ticks
  ReconnectOpen,  \* may connect() be called while a connection is open?
  MaxConnections, MaxCommands, MaxEvents   \* bounds on the history

ASSUME LimitAssumption ==
  /\ MaxPending \in Nat \ {0} /\ MaxFrame \in Nat \ {0} /\ Timeout \in Nat \ {0}
  /\ Sizes \subseteq Nat
  /\ ReconnectOpen \in BOOLEAN

ASSUME BoundAssumption ==
  MaxConnections \in Nat /\ MaxCommands \in Nat /\ MaxEvents \in Nat

VARIABLES
  sock,           \* self._sock is not None
  connected,      \* self._connected
  authenticated,  \* self._authenticated
  pending,        \* self._pending_events: the events, each with its size
  pendingBytes,   \* self._pending_event_bytes
  op,             \* the method being executed, "idle" between calls
  cmd,            \* the number of the command op waits for
  left,           \* deadline - now
  spent,          \* ticks since op began (history)
  result,         \* how the last method ended
  authed, subscribed,  \* the switch's side of the connection
  up,             \* commands on their way to the switch
  down,           \* frames on their way to the client, or in its buffer
  emitted,        \* events the switch emitted on this connection
  seen,           \* number of the last event read_event returned on it (history)
  connections, commands   \* counters

flags    == <<sock, connected, authenticated>>
queue    == <<pending, pendingBytes>>
call     == <<op, cmd, left, spent>>
switch   == <<authed, subscribed, emitted>>
counters == <<connections, commands>>
vars == <<sock, connected, authenticated, pending, pendingBytes, op, cmd, left,
          spent, result, authed, subscribed, up, down, emitted, seen,
          connections, commands>>

CommandNames == {"auth", "event", "api"}

(* A frame knows how many events were emitted up to it; for an event that   *)
(* is its own number.                                                       *)
Frame == [kind : {"greeting", "reply", "event", "notice"},
          cmd : Nat, ok : BOOLEAN, size : Nat, number : Nat]

Greeting == [kind |-> "greeting", cmd |-> 0, ok |-> TRUE, size |-> 0, number |-> 0]
Rejection == [kind |-> "notice", cmd |-> 0, ok |-> TRUE, size |-> 0, number |-> 0]
Notice == [kind |-> "notice", cmd |-> 0, ok |-> TRUE, size |-> 0, number |-> emitted]
Reply(c, good) ==
  [kind |-> "reply", cmd |-> c, ok |-> good, size |-> 0, number |-> emitted]
Event(n, z) == [kind |-> "event", cmd |-> 0, ok |-> TRUE, size |-> z, number |-> n]

(* How a method ends: what it returned or raised, for which command, and    *)
(* the command the reply it used belongs to.                                *)
Outcome(k, c, r) == [kind |-> k, cmd |-> c, reply |-> r]
Kinds == {"none", "ok", "refused", "event", "other",     \* returned
          "timeout", "lost", "protocol", "denied"}   \* raised
NoOutcome == Outcome("none", 0, 0)

-----------------------------------------------------------------------------
Init ==
  /\ sock = FALSE /\ connected = FALSE /\ authenticated = FALSE
  /\ pending = <<>> /\ pendingBytes = 0
  /\ op = "idle" /\ cmd = 0 /\ left = 0 /\ spent = 0 /\ result = NoOutcome
  /\ authed = FALSE /\ subscribed = FALSE /\ emitted = 0
  /\ up = <<>> /\ down = <<>> /\ seen = 0
  /\ connections = 0 /\ commands = 0

Begin(name, c) ==
  /\ op' = name /\ cmd' = c /\ left' = Timeout /\ spent' = 0 /\ result' = NoOutcome

Return(k, r) ==
  /\ op' = "idle" /\ cmd' = 0 /\ left' = 0 /\ spent' = 0
  /\ result' = Outcome(k, cmd, r)

(* Fault: close() forgets the flag. *)
ReleaseKeepsFlag ==
  /\ sock' = FALSE /\ connected' = FALSE /\ UNCHANGED authenticated
  /\ pending' = <<>> /\ pendingBytes' = 0
  /\ up' = <<>> /\ down' = <<>>

(* Fault: close() resets the byte count but not the queue. *)
ReleaseKeepsPending ==
  /\ sock' = FALSE /\ connected' = FALSE /\ authenticated' = FALSE
  /\ pendingBytes' = 0 /\ UNCHANGED pending
  /\ up' = <<>> /\ down' = <<>>

(* What close() resets.  The switch may still act on a command that is on   *)
(* its way; nobody will hear of it.                                         *)
Release ==
  /\ sock' = FALSE /\ connected' = FALSE /\ authenticated' = FALSE
  /\ pending' = <<>> /\ pendingBytes' = 0
  /\ up' = <<>> /\ down' = <<>>

(* A method that raises after close(). *)
Fail(k) == Release /\ Return(k, 0) /\ UNCHANGED <<switch, seen, counters>>

(* A method that ends and leaves the connection as it is. *)
Done(k, r) == Return(k, r) /\ UNCHANGED <<sock, connected, switch, up, seen, counters>>

Close == op = "idle" /\ sock /\ Fail("none")

Waiting == op # "idle"

(* Whatever method waits for a frame: the socket fails, the peer closes it, *)
(* or _read_frame finds a frame it must refuse; each closes the client.     *)
Lose == Waiting /\ op # "dial" /\ left > 0 /\ (Fail("lost") \/ Fail("protocol"))

(* Fault: time left is allowed to become negative. *)
TickPastDeadline ==
  /\ Waiting
  /\ left' = left - 1 /\ spent' = spent + 1
  /\ UNCHANGED <<flags, queue, op, cmd, result, switch, up, down, seen, counters>>

Tick ==
  /\ Waiting /\ left > 0
  /\ left' = left - 1 /\ spent' = spent + 1
  /\ UNCHANGED <<flags, queue, op, cmd, result, switch, up, down, seen, counters>>

-----------------------------------------------------------------------------
(* connect: create_connection dials, for the timeout at most (the host has  *)
(* one address: it would dial others in turn); the greeting then has a      *)
(* whole timeout of its own.  Until the peer accepts, the client stays as   *)
(* it is, an open connection included.                                      *)
Dial ==
  /\ op = "idle" /\ (~sock \/ ReconnectOpen)
  /\ Begin("dial", 0)
  /\ UNCHANGED <<flags, queue, switch, up, down, seen, counters>>

(* Refused, unreachable, or not accepted in time.                           *)
DialFails ==
  /\ op = "dial"
  /\ Done("lost", 0)
  /\ UNCHANGED <<authenticated, queue, down>>

(* The peer accepts, and greets or turns the client away with another frame *)
(* f.  Pending events are left as they are.                                 *)
Connect(f) ==
  /\ op = "dial" /\ connections < MaxConnections
  /\ sock' = TRUE /\ connected' = TRUE /\ authenticated' = FALSE
  /\ authed' = FALSE /\ subscribed' = FALSE /\ emitted' = 0
  /\ up' = <<>> /\ down' = <<f>> /\ seen' = 0
  /\ connections' = connections + 1
  /\ op' = "connect" /\ left' = Timeout
  /\ UNCHANGED <<queue, cmd, spent, result, commands>>

(* _send or _recv finds no socket: any method but connect.                  *)
NoSocket ==
  /\ op = "idle" /\ ~sock
  /\ Done("lost", 0)
  /\ UNCHANGED <<authenticated, queue, down>>

TakeGreeting ==
  /\ op = "connect" /\ left > 0 /\ down # <<>>
  /\ \/ /\ Head(down).kind = "greeting"
        /\ down' = Tail(down)
        /\ Done("ok", 0)
        /\ UNCHANGED <<authenticated, queue>>
     \/ Head(down).kind # "greeting" /\ Fail("lost")

(* No greeting in time: `except BaseException` closes whatever was raised.  *)
GreetingExpires ==
  /\ op = "connect" /\ left = 0
  /\ Fail("timeout") \/ Fail("lost")

-----------------------------------------------------------------------------
(* _command, and what authenticate, subscribe and api do with its reply.    *)

Send(name) ==
  /\ op = "idle" /\ sock /\ commands < MaxCommands
  /\ up' = Append(up, [name |-> name, cmd |-> commands + 1])
  /\ commands' = commands + 1
  /\ Begin(name, commands + 1)
  /\ UNCHANGED <<flags, queue, switch, down, seen, connections>>

SendFails == op = "idle" /\ sock /\ Fail("lost")

Commanding == op \in CommandNames

TakeReply ==
  /\ Commanding /\ left > 0 /\ down # <<>> /\ Head(down).kind = "reply"
  /\ LET f == Head(down)
     IN  \/ /\ op = "auth" /\ f.ok
            /\ authenticated' = TRUE
            /\ down' = Tail(down) /\ Done("ok", f.cmd) /\ UNCHANGED queue
         \/ op = "auth" /\ ~f.ok /\ Fail("denied")
         \/ /\ op # "auth"
            /\ down' = Tail(down)
            /\ Done(IF op = "event" /\ ~f.ok THEN "refused" ELSE "ok", f.cmd)
            /\ UNCHANGED <<authenticated, queue>>

(* Fault: each event gives the command a new deadline. *)
KeepEventAndWait ==
  /\ Commanding /\ left > 0 /\ down # <<>> /\ Head(down).kind = "event"
  /\ pending' = Append(pending, Head(down))
  /\ pendingBytes' = pendingBytes + Head(down).size
  /\ down' = Tail(down) /\ left' = Timeout
  /\ UNCHANGED <<flags, op, cmd, spent, result, switch, up, seen, counters>>

(* An event that came before the reply is kept for read_event, within the   *)
(* limits; the command's deadline is not extended.                          *)
Fits(f) == Len(pending) < MaxPending /\ pendingBytes + f.size <= MaxFrame

KeepEvent ==
  /\ Commanding /\ left > 0 /\ down # <<>> /\ Head(down).kind = "event"
  /\ LET f == Head(down)
     IN  \/ /\ Fits(f)
            /\ pending' = Append(pending, f)
            /\ pendingBytes' = pendingBytes + f.size
            /\ down' = Tail(down)
            /\ UNCHANGED <<flags, call, result, switch, up, seen, counters>>
         \/ ~Fits(f) /\ Fail("protocol")

RefuseFrame ==
  /\ Commanding /\ left > 0 /\ down # <<>>
  /\ Head(down).kind \notin {"reply", "event"}
  /\ Fail("protocol")

(* Fault: a command that timed out leaves the connection open. *)
CommandExpiresOpen ==
  /\ Commanding /\ left = 0
  /\ Done("timeout", 0) /\ UNCHANGED <<authenticated, queue, down>>

(* Fault: a command waits again after each idle tick. *)
CommandWaitsOn ==
  /\ Commanding /\ left = 0
  /\ left' = Timeout /\ spent' = 0
  /\ UNCHANGED <<flags, queue, op, cmd, result, switch, up, down, seen, counters>>

(* ESLTimeout from the loop or from a read at a frame boundary, or          *)
(* ESLConnectionError for an incomplete frame: closed, never replayed.      *)
CommandExpires ==
  /\ Commanding /\ left = 0
  /\ Fail("timeout") \/ Fail("lost")

-----------------------------------------------------------------------------
(* read_event *)

(* Fault: the socket is read before the queue. *)
ReadPastPending ==
  /\ op = "idle" /\ sock
  /\ Begin("read", 0)
  /\ UNCHANGED <<flags, queue, switch, up, down, seen, counters>>

(* The frame is handed over; an event whose inner frame is malformed is a   *)
(* protocol error instead.                                                  *)
ReadPending ==
  /\ op = "idle" /\ pending # <<>>
  /\ \/ /\ pending' = Tail(pending)
        /\ pendingBytes' = pendingBytes - Head(pending).size
        /\ seen' = Head(pending).number
        /\ Return("event", 0)
        /\ UNCHANGED <<flags, switch, up, down, counters>>
     \/ Fail("protocol")

Read ==
  /\ op = "idle" /\ pending = <<>> /\ sock
  /\ Begin("read", 0)
  /\ UNCHANGED <<flags, queue, switch, up, down, seen, counters>>

TakeFrame ==
  /\ op = "read" /\ left > 0 /\ down # <<>>
  /\ LET f == Head(down)
     IN  \/ /\ down' = Tail(down)
            /\ seen' = IF f.kind = "event" THEN f.number ELSE seen
            /\ Return(IF f.kind = "event" THEN "event" ELSE "other", f.cmd)
            /\ UNCHANGED <<flags, queue, switch, up, counters>>
         \/ f.kind = "event" /\ Fail("protocol")

(* An idle tick leaves the connection alone; half a frame ends it.          *)
ReadExpires ==
  /\ op = "read" /\ left = 0
  /\ \/ Done("timeout", 0) /\ UNCHANGED <<authenticated, queue, down>>
     \/ Fail("lost")

-----------------------------------------------------------------------------
(* The switch (mod_event_socket). *)

ToClient(f) == down' = Append(down, f) /\ UNCHANGED <<flags, queue, call, result, seen, counters>>

(* It answers the commands of a connection one by one. *)
Answer(good) ==
  /\ sock /\ up # <<>>
  /\ up' = Tail(up)
  /\ LET c == Head(up)
     IN  /\ ToClient(Reply(c.cmd, good))
         /\ c.name # "auth" /\ ~authed => ~good
         /\ authed' = (authed \/ (c.name = "auth" /\ good))
         /\ subscribed' = (subscribed \/ (c.name = "event" /\ good))
         /\ UNCHANGED emitted

Emit(z) ==
  /\ sock /\ subscribed /\ emitted < MaxEvents
  /\ emitted' = emitted + 1
  /\ ToClient(Event(emitted + 1, z))
  /\ UNCHANGED <<authed, subscribed, up>>

(* A text/disconnect-notice, or any frame the client does not expect.       *)
SendNotice ==
  /\ sock /\ \A i \in 1..Len(down) : down[i].kind # "notice"
  /\ ToClient(Notice)
  /\ UNCHANGED <<switch, up>>

-----------------------------------------------------------------------------
Step ==
  \/ Tick
  \/ DialFails \/ \E f \in {Greeting, Rejection} : Connect(f)
  \/ TakeGreeting \/ GreetingExpires
  \/ TakeReply \/ KeepEvent \/ RefuseFrame \/ CommandExpires
  \/ TakeFrame \/ ReadExpires

Next ==
  \/ Dial \/ NoSocket \/ Close \/ Lose
  \/ \E name \in CommandNames : Send(name)
  \/ SendFails
  \/ ReadPending \/ Read
  \/ Step
  \/ \E good \in BOOLEAN : Answer(good)
  \/ \E z \in Sizes : Emit(z)
  \/ SendNotice

Spec == Init /\ [][Next]_vars

(* The interpreter runs the method it is in, and time passes.  The switch   *)
(* need not do anything.                                                    *)
FairSpec == Spec /\ WF_vars(Step)
-----------------------------------------------------------------------------
TypeOK ==
  /\ sock \in BOOLEAN /\ connected \in BOOLEAN /\ authenticated \in BOOLEAN
  /\ pending \in Seq(Frame) /\ pendingBytes \in Int
  /\ op \in {"idle", "dial", "connect", "read"} \cup CommandNames
  /\ cmd \in Nat /\ left \in 0..Timeout /\ spent \in Nat
  /\ result \in [kind : Kinds, cmd : Nat, reply : Nat]
  /\ authed \in BOOLEAN /\ subscribed \in BOOLEAN
  /\ up \in Seq([name : CommandNames, cmd : Nat]) /\ down \in Seq(Frame)
  /\ emitted \in Nat /\ seen \in Nat
  /\ connections \in Nat /\ commands \in Nat

(* A command that returned used the reply to that very command, whatever    *)
(* timed out, was lost or raced before.                                     *)
ReplyPairing ==
  result.kind \in {"ok", "refused"} => result.reply = result.cmd

(* The client believes it is authenticated, or connected, only on a         *)
(* connection whose other side agrees.                                      *)
AuthHonest ==
  /\ connected = sock
  /\ authenticated => sock /\ authed

(* Racing events never pile up beyond the limits, and the byte count that   *)
(* the limit is checked against is the count of what is queued.             *)
BytesOf(events) ==
  LET total[i \in 0..Len(events)] ==
        IF i = 0 THEN 0 ELSE total[i - 1] + events[i].size
  IN  total[Len(events)]

PendingAccounted ==
  /\ Len(pending) <= MaxPending
  /\ pendingBytes <= MaxFrame
  /\ pendingBytes = BytesOf(pending)

(* Events come in order, none skipped, none repeated. *)
Feed == INSTANCE EventFeed WITH live <- sock, sent <- emitted, seen <- seen

ImplementsFeed == Feed!Spec

(* No method waits longer than the timeout, whatever arrives meanwhile,     *)
(* except that connect waits for the peer to accept and then as long again  *)
(* for its greeting: twice the timeout.                                     *)
Deadline == spent + left <= IF op = "connect" THEN 2 * Timeout ELSE Timeout

(* Every call returns. *)
CallReturns == Waiting ~> ~Waiting
=============================================================================
