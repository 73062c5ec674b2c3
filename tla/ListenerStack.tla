--------------------------- MODULE ListenerStack ----------------------------
(***************************************************************************)
(* run_forever (clients/esl_listener.py) on a real client: its loop calls  *)
(* the methods of ESLClient one after the other, the callback may call     *)
(* api() in between, and another thread may close the client under         *)
(* whichever of them is being executed.  ESLListener abstracts from this:  *)
(* that it may, is ImplementsListener.                                     *)
(*                                                                         *)
(* The other thread's close() takes the client apart one attribute at a    *)
(* time; the reading thread moves between those a frame at a time.  What   *)
(* becomes of it between two accesses of its own is in ListenerClose.      *)
(*                                                                         *)
(* The client lets connect() be called on an open connection here          *)
(* (ReconnectOpen); that it never happens is up to the loop.               *)
(***************************************************************************)
EXTENDS ESLClient

CONSTANTS Base, MaxBackoff   \* run_forever's base_backoff and max_backoff

ASSUME WaitAssumption == Base \in Nat \ {0} /\ MaxBackoff \in Nat \ {0}

VARIABLES
  pc,        \* where run_forever is; during a call, the call
  raised, backoff, wait, last, closed, late, tries,  \* as in ESLListener
  closer,    \* another thread: outside close(), or what it clears next in it
  handed     \* connection and number of the last event on_event had (history)

loop == <<pc, raised>>
timing == <<backoff, wait, last>>
threads == <<closed, closer>>
all == <<vars, loop, timing, threads, late, tries, handed>>

(* connect() waits for the greeting on an open socket; and close() has      *)
(* closed the client when the socket is gone.                               *)
Listener == INSTANCE ESLListener WITH
  pc <- IF pc = "greeting" THEN "auth" ELSE pc, live <- sock,
  closer <- IF closer = "out" THEN "out" ELSE "in"

StackInit ==
  /\ Init
  /\ pc = "check" /\ raised = "none"
  /\ backoff = Base /\ wait = 0 /\ last = 0
  /\ closed = FALSE /\ closer = "out" /\ late = 0 /\ tries = 0
  /\ handed = <<0, 0>>

-----------------------------------------------------------------------------
Move(place) == pc' = place /\ UNCHANGED raised
Throw(e) == pc' = "except" /\ raised' = e

(* What the loop makes of how a method ended: start() goes from one method  *)
(* to the next; iter_raw passes on events only, and an idle tick by itself. *)
Starting == [greeting |-> "auth", auth |-> "subscribe", subscribe |-> "iter"]

Returned(k) ==
  \/ k = "ok" /\ pc \in DOMAIN Starting /\ Move(Starting[pc])
  \/ k \in {"denied", "refused"} /\ Throw(k)
  \/ k = "timeout" /\ pc \in DOMAIN Starting /\ Throw("timeout")
  \/ k \in {"lost", "protocol"} /\ Throw("lost")
  \/ k = "event" /\ Move("deliver")
  \/ k \in {"other", "timeout"} /\ pc = "read" /\ Move("iter")
  \/ k = "ok" /\ pc = "deliver" /\ UNCHANGED loop

Ends == op' = "idle" /\ Returned(result'.kind)

(* backoff = base_backoff, after start().                                   *)
Timing ==
  IF pc = "subscribe" /\ pc' = "iter"
  THEN backoff' = Base /\ last' = 0 /\ UNCHANGED wait ELSE UNCHANGED timing

Check ==
  /\ pc = "check"
  /\ IF closed THEN pc' = "ended" /\ raised' = "return" ELSE Move("connect")
  /\ UNCHANGED <<vars, timing, threads, late, tries, handed>>

CallConnect ==
  /\ pc = "connect" /\ Dial
  /\ UNCHANGED <<loop, timing, threads, late, tries, handed>>

Dialling ==
  /\ pc = "connect"
  /\ \/ Tick /\ UNCHANGED <<loop, tries>>
     \/ /\ \/ Move("greeting") /\ \E f \in {Greeting, Rejection} : Connect(f)
           \/ DialFails /\ Ends
        /\ tries' = Listener!Count(tries)
  /\ UNCHANGED <<timing, threads, late, handed>>

CallCommand(place, name) ==
  /\ pc = place
  /\ \/ Send(name) /\ UNCHANGED loop
     \/ SendFails /\ Ends
     \/ NoSocket /\ Ends
  /\ UNCHANGED <<timing, threads, late, tries, handed>>

Iterate ==
  /\ pc = "iter"
  /\ IF closed THEN Move("finally") ELSE Move("read")
  /\ UNCHANGED <<vars, timing, threads, late, tries, handed>>

CallRead ==
  /\ pc = "read"
  /\ \/ Read /\ UNCHANGED loop
     \/ ReadPending /\ Ends
     \/ NoSocket /\ Ends
  /\ UNCHANGED <<timing, threads, late, tries, handed>>

(* A method of the client goes on, and the loop or the callback with it     *)
(* when it ends.                                                            *)
InCall ==
  /\ pc \notin {"connect", "deliver"}
  /\ Step \/ Lose
  /\ (op' # "idle" /\ UNCHANGED loop) \/ Ends
  /\ Timing
  /\ UNCHANGED <<threads, late, tries, handed>>

(* on_event(event): it may use the client, and passes on or swallows what   *)
(* comes of it; and then it may close the listener, and raise what it will. *)
OverWith ==
  /\ late' = Listener!Count(late) /\ handed' = <<connections, seen>>
  /\ UNCHANGED <<timing, closer, tries>>

CallApi ==
  /\ pc = "deliver" /\ Send("api")
  /\ UNCHANGED <<loop, timing, threads, late, tries, handed>>

InApi ==
  /\ pc = "deliver"
  /\ Step \/ Lose
  /\ \/ op' # "idle" /\ UNCHANGED <<loop, timing, threads, late, tries, handed>>
     \/ /\ op' = "idle" /\ result'.kind = "ok"
        /\ UNCHANGED <<loop, timing, threads, late, tries, handed>>
     \/ /\ op' = "idle" /\ result'.kind # "ok"
        /\ Move("iter") \/ Throw(IF result'.kind = "timeout" THEN "callback" ELSE "lost")
        /\ OverWith /\ UNCHANGED closed

CallbackEnds ==
  /\ pc = "deliver" /\ op = "idle"
  /\ \/ UNCHANGED <<vars, closed>>
     \/ closed' = TRUE /\ Fail("none")
  /\ Move("iter") \/ \E e \in {"lost", "callback"} : Throw(e)
  /\ OverWith

Handle ==
  /\ pc = "except"
  /\ \/ raised # "lost" /\ Move("finally") /\ UNCHANGED wait
     \/ raised = "lost" /\ closed /\ pc' = "finally" /\ raised' = "return" /\ UNCHANGED wait
     \/ raised = "lost" /\ ~closed /\ pc' = "sleep" /\ raised' = "none" /\ wait' = backoff
  /\ UNCHANGED <<vars, backoff, last, threads, late, tries, handed>>

Wake ==
  /\ pc = "sleep" /\ Move("finally")
  /\ last' = wait /\ backoff' = Listener!Lesser(backoff * 2, MaxBackoff)
  /\ UNCHANGED <<vars, wait, threads, late, tries, handed>>

(* Fault: the client is closed only when the loop ends. *)
FinallyKeepsClient ==
  /\ pc = "finally"
  /\ Move(IF raised = "none" THEN "check" ELSE "ended")
  /\ IF raised = "none" THEN UNCHANGED vars ELSE Fail("none")
  /\ UNCHANGED <<timing, threads, late, tries, handed>>

Finally ==
  /\ pc = "finally"
  /\ Move(IF raised = "none" THEN "check" ELSE "ended")
  /\ Fail("none")
  /\ UNCHANGED <<timing, threads, late, tries, handed>>

-----------------------------------------------------------------------------
(* close() by another thread: the listener's flag, then the client's        *)
(* attributes in this order, under whatever method is being executed.       *)
Outside == UNCHANGED <<loop, timing, late, tries, handed>>
At(place, next) ==
  /\ closer = place /\ closer' = next
  /\ UNCHANGED <<closed, call, result, switch, seen, counters>> /\ Outside

SetClosed ==
  /\ closer = "out" /\ closer' = "buffer" /\ closed' = TRUE
  /\ UNCHANGED vars /\ Outside

(* The flags, which nobody reads here; and the frames that had arrived,     *)
(* however many those were.  (Half of one is left behind too: what the      *)
(* reader then makes of the rest of it is in ListenerClose.)                *)
ClearBuffer ==
  /\ At("buffer", "pending")
  /\ connected' = FALSE /\ authenticated' = FALSE
  /\ \E n \in 0..Len(down) : down' = SubSeq(down, n + 1, Len(down))
  /\ UNCHANGED <<sock, queue, up>>

ClearPending ==
  /\ At("pending", "bytes")
  /\ pending' = <<>>
  /\ UNCHANGED <<flags, pendingBytes, up, down>>

ClearBytes ==
  /\ At("bytes", "socket")
  /\ pendingBytes' = 0
  /\ UNCHANGED <<flags, pending, up, down>>

CloseSocket ==
  /\ At("socket", "out")
  /\ sock' = FALSE /\ up' = <<>> /\ down' = <<>>
  /\ UNCHANGED <<connected, authenticated, queue>>

CloseClient == ClearBuffer \/ ClearPending \/ ClearBytes \/ CloseSocket

Peer ==
  /\ \/ \E good \in BOOLEAN : Answer(good)
     \/ \E z \in Sizes : Emit(z)
     \/ SendNotice
  /\ UNCHANGED <<loop, timing, threads, late, tries, handed>>

-----------------------------------------------------------------------------
RunForever ==
  \/ Check \/ CallConnect \/ Dialling \/ CallCommand("auth", "auth") \/ CallCommand("subscribe", "event")
  \/ Iterate \/ CallRead \/ InCall
  \/ CallApi \/ InApi \/ CallbackEnds
  \/ Handle \/ Wake \/ Finally

StackNext == RunForever \/ SetClosed \/ CloseClient \/ Peer

(* Both threads run.  The switch need not do anything.                      *)
StackSpec == StackInit /\ [][StackNext]_all /\ WF_all(RunForever) /\ WF_all(CloseClient)
-----------------------------------------------------------------------------
(* The loop with the real client does nothing ESLListener does not allow:   *)
(* its methods end in no other ways, and change the socket at no other      *)
(* times.  What is proved of ESLListener holds here.                        *)
ImplementsListener == Listener!Spec

(* From the switch to on_event: the events of a connection are handed over  *)
(* in order, none twice, and none of an old connection after a reconnect;   *)
(* and until another thread calls close() from the first on and none        *)
(* skipped, though the callback's commands race with them.  close() empties *)
(* the queue before it takes the socket away, so the event that is handed   *)
(* over meanwhile may be a later one (esl_listener.py 175-191, esl.py       *)
(* 287-297, 599-664).                                                       *)
HandedInOrder ==
  [][handed' # handed =>
       LET before == IF handed'[1] = handed[1] THEN handed[2] ELSE 0
       IN  /\ handed'[1] >= handed[1] /\ handed'[2] > before
           /\ ~closed => handed'[2] = before + 1]_all

(* Once close() is called run_forever ends, whatever method it is in, with  *)
(* a switch that says nothing.                                              *)
StopsWhenClosed == closed ~> pc = "ended"
=============================================================================
