------------------------- MODULE ESLListener_proofs -------------------------
(***************************************************************************)
(* What holds of ESLListener for every base and maximum of the backoff.    *)
(***************************************************************************)
EXTENDS ESLListener, TLAPS

(* Where the loop can be once a callback, or a connection, has begun after  *)
(* close(): on its way out.                                                 *)
Leaving == {"iter", "except", "finally", "check", "ended"}
Late ==
  /\ ~closed => late = 0 /\ tries = 0
  /\ late <= 1 /\ (late > 0 => pc \in Leaving)
  /\ tries <= 1 /\ (tries > 0 => pc \in Leaving \cup {"auth", "subscribe"})

(* The backoff is what the next wait must be, and a wait is under way only  *)
(* for the backoff.                                                         *)
Doubling ==
  /\ backoff > 0
  /\ backoff = IF last = 0 THEN Base ELSE Lesser(2 * last, MaxBackoff)
  /\ pc = "sleep" => wait = backoff

-----------------------------------------------------------------------------
(* The types of the flags and of the other variables, apart: the provers    *)
(* are better at one of them at a time.                                     *)
FlagsTyped == live \in BOOLEAN /\ closed \in BOOLEAN
OthersTyped ==
  /\ pc \in Places /\ raised \in Exceptions \cup {"none", "return"}
  /\ backoff \in Nat /\ wait \in Nat /\ last \in Nat
  /\ backoff > MaxBackoff => backoff = Base
  /\ closer \in {"out", "in"}
  /\ late \in 0..LateBound /\ tries \in 0..LateBound

LEMMA FlagsStep == FlagsTyped /\ [Next]_vars => FlagsTyped'
<1> SUFFICES ASSUME FlagsTyped, [Next]_vars PROVE FlagsTyped'
  OBVIOUS
<1> USE DEF FlagsTyped
<1>1. CASE Check \/ Connect \/ Authenticate \/ Subscribe
  BY <1>1 DEF Check, Connect, Authenticate, Subscribe
<1>2. CASE Iterate \/ Read \/ Deliver
  BY <1>2 DEF Iterate, Read, Deliver
<1>3. CASE Handle \/ Wake \/ Finally
  BY <1>3 DEF Handle, Wake, Finally
<1>4. CASE SetClosed \/ CloseClient \/ UNCHANGED vars
  BY <1>4 DEF SetClosed, CloseClient, vars
<1> QED BY <1>1, <1>2, <1>3, <1>4 DEF Next, RunForever

LEMMA OthersStep == OthersTyped /\ [Next]_vars => OthersTyped'
<1> SUFFICES ASSUME OthersTyped, [Next]_vars PROVE OthersTyped'
  OBVIOUS
<1> USE BackoffAssumption
        DEF OthersTyped, Places, Exceptions, LateBound, Go, Raise, Count, timing, history, loop
<1>1. CASE Check
  BY <1>1 DEF Check
<1>2. CASE Connect
  BY <1>2 DEF Connect
<1>3. CASE Authenticate
  BY <1>3 DEF Authenticate
<1>4. CASE Subscribe
  BY <1>4 DEF Subscribe
<1>5. CASE Iterate
  BY <1>5 DEF Iterate
<1>6. CASE Read
  BY <1>6 DEF Read
<1>7. CASE Deliver
  BY <1>7 DEF Deliver
<1>8. CASE Handle
  BY <1>8 DEF Handle
<1>9. CASE Wake
  BY <1>9 DEF Wake, Lesser
<1>10. CASE Finally
  BY <1>10 DEF Finally
<1>11. CASE SetClosed \/ CloseClient \/ UNCHANGED vars
  BY <1>11 DEF SetClosed, CloseClient, vars
<1> QED BY <1>1, <1>2, <1>3, <1>4, <1>5, <1>6, <1>7, <1>8, <1>9, <1>10, <1>11
        DEF Next, RunForever

(* The variables of the loop keep their types, and the backoff its maximum  *)
(* (run_forever, esl_listener.py:162-191).                                  *)
THEOREM TypeCorrect == Spec => []TypeOK
<1>1. Init => FlagsTyped
  BY DEF Init, FlagsTyped
<1>2. Init => OthersTyped
  BY BackoffAssumption DEF Init, OthersTyped, Places, Exceptions, LateBound
<1>3. FlagsTyped /\ OthersTyped => TypeOK
  BY DEF FlagsTyped, OthersTyped, TypeOK
<1> QED BY <1>1, <1>2, <1>3, FlagsStep, OthersStep, PTL DEF Spec

(* run_forever never connects a client that is still connected, which is    *)
(* what ESLClient's event order depends on, and leaves it closed however it *)
(* ends (esl_listener.py:190-191).                                          *)
THEOREM DisconnectedBetween == Spec => []Disconnected
<1>1. Init => Disconnected
  BY DEF Init, Disconnected
<1>2. Disconnected /\ [Next]_vars => Disconnected'
  <2> SUFFICES ASSUME Disconnected, [Next]_vars PROVE Disconnected'
    OBVIOUS
  <2> USE DEF Disconnected, Go, Raise, loop
  <2>1. CASE Check \/ Connect \/ Authenticate \/ Subscribe
    BY <2>1 DEF Check, Connect, Authenticate, Subscribe
  <2>2. CASE Iterate \/ Read \/ Deliver
    BY <2>2 DEF Iterate, Read, Deliver
  <2>3. CASE Handle \/ Wake \/ Finally
    BY <2>3 DEF Handle, Wake, Finally
  <2>4. CASE SetClosed \/ CloseClient \/ UNCHANGED vars
    BY <2>4 DEF SetClosed, CloseClient, vars
  <2> QED BY <2>1, <2>2, <2>3, <2>4 DEF Next, RunForever
<1> QED BY <1>1, <1>2, PTL DEF Spec

(* At most one callback and one connection begin after close() did          *)
(* (esl_listener.py:140, 176 and 185).                                      *)
THEOREM StopIsPrompt == Spec => []StopsPromptly
<1>1. Init => Late
  BY DEF Init, Late
<1>2. TypeOK /\ Late /\ [Next]_vars => Late'
  <2> SUFFICES ASSUME TypeOK, Late, [Next]_vars PROVE Late'
    OBVIOUS
  <2>1. late \in Nat /\ tries \in Nat
    BY DEF TypeOK, LateBound
  <2> USE <2>1 DEF Late, Leaving, Go, Raise, Count, LateBound, timing, history, loop
  <2>2. CASE Check \/ Connect
    BY <2>2 DEF Check, Connect
  <2>3. CASE Authenticate \/ Subscribe
    BY <2>3 DEF Authenticate, Subscribe
  <2>4. CASE Iterate \/ Read
    BY <2>4 DEF Iterate, Read
  <2>5. CASE Deliver
    BY <2>5 DEF Deliver
  <2>6. CASE Handle \/ Wake \/ Finally
    BY <2>6 DEF Handle, Wake, Finally
  <2>7. CASE SetClosed \/ CloseClient \/ UNCHANGED vars
    BY <2>7 DEF SetClosed, CloseClient, vars
  <2> QED BY <2>2, <2>3, <2>4, <2>5, <2>6, <2>7 DEF Next, RunForever
<1>3. Late => StopsPromptly
  BY DEF Late, StopsPromptly
<1> QED BY <1>1, <1>2, <1>3, TypeCorrect, PTL DEF Spec

(* Each wait is twice the one before it, up to the maximum, and the first   *)
(* after a clean start is the base (esl_listener.py:175, 179, 188-189).     *)
THEOREM BackoffCorrect == Spec => BackoffDoubles
<1> DEFINE Step == pc' = "sleep" =>
                     wait' = IF last = 0 THEN Base ELSE Lesser(2 * last, MaxBackoff)
<1>1. Init => Doubling
  BY BackoffAssumption DEF Init, Doubling
<1>2. TypeOK /\ Doubling /\ [Next]_vars => Doubling' /\ [Step]_vars
  <2> SUFFICES ASSUME TypeOK, Doubling, [Next]_vars PROVE Doubling' /\ Step
    OBVIOUS
  <2>1. backoff \in Nat /\ wait \in Nat /\ last \in Nat
    BY DEF TypeOK
  <2> USE <2>1, BackoffAssumption DEF Doubling, Lesser, Go, Raise, timing, loop
  <2>2. CASE Check \/ Connect \/ Authenticate
    BY <2>2 DEF Check, Connect, Authenticate
  <2>3. CASE Subscribe
    BY <2>3 DEF Subscribe
  <2>4. CASE Iterate \/ Read \/ Deliver
    BY <2>4 DEF Iterate, Read, Deliver
  <2>5. CASE Handle
    BY <2>5 DEF Handle
  <2>6. CASE Wake
    <3>1. last' = backoff /\ backoff' = Lesser(2 * backoff, MaxBackoff) /\ pc' = "finally"
      BY <2>6 DEF Wake
    <3> QED BY <3>1
  <2>7. CASE Finally
    BY <2>7 DEF Finally
  <2>8. CASE SetClosed \/ CloseClient \/ UNCHANGED vars
    BY <2>8 DEF SetClosed, CloseClient, vars
  <2> QED BY <2>2, <2>3, <2>4, <2>5, <2>6, <2>7, <2>8 DEF Next, RunForever
<1> QED BY <1>1, <1>2, TypeCorrect, PTL DEF Spec, BackoffDoubles
=============================================================================
