-------------------------- MODULE CallStory_proofs ---------------------------
(***************************************************************************)
(* What holds of CallStory for every set of agents, however long the story *)
(* lasts and however numbers and times are written.                        *)
(***************************************************************************)
EXTENDS CallStory, SequenceTheorems, TLAPS

Clock == 0..MaxTime

LegsTyped == legs \in [Legs -> [start : Clock, answer : Clock, end : Clock]]

QueueTyped ==
  queue \in [joined : Clock, agent : Agents \cup {""}, answered : Clock, left : Clock,
             cause : {"", "terminated", "canceled"}]

(* Every time is past, and a leg starts before it is answered and ends.     *)
Timed ==
  /\ now \in 1..MaxTime
  /\ \A l \in Legs :
       /\ legs[l].start <= now /\ legs[l].answer <= now
       /\ legs[l].answer # 0 => legs[l].start # 0
       /\ legs[l].end # 0 =>
            legs[l].start # 0 /\ legs[l].start <= legs[l].end /\ legs[l].answer <= legs[l].end

(* Who joined has called, the agent of the queue is one the call was offered *)
(* to, and the answer the queue tells of is that of the agent's leg.         *)
Offered ==
  /\ queue.agent # "" => legs[queue.agent].start # 0 /\ queue.joined # 0
  /\ queue.answered # 0 => queue.agent # "" /\ legs[queue.agent].answer = queue.answered
  /\ queue.joined # 0 => legs["member"].start # 0

(* Who has left the queue has hung up, and so have the agents.              *)
Over ==
  queue.left # 0 =>
    /\ \A l \in Legs : ~Up(l)
    /\ legs["member"].start # 0 /\ queue.joined # 0
    /\ queue.cause = IF queue.answered # 0 THEN "terminated" ELSE "canceled"

CallInv == LegsTyped /\ QueueTyped /\ Timed /\ Offered /\ Over

(* What was told is what is made of a frame or a row of the call as it is.  *)
Unset == {"", " ", "0", Stamp[0]}
ToldRightly ==
  \/ told = NothingTold
  \/ \E frame \in Frames : told = EventOf(frame)
  \/ \E l \in Legs, width \in {14, 15, 27}, unset \in Unset :
       /\ legs[l].end # 0 /\ (width = 27 => queue.left # 0)
       /\ told = RecordOf(l, Row(l, width, unset))

StoryInv == CallInv /\ ToldRightly

-----------------------------------------------------------------------------
(* The story lasts at least one moment. *)
LEMMA LastTime == MaxTime \in Nat /\ MaxTime >= 1
<1>1. MaxTime \in Nat \ {0}
  BY StoryAssumption, Zenon
<1> QED BY <1>1

(* The invariant of the switch holds at first. *)
LEMMA CallStart == Init => CallInv
<1> SUFFICES ASSUME Init PROVE CallInv
  OBVIOUS
<1>1. MaxTime \in Nat /\ MaxTime >= 1
  BY LastTime
<1>2. 0 \in Clock /\ 1 \in 1..MaxTime
  BY <1>1 DEF Clock
<1>3. "member" \in Legs
  BY DEF Legs
<1> USE <1>2, <1>3 DEF Init
<1>4. LegsTyped
  BY DEF LegsTyped
<1>5. QueueTyped
  BY DEF QueueTyped
<1>6. Timed
  <2>1. \A l \in Legs : legs[l].start = 0 /\ legs[l].answer = 0 /\ legs[l].end = 0
    OBVIOUS
  <2>2. now = 1
    OBVIOUS
  <2> HIDE DEF Init
  <2> QED BY <2>1, <2>2, <1>2 DEF Timed
<1>7. Offered /\ Over
  BY DEF Offered, Over
<1> QED BY <1>4, <1>5, <1>6, <1>7 DEF CallInv

(* Every step keeps it. *)
LEMMA CallStep == CallInv /\ [Next]_vars => CallInv'
<1> SUFFICES ASSUME CallInv, [Next]_vars PROVE CallInv'
  OBVIOUS
<1>a. /\ "member" \in Legs /\ "member" \notin Agents /\ "" \notin Agents /\ Agents \subseteq Legs
      /\ "" # "member"
  BY StoryAssumption DEF Legs
<1>b. MaxTime \in Nat /\ now \in 1..MaxTime
  BY StoryAssumption DEF CallInv, Timed
<1>c. Clock \subseteq Int /\ 0 \in Clock /\ now \in Clock /\ now # 0 /\ now \in Int
  BY <1>b DEF Clock
<1>d. \A l \in Legs : legs[l].start \in Int /\ legs[l].answer \in Int /\ legs[l].end \in Int
  BY <1>c DEF CallInv, LegsTyped
<1>e. ASSUME NEW k \in Legs, LegsTyped,
             \/ legs' = [legs EXCEPT ![k].start = now] /\ legs[k].start = 0
             \/ legs' = [legs EXCEPT ![k].answer = now] /\ legs[k].start # 0 /\ legs[k].end = 0
             \/ legs' = [legs EXCEPT ![k].end = now] /\ legs[k].start # 0,
             now' = now
      PROVE  Timed'
  <2>1. /\ \A l \in Legs : l # k => legs'[l] = legs[l]
        /\ \/ /\ legs'[k].start = now /\ legs[k].start = 0
              /\ legs'[k].answer = legs[k].answer /\ legs'[k].end = legs[k].end
           \/ /\ legs'[k].answer = now /\ legs[k].start # 0 /\ legs[k].end = 0
              /\ legs'[k].start = legs[k].start /\ legs'[k].end = legs[k].end
           \/ /\ legs'[k].end = now /\ legs[k].start # 0
              /\ legs'[k].start = legs[k].start /\ legs'[k].answer = legs[k].answer
    BY <1>e DEF LegsTyped
  <2>2. Timed
    BY DEF CallInv
  <2> QED BY <1>b, <1>c, <1>d, <1>e, <2>1, <2>2 DEF Timed
<1> USE <1>a, <1>c DEF CallInv
<1>1. CASE Arrive
  <2> USE <1>1 DEF Arrive, Happens, Up
  <2>1. LegsTyped'
    BY DEF LegsTyped
  <2>2. QueueTyped'
    BY DEF QueueTyped, LegsTyped
  <2>3. Timed'
    BY <1>e
  <2>4. Offered'
    BY DEF Offered, LegsTyped, QueueTyped
  <2>5. Over'
    BY DEF Over, Offered, LegsTyped, QueueTyped
  <2> QED BY <2>1, <2>2, <2>3, <2>4, <2>5
<1>2. CASE AnswerMember
  <2> USE <1>2 DEF AnswerMember, Happens, Up
  <2>1. LegsTyped'
    BY DEF LegsTyped
  <2>2. QueueTyped'
    BY DEF QueueTyped, LegsTyped
  <2>3. Timed'
    BY <1>e
  <2>4. Offered'
    BY DEF Offered, LegsTyped, QueueTyped
  <2>5. Over'
    BY DEF Over, Offered, LegsTyped, QueueTyped
  <2> QED BY <2>1, <2>2, <2>3, <2>4, <2>5
<1>3. CASE Join
  <2> USE <1>3 DEF Join, Happens, Up
  <2>1. LegsTyped'
    BY DEF LegsTyped
  <2>2. QueueTyped'
    BY DEF QueueTyped, LegsTyped
  <2>3. Timed'
    BY DEF LegsTyped, QueueTyped, Timed, Clock
  <2>4. Offered'
    BY DEF Offered, LegsTyped, QueueTyped
  <2>5. Over'
    BY DEF Over, Offered, LegsTyped, QueueTyped
  <2> QED BY <2>1, <2>2, <2>3, <2>4, <2>5
<1>4. ASSUME NEW a \in Agents, Offer(a) PROVE CallInv'
  <2> USE <1>4 DEF Offer, Happens, Up
  <2>1. LegsTyped'
    BY DEF LegsTyped
  <2>2. QueueTyped'
    BY DEF QueueTyped, LegsTyped
  <2>3. Timed'
    BY <1>e
  <2>4. Offered'
    BY DEF Offered, LegsTyped, QueueTyped
  <2>5. Over'
    BY DEF Over, Offered, LegsTyped, QueueTyped
  <2> QED BY <2>1, <2>2, <2>3, <2>4, <2>5
<1>5. ASSUME NEW a \in Agents, AnswerAgent(a) PROVE CallInv'
  <2> USE <1>5 DEF AnswerAgent, Happens, Up
  <2>1. LegsTyped'
    BY DEF LegsTyped
  <2>2. QueueTyped'
    BY DEF QueueTyped, LegsTyped
  <2>3. Timed'
    BY <1>e
  <2>4. Offered'
    BY ZenonT(30) DEF Offered, LegsTyped, QueueTyped
  <2>5. Over'
    BY DEF Over, Offered, LegsTyped, QueueTyped
  <2> QED BY <2>1, <2>2, <2>3, <2>4, <2>5
<1>6. ASSUME NEW a \in Agents, Decline(a) PROVE CallInv'
  <2> USE <1>6 DEF Decline, Happens, Up
  <2>1. LegsTyped'
    BY DEF LegsTyped
  <2>2. QueueTyped'
    BY DEF QueueTyped, LegsTyped
  <2>3. Timed'
    BY <1>e
  <2>4. Offered'
    BY DEF Offered, LegsTyped, QueueTyped
  <2>5. Over'
    BY DEF Over, Offered, LegsTyped, QueueTyped
  <2> QED BY <2>1, <2>2, <2>3, <2>4, <2>5
<1>7. CASE End
  <2> USE <1>7 DEF End, Happens, Up
  <2>1. LegsTyped'
    BY DEF LegsTyped
  <2>2. QueueTyped'
    BY DEF QueueTyped, LegsTyped
  <2>3. Timed'
    <3>1. now' = now /\ Timed
      OBVIOUS
    <3>2. ASSUME NEW l \in Legs
          PROVE  /\ legs'[l].start = legs[l].start /\ legs'[l].answer = legs[l].answer
                 /\ \/ legs'[l].end = legs[l].end
                    \/ legs[l].start # 0 /\ legs'[l].end = now
      BY DEF LegsTyped
    <3> QED BY <1>b, <1>c, <1>d, <3>1, <3>2 DEF Timed
  <2>4. Offered'
    <3>1. \A l \in Legs : legs'[l].start = legs[l].start /\ legs'[l].answer = legs[l].answer
      BY DEF LegsTyped
    <3>2. queue'.agent = queue.agent /\ queue'.answered = queue.answered
          /\ queue'.joined = queue.joined
      BY DEF QueueTyped
    <3>3. queue.agent # "" => queue.agent \in Legs
      BY DEF QueueTyped
    <3>4. Offered
      OBVIOUS
    <3> HIDE <1>7 DEF End, CallInv
    <3> QED BY <3>1, <3>2, <3>3, <3>4 DEF Offered
  <2>5. Over'
    BY DEF Over, Offered, LegsTyped, QueueTyped
  <2> QED BY <2>1, <2>2, <2>3, <2>4, <2>5
<1>8. CASE Tick
  <2> USE <1>8 DEF Tick, Up
  <2>1. LegsTyped'
    BY DEF LegsTyped
  <2>2. QueueTyped'
    BY DEF QueueTyped, LegsTyped
  <2>3. Timed'
    <3>1. now' = now + 1 /\ now < MaxTime /\ legs' = legs /\ Timed
      OBVIOUS
    <3> HIDE <1>a, <1>c, <1>8 DEF Tick, CallInv
    <3>2. \A m \in Nat : \A n \in 1..m : n < m => n + 1 \in 1..m
      OBVIOUS
    <3>3. now' \in 1..MaxTime
      BY <1>b, <3>1, <3>2
    <3>4. \A l \in Legs : legs'[l].start <= now' /\ legs'[l].answer <= now'
      BY <1>c, <1>d, <3>1 DEF Timed
    <3> QED BY <3>1, <3>3, <3>4 DEF Timed
  <2>4. Offered'
    BY DEF Offered, LegsTyped, QueueTyped
  <2>5. Over'
    BY DEF Over, Offered, LegsTyped, QueueTyped
  <2> QED BY <2>1, <2>2, <2>3, <2>4, <2>5
<1>9. CASE UNCHANGED <<now, legs, queue>>
  BY <1>9 DEF LegsTyped, QueueTyped, Timed, Offered, Over, Up
<1> QED
  BY <1>1, <1>2, <1>3, <1>4, <1>5, <1>6, <1>7, <1>8, <1>9
     DEF Next, Switch, Report, Write, Handled, vars

(* And what was told last stays told rightly. *)
LEMMA StoryStep == CallInv /\ ToldRightly /\ [Next]_vars => ToldRightly'
<1> SUFFICES ASSUME CallInv, ToldRightly, [Next]_vars PROVE ToldRightly'
  OBVIOUS
<1>1. CASE Switch \/ Handled
  BY <1>1 DEF Switch, Handled, ToldRightly, Arrive, AnswerMember, Join, Offer, AnswerAgent,
              Decline, End, Tick, Happens, NothingTold
<1>2. ASSUME UNCHANGED <<legs, queue>>
      PROVE  /\ Frames' = Frames
             /\ \A l, width, unset : Row(l, width, unset)' = Row(l, width, unset)
  BY <1>2 DEF Frames, QueueFrames, LegFrames, QueueHeaders, Channel, QueueVariables, AgentOf,
              Duration, Billsec, Row, Columns, Epoch
<1>3. CASE Report
  BY <1>2, <1>3 DEF Report, ToldRightly, EventOf
<1>4. CASE Write
  <2>1. UNCHANGED <<legs, queue>>
    BY <1>4 DEF Write
  <2>2. PICK l \in Legs, width \in {14, 15, 27}, unset \in Unset :
          /\ legs[l].end # 0 /\ (width = 27 => queue.left # 0)
          /\ told' = RecordOf(l, Row(l, width, unset))
    BY <1>4 DEF Write, Unset
  <2>3. Row(l, width, unset)' = Row(l, width, unset)
    BY <1>2, <2>1
  <2> QED BY <2>1, <2>2, <2>3 DEF ToldRightly, RecordOf
<1>5. CASE UNCHANGED vars
  <2>1. told' = told /\ legs' = legs /\ queue' = queue
    BY <1>5 DEF vars
  <2> QED BY <1>2, <2>1 DEF ToldRightly, NothingTold, EventOf, RecordOf
<1> QED BY <1>1, <1>3, <1>4, <1>5 DEF Next

-----------------------------------------------------------------------------
(* Frames put together, by parse_event and by the switch: the first entry   *)
(* of a name counts.                                                        *)
LEMMA LivePartsOf ==
  ASSUME NEW f, NEW g
  PROVE     /\ DOMAIN (Live!@@(f, g)) = DOMAIN f \cup DOMAIN g
            /\ \A n \in DOMAIN f : (Live!@@(f, g))[n] = f[n]
            /\ \A n \in DOMAIN g \ DOMAIN f : (Live!@@(f, g))[n] = g[n]
  BY DEF Live!@@

(* The texts of numbers are read back. *)
LEMMA NumberRead ==
  \A k \in 0..MaxTime : Live!IntOf(Text[k]) = <<k>> /\ Durable!IntOrZero(Text[k]) = k
<1>1. \A k \in 0..MaxTime : {j \in DOMAIN Text : Text[j] = Text[k]} = {k}
  <2> TAKE k \in 0..MaxTime
  <2>1. DOMAIN Text = 0..MaxTime
    BY TextAssumption
  <2>2. \A j \in 0..MaxTime : Text[j] = Text[k] => j = k
    BY TextAssumption
  <2> QED BY <2>1, <2>2
<1> QED BY <1>1 DEF Live!IntOf, Durable!IntOrZero, Live!None

(* "" is no number, and "0" is 0. *)
LEMMA OtherTexts ==
  /\ Live!IntOf("") = <<>> /\ Durable!IntOrZero("") = 0
  /\ Live!IntOf("0") = <<0>> /\ Durable!IntOrZero("0") = 0
  /\ Durable!IntOrZero(Stamp[0]) = 0
<1>1. MaxTime \in Nat /\ 0 \in 0..MaxTime
  BY LastTime
<1>2. Text[0] = "0"
  BY <1>1, TextAssumption
<1>3. {j \in DOMAIN Text : Text[j] = ""} = {}
  BY TextAssumption
<1>4. {j \in DOMAIN Text : Text[j] = Stamp[0]} = {}
  BY <1>1, TextAssumption
<1> QED BY <1>1, <1>2, <1>3, <1>4, NumberRead DEF Live!IntOf, Durable!IntOrZero, Live!None

(* The times of a leg that has ended are numbers of the story. *)
LEMMA SecondsOfLeg ==
  ASSUME CallInv, NEW l \in Legs, legs[l].end # 0
  PROVE  /\ Duration(l) \in 0..MaxTime /\ Billsec(l) \in 0..MaxTime
         /\ legs[l].answer = 0 => Billsec(l) = 0
<1>1. /\ legs[l].start \in 0..MaxTime /\ legs[l].answer \in 0..MaxTime
      /\ legs[l].end \in 0..MaxTime
  BY DEF CallInv, LegsTyped, Clock
<1>2. legs[l].start <= legs[l].end /\ legs[l].answer <= legs[l].end
  BY DEF CallInv, Timed
<1> QED BY <1>1, <1>2, LastTime DEF Duration, Billsec

(* frame.get(h) or None *)
LEMMA FirstOfOne ==
  ASSUME NEW f, NEW h
  PROVE  Live!FirstOf(f, <<h>>) = IF h \in DOMAIN f /\ f[h] # "" THEN <<f[h]>> ELSE <<>>
<1> DEFINE G == Live!Given(f, <<h>>)
           x == h \in DOMAIN f /\ f[h] # ""
<1>1. DOMAIN <<h>> = {1} /\ <<h>>[1] = h
  OBVIOUS
<1>2. \A i : i \in G <=> (i = 1 /\ x)
  BY <1>1 DEF Live!Given
<1>3. Live!FirstOf(f, <<h>>) =
        IF G = {} THEN <<>> ELSE <<f[<<h>>[CHOOSE i \in G : \A j \in G : i <= j]]>>
  BY DEF Live!FirstOf, Live!None
<1> HIDE DEF G
<1>4. CASE x
  <2> HIDE DEF x
  <2>1. G = {1}
    BY <1>2, <1>4
  <2>2. (CHOOSE i \in G : \A j \in G : i <= j) = 1
    BY <2>1
  <2> QED BY <1>1, <1>3, <1>4, <2>1, <2>2 DEF x
<1>5. CASE ~x
  <2>1. G = {}
    BY <1>2, <1>5
  <2> QED BY <1>3, <1>5, <2>1
<1> QED BY <1>4, <1>5

(* frame.get(h) or frame.get(k) or None *)
LEMMA FirstOfTwo ==
  ASSUME NEW f, NEW h, NEW k
  PROVE  Live!FirstOf(f, <<h, k>>) =
           IF h \in DOMAIN f /\ f[h] # "" THEN <<f[h]>>
           ELSE IF k \in DOMAIN f /\ f[k] # "" THEN <<f[k]>> ELSE <<>>
<1> DEFINE G == Live!Given(f, <<h, k>>)
           x == h \in DOMAIN f /\ f[h] # ""
           y == k \in DOMAIN f /\ f[k] # ""
<1>1. DOMAIN <<h, k>> = {1, 2} /\ <<h, k>>[1] = h /\ <<h, k>>[2] = k
  OBVIOUS
<1>2. \A i : i \in G <=> (i = 1 /\ x) \/ (i = 2 /\ y)
  BY <1>1 DEF Live!Given
<1>3. Live!FirstOf(f, <<h, k>>) =
        IF G = {} THEN <<>> ELSE <<f[<<h, k>>[CHOOSE i \in G : \A j \in G : i <= j]]>>
  BY DEF Live!FirstOf, Live!None
<1> HIDE DEF G
<1>4. CASE x
  <2>1. 1 \in G /\ \A i \in G : i = 1 \/ i = 2
    BY <1>2, <1>4
  <2>2. \A i \in G : (\A j \in G : i <= j) <=> i = 1
    BY <2>1
  <2>3. (CHOOSE i \in G : \A j \in G : i <= j) = 1
    BY <2>1, <2>2
  <2> QED BY <1>1, <1>3, <1>4, <2>1, <2>3
<1>5. CASE ~x /\ y
  <2>1. G = {2}
    <3> HIDE DEF x, y
    <3> QED BY <1>2, <1>5
  <2>2. (CHOOSE i \in G : \A j \in G : i <= j) = 2
    BY <2>1
  <2> QED BY <1>1, <1>3, <1>5, <2>1, <2>2
<1>6. CASE ~x /\ ~y
  <2>1. G = {}
    BY <1>2, <1>6
  <2> QED BY <1>3, <1>6, <2>1
<1> QED BY <1>4, <1>5, <1>6

(* What becomes of a frame, attribute by attribute. *)
LEMMA EventRead ==
  ASSUME NEW f, NEW key, key = Live!DispatchKey(f)
  PROVE  /\ Live!parse_event(f)["kind"] = IF key \in DOMAIN Live!Fields THEN key ELSE "unknown"
         /\ \A a \in DOMAIN Live!Base :
              Live!parse_event(f)[a] = Live!FirstOf(f, Live!Base[a])
         /\ key \in DOMAIN Live!Fields =>
              \A a \in DOMAIN Live!Fields[key] \ (DOMAIN Live!Base \cup {"kind", "raw"}) :
                Live!parse_event(f)[a] =
                  Live!Coerced(a, Live!ValueOf(f, a, Live!Fields[key][a]))
<1> DEFINE base == [a \in DOMAIN Live!Base |-> Live!FirstOf(f, Live!Base[a])]
           more == [a \in DOMAIN Live!Fields[key] |->
                      Live!Coerced(a, Live!ValueOf(f, a, Live!Fields[key][a]))]
           e == Live!parse_event(f)
           unknown == [kind |-> "unknown", raw |-> f]
           known == [kind |-> key, raw |-> f]
<1>1. "kind" \notin DOMAIN Live!Base /\ "raw" \notin DOMAIN Live!Base
  BY DEF Live!Base
<1>2. e = IF key \notin DOMAIN Live!Fields THEN Live!@@(unknown, base)
          ELSE Live!@@(Live!@@(known, base), more)
  BY DEF Live!parse_event
<1>3. /\ DOMAIN unknown = {"kind", "raw"} /\ unknown["kind"] = "unknown"
      /\ DOMAIN known = {"kind", "raw"} /\ known["kind"] = key
      /\ DOMAIN base = DOMAIN Live!Base
      /\ DOMAIN more = DOMAIN Live!Fields[key]
  OBVIOUS
<1> HIDE DEF base, more, unknown, known, e
<1>4. CASE key \notin DOMAIN Live!Fields
  <2>1. e = Live!@@(unknown, base)
    BY <1>2, <1>4
  <2>2. /\ \A n \in DOMAIN unknown : (Live!@@(unknown, base))[n] = unknown[n]
        /\ \A n \in DOMAIN base \ DOMAIN unknown : (Live!@@(unknown, base))[n] = base[n]
    BY LivePartsOf
  <2>3. e["kind"] = "unknown" /\ \A a \in DOMAIN Live!Base : e[a] = base[a]
    BY <1>1, <1>3, <2>1, <2>2
  <2> QED BY <1>4, <2>3 DEF base, e
<1>5. CASE key \in DOMAIN Live!Fields
  <2> DEFINE both == Live!@@(known, base)
  <2>1. e = Live!@@(both, more)
    BY <1>2, <1>5
  <2>2. /\ \A n \in DOMAIN known : both[n] = known[n]
        /\ \A n \in DOMAIN base \ DOMAIN known : both[n] = base[n]
        /\ DOMAIN both = DOMAIN known \cup DOMAIN base
    BY LivePartsOf
  <2> HIDE DEF both
  <2>3. /\ \A n \in DOMAIN both : (Live!@@(both, more))[n] = both[n]
        /\ \A n \in DOMAIN more \ DOMAIN both : (Live!@@(both, more))[n] = more[n]
    BY LivePartsOf
  <2>4. e["kind"] = key /\ \A a \in DOMAIN Live!Base : e[a] = base[a]
    BY <1>1, <1>3, <2>1, <2>2, <2>3
  <2>5. \A a \in DOMAIN Live!Fields[key] \ (DOMAIN Live!Base \cup {"kind", "raw"}) :
          e[a] = more[a]
    BY <1>3, <2>1, <2>2, <2>3
  <2> QED BY <1>5, <2>4, <2>5 DEF base, more, e
<1> QED BY <1>4, <1>5

(* The identities every event has. *)
LEMMA IdentitiesRead ==
  ASSUME NEW f
  PROVE  LET e == Live!parse_event(f) IN
         /\ e.unique_id = Live!FirstOf(f, <<"Unique-ID">>)
         /\ e.originating_leg_uuid =
              Live!FirstOf(f, <<"variable_originating_leg_uuid", "Originating-Leg-UUID">>)
         /\ e.cc_member_session_uuid =
              Live!FirstOf(f, <<"CC-Member-Session-UUID", "variable_cc_member_session_uuid">>)
         /\ e.cc_agent_uuid =
              Live!FirstOf(f, <<"CC-Agent-UUID", "variable_cc_agent_uuid">>)
<1> DEFINE e == Live!parse_event(f)
<1>1. \A a \in DOMAIN Live!Base : e[a] = Live!FirstOf(f, Live!Base[a])
  BY EventRead
<1> HIDE DEF e
<1>2. /\ e["unique_id"] = Live!FirstOf(f, <<"Unique-ID">>)
      /\ e["originating_leg_uuid"] =
              Live!FirstOf(f, <<"variable_originating_leg_uuid", "Originating-Leg-UUID">>)
  BY <1>1 DEF Live!Base
<1>3. /\ e["cc_member_session_uuid"] =
              Live!FirstOf(f, <<"CC-Member-Session-UUID", "variable_cc_member_session_uuid">>)
      /\ e["cc_agent_uuid"] =
              Live!FirstOf(f, <<"CC-Agent-UUID", "variable_cc_agent_uuid">>)
  BY <1>1 DEF Live!Base
<1> QED BY <1>2, <1>3 DEF e

(* The kinds of events. *)
LEMMA KindsOfEvents ==
  DOMAIN Live!Fields = {"CHANNEL_CREATE", "CHANNEL_ANSWER", "CHANNEL_BRIDGE",
                        "CHANNEL_HANGUP_COMPLETE", "callcenter::info"}
  BY DEF Live!Fields, Live!@@, Live!:>

(* The seconds of a hangup are numbers, if the switch sent numbers. *)
LEMMA HangupRead ==
  ASSUME NEW f, Live!DispatchKey(f) = "CHANNEL_HANGUP_COMPLETE"
  PROVE  LET e == Live!parse_event(f) IN
         /\ e.duration = Live!Coerced("duration", Live!Header(f, "variable_duration"))
         /\ e.billsec = Live!Coerced("billsec", Live!Header(f, "variable_billsec"))
<1> DEFINE e == Live!parse_event(f)
           hangup == Live!Fields["CHANNEL_HANGUP_COMPLETE"]
<1>1. hangup = [
    hangup_cause |-> "Hangup-Cause", duration |-> "variable_duration",
    billsec |-> "variable_billsec", sip_from_user |-> "variable_sip_from_user",
    sip_to_user |-> "variable_sip_to_user"]
  BY DEF Live!Fields, Live!@@, Live!:>
<1>2. \A a \in DOMAIN hangup \ (DOMAIN Live!Base \cup {"kind", "raw"}) :
         e[a] = Live!Coerced(a, Live!ValueOf(f, a, hangup[a]))
  BY EventRead, KindsOfEvents
<1>3. "duration" \notin DOMAIN Live!Base /\ "billsec" \notin DOMAIN Live!Base
  BY DEF Live!Base
<1> HIDE DEF e, hangup
<1>4. /\ e["duration"] = Live!Coerced("duration", Live!ValueOf(f, "duration", "variable_duration"))
      /\ e["billsec"] = Live!Coerced("billsec", Live!ValueOf(f, "billsec", "variable_billsec"))
  BY <1>1, <1>2, <1>3
<1> QED BY <1>4 DEF Live!ValueOf, e

(* The legs of a bridge are its headers. *)
LEMMA BridgeRead ==
  ASSUME NEW f, Live!DispatchKey(f) = "CHANNEL_BRIDGE"
  PROVE  LET e == Live!parse_event(f) IN
         /\ e.bridge_a_unique_id = Live!Header(f, "Bridge-A-Unique-ID")
         /\ e.bridge_b_unique_id = Live!Header(f, "Bridge-B-Unique-ID")
<1> DEFINE e == Live!parse_event(f)
           bridge == Live!Fields["CHANNEL_BRIDGE"]
<1>1. bridge = [
    other_leg_unique_id |-> "Other-Leg-Unique-ID",
    bridge_a_unique_id |-> "Bridge-A-Unique-ID", bridge_b_unique_id |-> "Bridge-B-Unique-ID"]
  BY DEF Live!Fields, Live!@@, Live!:>
<1>2. \A a \in DOMAIN bridge \ (DOMAIN Live!Base \cup {"kind", "raw"}) :
         e[a] = Live!Coerced(a, Live!ValueOf(f, a, bridge[a]))
  BY EventRead, KindsOfEvents
<1>3. "bridge_a_unique_id" \notin DOMAIN Live!Base /\ "bridge_b_unique_id" \notin DOMAIN Live!Base
  BY DEF Live!Base
<1> HIDE DEF e, bridge
<1>4. /\ e["bridge_a_unique_id"] =
           Live!Coerced("bridge_a_unique_id", Live!ValueOf(f, "bridge_a_unique_id", "Bridge-A-Unique-ID"))
      /\ e["bridge_b_unique_id"] =
           Live!Coerced("bridge_b_unique_id", Live!ValueOf(f, "bridge_b_unique_id", "Bridge-B-Unique-ID"))
  BY <1>1, <1>2, <1>3
<1> QED BY <1>4 DEF Live!ValueOf, Live!Coerced, Live!IntAttrs, e

(* The join time is the header, or else the variable of the channel. *)
LEMMA QueueEventRead ==
  ASSUME NEW f, Live!DispatchKey(f) = "callcenter::info"
  PROVE  Live!parse_event(f).cc_member_joined_time =
           Live!Coerced("cc_member_joined_time",
             IF "CC-Member-Joined-Time" \notin DOMAIN f
             THEN Live!Header(f, "variable_cc_queue_joined_epoch")
             ELSE Live!Header(f, "CC-Member-Joined-Time"))
<1> DEFINE e == Live!parse_event(f)
           info == Live!Fields["callcenter::info"]
<1>1. "cc_member_joined_time" \in DOMAIN info
      /\ info["cc_member_joined_time"] = "CC-Member-Joined-Time"
  BY DEF Live!Fields, Live!@@, Live!:>
<1>2. \A a \in DOMAIN info \ (DOMAIN Live!Base \cup {"kind", "raw"}) :
         e[a] = Live!Coerced(a, Live!ValueOf(f, a, info[a]))
  BY EventRead, KindsOfEvents
<1>3. "cc_member_joined_time" \notin DOMAIN Live!Base
  BY DEF Live!Base
<1> HIDE DEF e, info
<1>4. e["cc_member_joined_time"] = Live!Coerced("cc_member_joined_time",
        Live!ValueOf(f, "cc_member_joined_time", "CC-Member-Joined-Time"))
  BY <1>1, <1>2, <1>3
<1> QED BY <1>4 DEF Live!ValueOf, e

-----------------------------------------------------------------------------
(* The frames of the switch, put together. *)
LEMMA Parts ==
  ASSUME NEW f, NEW g
  PROVE  /\ DOMAIN (f @@ g) = DOMAIN f \cup DOMAIN g
         /\ \A n \in DOMAIN f : (f @@ g)[n] = f[n]
         /\ \A n \in DOMAIN g \ DOMAIN f : (f @@ g)[n] = g[n]
  BY DEF @@

(* The headers that name the member, an agent, and an origin. *)
Owners == {"CC-Member-Session-UUID", "variable_cc_member_session_uuid"}
Callees == {"CC-Agent-UUID", "variable_cc_agent_uuid"}
Origins == {"variable_originating_leg_uuid", "Originating-Leg-UUID"}

(* A frame names the member as the member and, as an agent, only one the    *)
(* call was offered to.                                                     *)
Honest(f) ==
  /\ \A h \in Origins : h \notin DOMAIN f
  /\ \A h \in Owners \cap DOMAIN f : f[h] = "member"
  /\ \A h \in Callees \cap DOMAIN f : f[h] # "" => f[h] \in Agents /\ legs[f[h]].start # 0

(* A frame tells when the call joined the queue, in one spelling or both. *)
Joinings == {"CC-Member-Joined-Time", "variable_cc_queue_joined_epoch"}
TellsJoin(f) ==
  /\ Joinings \cap DOMAIN f # {}
  /\ \A h \in Joinings \cap DOMAIN f : f[h] = Text[queue.joined]

(* Honest frames make honest frames. *)
LEMMA HonestParts ==
  ASSUME NEW f, NEW g, Honest(f), Honest(g)
  PROVE  Honest(f @@ g)
<1> DEFINE b == f @@ g
<1>1. /\ DOMAIN b = DOMAIN f \cup DOMAIN g
      /\ \A n \in DOMAIN f : b[n] = f[n]
      /\ \A n \in DOMAIN g \ DOMAIN f : b[n] = g[n]
  BY Parts
<1> HIDE DEF b
<1>2. \A h \in Origins : h \notin DOMAIN b
  BY <1>1 DEF Honest
<1>3. \A h \in Owners \cap DOMAIN b : b[h] = "member"
  BY <1>1 DEF Honest
<1>4. ASSUME NEW h \in Callees \cap DOMAIN b, b[h] # ""
      PROVE  b[h] \in Agents /\ legs[b[h]].start # 0
  <2>1. CASE h \in DOMAIN f
    <3>1. b[h] = f[h] /\ h \in Callees \cap DOMAIN f
      BY <1>1, <1>4, <2>1
    <3>2. f[h] # "" => f[h] \in Agents /\ legs[f[h]].start # 0
      BY <3>1 DEF Honest
    <3> QED BY <1>4, <3>1, <3>2
  <2>2. CASE h \notin DOMAIN f
    <3>1. b[h] = g[h] /\ h \in Callees \cap DOMAIN g
      BY <1>1, <1>4, <2>2
    <3>2. g[h] # "" => g[h] \in Agents /\ legs[g[h]].start # 0
      BY <3>1 DEF Honest
    <3> QED BY <1>4, <3>1, <3>2
  <2> QED BY <2>1, <2>2
<1> QED BY <1>2, <1>3, <1>4 DEF Honest, b

(* A frame keeps the join time it tells under entries that have none. *)
LEMMA JoinTold ==
  ASSUME NEW f, NEW g, TellsJoin(g), TellsJoin(f) \/ Joinings \cap DOMAIN f = {}
  PROVE  TellsJoin(f @@ g)
<1> DEFINE b == f @@ g
<1>1. /\ DOMAIN b = DOMAIN f \cup DOMAIN g
      /\ \A n \in DOMAIN f : b[n] = f[n]
      /\ \A n \in DOMAIN g \ DOMAIN f : b[n] = g[n]
  BY Parts
<1> HIDE DEF b
<1>2. TellsJoin(b)
  BY <1>1 DEF TellsJoin
<1> QED BY <1>2 DEF b

(* The queue's variables on a channel, and the channel itself. *)
LEMMA VariablesOfQueue ==
  ASSUME NEW l, NEW q, q = QueueVariables(l)
  PROVE  /\ DOMAIN q \subseteq {"variable_cc_queue", "variable_cc_member_session_uuid",
                                "variable_cc_queue_joined_epoch", "variable_cc_agent_uuid"}
         /\ "variable_cc_member_session_uuid" \in DOMAIN q =>
              q["variable_cc_member_session_uuid"] = "member"
         /\ "variable_cc_agent_uuid" \in DOMAIN q =>
              q["variable_cc_agent_uuid"] = AgentOf(l) /\ AgentOf(l) # ""
         /\ queue.joined # 0 =>
              /\ "variable_cc_queue_joined_epoch" \in DOMAIN q
              /\ q["variable_cc_queue_joined_epoch"] = Text[queue.joined]
<1>1. CASE queue.joined = 0
  BY <1>1 DEF QueueVariables
<1>2. CASE queue.joined # 0
  <2> DEFINE p == "variable_cc_queue" :> "help" @@ "variable_cc_member_session_uuid" :> "member"
                  @@ "variable_cc_queue_joined_epoch" :> Text[queue.joined]
             r == IF AgentOf(l) = "" THEN <<>> ELSE "variable_cc_agent_uuid" :> AgentOf(l)
  <2>1. /\ DOMAIN p = {"variable_cc_queue", "variable_cc_member_session_uuid",
                       "variable_cc_queue_joined_epoch"}
        /\ p["variable_cc_member_session_uuid"] = "member"
        /\ p["variable_cc_queue_joined_epoch"] = Text[queue.joined]
    BY DEF @@, :>
  <2>2. \/ AgentOf(l) = "" /\ DOMAIN r = {}
        \/ /\ AgentOf(l) # "" /\ DOMAIN r = {"variable_cc_agent_uuid"}
           /\ r["variable_cc_agent_uuid"] = AgentOf(l)
    <3>1. DOMAIN <<>> = {}
      OBVIOUS
    <3> QED BY <3>1 DEF :>
  <2>3. q = p @@ r
    BY <1>2 DEF QueueVariables
  <2> HIDE DEF p, r
  <2>4. /\ DOMAIN (p @@ r) = DOMAIN p \cup DOMAIN r
        /\ \A n \in DOMAIN p : (p @@ r)[n] = p[n]
        /\ \A n \in DOMAIN r \ DOMAIN p : (p @@ r)[n] = r[n]
    BY Parts
  <2>5. DOMAIN q = DOMAIN p \cup DOMAIN r
    BY <2>3, <2>4
  <2>6. DOMAIN q \subseteq {"variable_cc_queue", "variable_cc_member_session_uuid",
                            "variable_cc_queue_joined_epoch", "variable_cc_agent_uuid"}
    BY <2>1, <2>2, <2>5
  <2>7. /\ q["variable_cc_member_session_uuid"] = "member"
        /\ "variable_cc_queue_joined_epoch" \in DOMAIN q
        /\ q["variable_cc_queue_joined_epoch"] = Text[queue.joined]
    BY <2>1, <2>3, <2>4, <2>5
  <2>8. "variable_cc_agent_uuid" \in DOMAIN q =>
          q["variable_cc_agent_uuid"] = AgentOf(l) /\ AgentOf(l) # ""
    BY <2>1, <2>2, <2>3, <2>4, <2>5
  <2> QED BY <2>6, <2>7, <2>8
<1> QED BY <1>1, <1>2

(* What a frame has of the channel of a leg. *)
LEMMA ChannelHeaders ==
  ASSUME CallInv, NEW l \in Legs, legs[l].start # 0, NEW c, c = Channel(l)
  PROVE  /\ DOMAIN c \subseteq
              {"Unique-ID", "Channel-Name", "variable_cc_queue", "variable_cc_member_session_uuid",
               "variable_cc_queue_joined_epoch", "variable_cc_agent_uuid"}
         /\ "Unique-ID" \in DOMAIN c /\ c["Unique-ID"] = l
         /\ Honest(c)
         /\ queue.joined # 0 =>
              /\ "variable_cc_queue_joined_epoch" \in DOMAIN c
              /\ c["variable_cc_queue_joined_epoch"] = Text[queue.joined]
<1> DEFINE q == QueueVariables(l)
           p == "Unique-ID" :> l @@ "Channel-Name" :> "sofia"
<1>1. DOMAIN p = {"Unique-ID", "Channel-Name"} /\ p["Unique-ID"] = l
  BY DEF @@, :>
<1>2. c = p @@ q
  BY DEF Channel
<1> HIDE DEF p, q
<1>3. /\ DOMAIN c = DOMAIN p \cup DOMAIN q
      /\ \A n \in DOMAIN p : c[n] = p[n]
      /\ \A n \in DOMAIN q \ DOMAIN p : c[n] = q[n]
  <2>1. /\ DOMAIN (p @@ q) = DOMAIN p \cup DOMAIN q
        /\ \A n \in DOMAIN p : (p @@ q)[n] = p[n]
        /\ \A n \in DOMAIN q \ DOMAIN p : (p @@ q)[n] = q[n]
    BY Parts
  <2> QED BY <1>2, <2>1
<1>4. /\ DOMAIN q \subseteq {"variable_cc_queue", "variable_cc_member_session_uuid",
                                "variable_cc_queue_joined_epoch", "variable_cc_agent_uuid"}
      /\ "variable_cc_member_session_uuid" \in DOMAIN q =>
              q["variable_cc_member_session_uuid"] = "member"
      /\ "variable_cc_agent_uuid" \in DOMAIN q =>
              q["variable_cc_agent_uuid"] = AgentOf(l) /\ AgentOf(l) # ""
      /\ queue.joined # 0 =>
              /\ "variable_cc_queue_joined_epoch" \in DOMAIN q
              /\ q["variable_cc_queue_joined_epoch"] = Text[queue.joined]
  BY VariablesOfQueue DEF q
<1>5. AgentOf(l) # "" => AgentOf(l) \in Agents /\ legs[AgentOf(l)].start # 0
  BY DEF AgentOf, Legs, CallInv, QueueTyped, Offered
<1>6. Honest(c)
  <2>1. DOMAIN c \subseteq {"Unique-ID", "Channel-Name", "variable_cc_queue",
             "variable_cc_member_session_uuid", "variable_cc_queue_joined_epoch",
             "variable_cc_agent_uuid"}
    BY <1>1, <1>3, <1>4
  <2>2. \A h \in Origins : h \notin DOMAIN c
    BY <2>1 DEF Origins
  <2>3. \A h \in Owners \cap DOMAIN c : c[h] = "member"
    BY <2>1, <1>1, <1>3, <1>4 DEF Owners
  <2>4. \A h \in Callees \cap DOMAIN c : c[h] = AgentOf(l) /\ AgentOf(l) # ""
    BY <2>1, <1>1, <1>3, <1>4, ZenonT(30) DEF Callees
  <2> QED BY <2>2, <2>3, <2>4, <1>5 DEF Honest
<1> QED BY <1>1, <1>3, <1>4, <1>6

(* An event of the core about a leg. *)
LEMMA LegFrame ==
  ASSUME CallInv, NEW l \in Legs, legs[l].start # 0, NEW p, NEW f, f = p @@ Channel(l),
         "Event-Name" \in DOMAIN p, p["Event-Name"] # "CUSTOM",
         DOMAIN p \cap (Owners \cup Callees \cup Origins \cup {"Unique-ID"}) = {}
  PROVE  /\ Honest(f) /\ Live!DispatchKey(f) = p["Event-Name"]
         /\ "Unique-ID" \in DOMAIN f /\ f["Unique-ID"] = l
         /\ DOMAIN p \subseteq DOMAIN f
         /\ \A n \in DOMAIN p : f[n] = p[n]
<1> DEFINE c == Channel(l)
<1>1. /\ DOMAIN f = DOMAIN p \cup DOMAIN c
      /\ \A n \in DOMAIN p : f[n] = p[n]
      /\ \A n \in DOMAIN c \ DOMAIN p : f[n] = c[n]
  <2>1. /\ DOMAIN (p @@ c) = DOMAIN p \cup DOMAIN c
        /\ \A n \in DOMAIN p : (p @@ c)[n] = p[n]
        /\ \A n \in DOMAIN c \ DOMAIN p : (p @@ c)[n] = c[n]
    BY Parts, ZenonT(30)
  <2> QED BY <2>1
<1>2. "Unique-ID" \in DOMAIN c /\ c["Unique-ID"] = l /\ Honest(c)
  BY ChannelHeaders
<1> HIDE DEF c
<1>3. Honest(f)
  <2>1. Honest(p)
    BY DEF Honest
  <2> QED BY <1>2, <2>1, HonestParts DEF c
<1>4. Live!DispatchKey(f) = p["Event-Name"]
  BY <1>1 DEF Live!DispatchKey
<1> QED BY <1>1, <1>2, <1>3, <1>4

(* An event of mod_callcenter. *)
LEMMA QueueHeadersHonest ==
  ASSUME CallInv
  PROVE  Honest(QueueHeaders) /\ TellsJoin(QueueHeaders)
<1> DEFINE h == QueueHeaders
<1>1. DOMAIN h = {"CC-Queue", "CC-Member-Session-UUID", "CC-Member-Joined-Time", "CC-Agent-UUID"}
  BY DEF QueueHeaders, @@, :>
<1>2. h["CC-Member-Session-UUID"] = "member"
  BY DEF QueueHeaders, @@, :>
<1>3. h["CC-Member-Joined-Time"] = Text[queue.joined]
  BY DEF QueueHeaders, @@, :>
<1>4. h["CC-Agent-UUID"] = queue.agent
  BY DEF QueueHeaders, @@, :>
<1>5. queue.agent # "" => queue.agent \in Agents /\ legs[queue.agent].start # 0
  BY DEF CallInv, QueueTyped, Offered
<1> HIDE DEF h
<1>6. Honest(h)
  <2>1. \A n \in Callees \cap DOMAIN h : h[n] = queue.agent
    BY <1>1, <1>4 DEF Callees
  <2>2. \A n \in Owners \cap DOMAIN h : h[n] = "member"
    BY <1>1, <1>2 DEF Owners
  <2>3. \A n \in Origins : n \notin DOMAIN h
    BY <1>1 DEF Origins
  <2> QED BY <1>5, <2>1, <2>2, <2>3 DEF Honest
<1>7. TellsJoin(h)
  BY <1>1, <1>3 DEF TellsJoin, Joinings
<1> QED BY <1>6, <1>7 DEF h

(* Its identities are right, and it tells the join time, however spelt. *)
LEMMA QueueFrame ==
  ASSUME CallInv, NEW f \in QueueFrames
  PROVE  Honest(f) /\ TellsJoin(f) /\ Live!DispatchKey(f) = "callcenter::info"
<1> DEFINE p(a) == "Event-Name" :> "CUSTOM" @@ "Event-Subclass" :> "callcenter::info"
                   @@ "CC-Action" :> a
           c == Channel("member")
<1>1. queue.joined # 0
  BY DEF QueueFrames
<1>2. PICK a \in {"member-queue-start", "member-queue-end"},
          shown \in {QueueHeaders, c, QueueHeaders @@ c} : f = p(a) @@ shown
  BY <1>1 DEF QueueFrames
<1>3. /\ DOMAIN p(a) = {"Event-Name", "Event-Subclass", "CC-Action"}
      /\ p(a)["Event-Name"] = "CUSTOM" /\ p(a)["Event-Subclass"] = "callcenter::info"
  BY DEF @@, :>
<1>4. "member" \in Legs /\ legs["member"].start # 0
  BY <1>1 DEF CallInv, Offered, Legs
<1>5. Honest(c) /\ TellsJoin(c)
  <2>1. Honest(c) /\ "variable_cc_queue_joined_epoch" \in DOMAIN c
        /\ c["variable_cc_queue_joined_epoch"] = Text[queue.joined]
    BY <1>1, <1>4, ChannelHeaders
  <2>2. "CC-Member-Joined-Time" \notin DOMAIN c
    BY <1>4, ChannelHeaders
  <2> HIDE DEF c
  <2> QED BY <2>1, <2>2 DEF TellsJoin, Joinings
<1> HIDE DEF p, c
<1>6. Honest(shown) /\ TellsJoin(shown)
  BY <1>2, <1>5, QueueHeadersHonest, HonestParts, JoinTold
<1>7. Honest(p(a)) /\ Joinings \cap DOMAIN p(a) = {}
  BY <1>3 DEF Honest, Owners, Callees, Origins, Joinings
<1>8. Honest(p(a) @@ shown) /\ TellsJoin(p(a) @@ shown)
  BY <1>6, <1>7, HonestParts, JoinTold
<1>9. Live!DispatchKey(p(a) @@ shown) = "callcenter::info"
  <2> DEFINE q == p(a)
             b == q @@ shown
  <2>1. DOMAIN b = DOMAIN q \cup DOMAIN shown /\ \A n \in DOMAIN q : b[n] = q[n]
    BY Parts
  <2>2. /\ DOMAIN q = {"Event-Name", "Event-Subclass", "CC-Action"}
        /\ q["Event-Name"] = "CUSTOM" /\ q["Event-Subclass"] = "callcenter::info"
    BY <1>3
  <2> HIDE DEF b, q
  <2>3. Live!DispatchKey(b) = "callcenter::info"
    BY <2>1, <2>2 DEF Live!DispatchKey
  <2> QED BY <2>3 DEF b, q
<1> QED BY <1>2, <1>8, <1>9

(* What the events of a leg tell. *)
LegEvent(f, l) ==
  /\ Honest(f)
  /\ "Unique-ID" \in DOMAIN f /\ f["Unique-ID"] = l
  /\ \/ Live!DispatchKey(f) \in {"CHANNEL_CREATE", "CHANNEL_ANSWER", "PRESENCE_IN"}
     \/ /\ Live!DispatchKey(f) = "CHANNEL_BRIDGE" /\ queue.answered # 0
        /\ "Bridge-A-Unique-ID" \in DOMAIN f /\ f["Bridge-A-Unique-ID"] = "member"
        /\ "Bridge-B-Unique-ID" \in DOMAIN f /\ f["Bridge-B-Unique-ID"] = queue.agent
     \/ /\ Live!DispatchKey(f) = "CHANNEL_HANGUP_COMPLETE" /\ legs[l].end # 0
        /\ "variable_duration" \in DOMAIN f /\ f["variable_duration"] = Text[Duration(l)]
        /\ "variable_billsec" \in DOMAIN f
        /\ \/ legs[l].answer = 0 /\ f["variable_billsec"] \in {"", "0"}
           \/ legs[l].answer # 0 /\ f["variable_billsec"] = Text[Billsec(l)]

(* Every frame about a leg is an event of it. *)
LEMMA EventsOfLeg ==
  ASSUME CallInv, NEW l \in Legs, NEW f \in LegFrames(l)
  PROVE  LegEvent(f, l)
<1> DEFINE c == Channel(l)
           event(n) == "Event-Name" :> n
           bridge == "Event-Name" :> "CHANNEL_BRIDGE" @@ "Other-Leg-Unique-ID" :> queue.agent
                     @@ "Bridge-A-Unique-ID" :> l @@ "Bridge-B-Unique-ID" :> queue.agent
           hangup(b) == "Event-Name" :> "CHANNEL_HANGUP_COMPLETE"
                        @@ "Hangup-Cause" :> "NORMAL_CLEARING"
                        @@ "variable_duration" :> Text[Duration(l)] @@ "variable_billsec" :> b
           names == Owners \cup Callees \cup Origins \cup {"Unique-ID"}
<1>1. /\ legs[l].answer # 0 => legs[l].start # 0
      /\ legs[l].end # 0 => legs[l].start # 0
      /\ queue.answered # 0 => queue.agent # "" /\ legs[queue.agent].answer # 0
      /\ queue.agent # "" => queue.agent \in Legs /\ legs["member"].start # 0
  <2>1. (legs[l].answer # 0 => legs[l].start # 0) /\ (legs[l].end # 0 => legs[l].start # 0)
    BY DEF CallInv, Timed
  <2>2. queue.agent # "" => queue.agent \in Legs /\ legs["member"].start # 0
    BY DEF CallInv, Offered, QueueTyped, Legs
  <2>3. queue.answered # 0 => queue.agent # "" /\ legs[queue.agent].answer # 0
    BY DEF CallInv, Offered
  <2> QED BY <2>1, <2>2, <2>3
<1>2. \/ legs[l].start # 0 /\ \E n \in {"CHANNEL_CREATE", "PRESENCE_IN"} : f = event(n) @@ c
      \/ legs[l].answer # 0 /\ f = event("CHANNEL_ANSWER") @@ c
      \/ l = "member" /\ queue.answered # 0 /\ f = bridge @@ c
      \/ /\ legs[l].end # 0
         /\ \E b : /\ f = hangup(b) @@ c
                   /\ b \in IF legs[l].answer = 0 THEN {"", "0"} ELSE {Text[Billsec(l)]}
  BY DEF LegFrames
<1> HIDE DEF c
<1>3. ASSUME NEW n \in {"CHANNEL_CREATE", "PRESENCE_IN", "CHANNEL_ANSWER"},
             f = event(n) @@ c, legs[l].start # 0
      PROVE  LegEvent(f, l)
  <2>1. DOMAIN event(n) = {"Event-Name"} /\ event(n)["Event-Name"] = n
    BY DEF :>
  <2> HIDE DEF event
  <2>2. DOMAIN event(n) \cap names = {}
    BY <2>1 DEF Owners, Callees, Origins
  <2>3. legs[l].start # 0
    BY <1>1, <1>3
  <2>4. /\ Honest(f) /\ Live!DispatchKey(f) = event(n)["Event-Name"]
        /\ "Unique-ID" \in DOMAIN f /\ f["Unique-ID"] = l
        /\ DOMAIN event(n) \subseteq DOMAIN f
        /\ \A h \in DOMAIN event(n) : f[h] = event(n)[h]
    <3> DEFINE p == event(n)
    <3>1. "Event-Name" \in DOMAIN p /\ p["Event-Name"] # "CUSTOM" /\ DOMAIN p \cap names = {}
      BY <2>1, <2>2
    <3>2. f = p @@ Channel(l)
      BY <1>3 DEF c
    <3> HIDE DEF p
    <3>3. /\ Honest(f) /\ Live!DispatchKey(f) = p["Event-Name"]
          /\ "Unique-ID" \in DOMAIN f /\ f["Unique-ID"] = l
          /\ DOMAIN p \subseteq DOMAIN f
          /\ \A h \in DOMAIN p : f[h] = p[h]
      BY <2>3, <3>1, <3>2, LegFrame
    <3> QED BY <3>3 DEF p
  <2> QED BY <1>3, <2>1, <2>4 DEF LegEvent
<1>4. ASSUME l = "member", queue.answered # 0, f = bridge @@ c PROVE LegEvent(f, l)
  <2>1. /\ DOMAIN bridge = {"Event-Name", "Other-Leg-Unique-ID", "Bridge-A-Unique-ID",
                            "Bridge-B-Unique-ID"}
        /\ bridge["Event-Name"] = "CHANNEL_BRIDGE" /\ bridge["Bridge-A-Unique-ID"] = l
        /\ bridge["Bridge-B-Unique-ID"] = queue.agent
    BY DEF @@, :>
  <2> HIDE DEF bridge
  <2>2. DOMAIN bridge \cap names = {}
    BY <2>1 DEF Owners, Callees, Origins
  <2>3. legs[l].start # 0
    BY <1>1, <1>4
  <2>4. /\ Honest(f) /\ Live!DispatchKey(f) = bridge["Event-Name"]
        /\ "Unique-ID" \in DOMAIN f /\ f["Unique-ID"] = l
        /\ DOMAIN bridge \subseteq DOMAIN f
        /\ \A h \in DOMAIN bridge : f[h] = bridge[h]
    <3> DEFINE p == bridge
    <3>1. "Event-Name" \in DOMAIN p /\ p["Event-Name"] # "CUSTOM" /\ DOMAIN p \cap names = {}
      BY <2>1, <2>2
    <3>2. f = p @@ Channel(l)
      BY <1>4 DEF c
    <3> HIDE DEF p
    <3>3. /\ Honest(f) /\ Live!DispatchKey(f) = p["Event-Name"]
          /\ "Unique-ID" \in DOMAIN f /\ f["Unique-ID"] = l
          /\ DOMAIN p \subseteq DOMAIN f
          /\ \A h \in DOMAIN p : f[h] = p[h]
      BY <2>3, <3>1, <3>2, LegFrame
    <3> QED BY <3>3 DEF p
  <2> QED BY <1>1, <1>4, <2>1, <2>4 DEF LegEvent
<1>5. ASSUME NEW b, f = hangup(b) @@ c, legs[l].end # 0,
             b \in IF legs[l].answer = 0 THEN {"", "0"} ELSE {Text[Billsec(l)]}
      PROVE  LegEvent(f, l)
  <2>1. /\ DOMAIN hangup(b) = {"Event-Name", "Hangup-Cause", "variable_duration",
                               "variable_billsec"}
        /\ hangup(b)["Event-Name"] = "CHANNEL_HANGUP_COMPLETE"
        /\ hangup(b)["variable_duration"] = Text[Duration(l)]
        /\ hangup(b)["variable_billsec"] = b
    BY DEF @@, :>
  <2> HIDE DEF hangup
  <2>2. DOMAIN hangup(b) \cap names = {}
    BY <2>1 DEF Owners, Callees, Origins
  <2>3. legs[l].start # 0
    BY <1>1, <1>5
  <2>4. /\ Honest(f) /\ Live!DispatchKey(f) = hangup(b)["Event-Name"]
        /\ "Unique-ID" \in DOMAIN f /\ f["Unique-ID"] = l
        /\ DOMAIN hangup(b) \subseteq DOMAIN f
        /\ \A h \in DOMAIN hangup(b) : f[h] = hangup(b)[h]
    <3> DEFINE p == hangup(b)
    <3>1. "Event-Name" \in DOMAIN p /\ p["Event-Name"] # "CUSTOM" /\ DOMAIN p \cap names = {}
      BY <2>1, <2>2
    <3>2. f = p @@ Channel(l)
      BY <1>5 DEF c
    <3> HIDE DEF p
    <3>3. /\ Honest(f) /\ Live!DispatchKey(f) = p["Event-Name"]
          /\ "Unique-ID" \in DOMAIN f /\ f["Unique-ID"] = l
          /\ DOMAIN p \subseteq DOMAIN f
          /\ \A h \in DOMAIN p : f[h] = p[h]
      BY <2>3, <3>1, <3>2, LegFrame
    <3> QED BY <3>3 DEF p
  <2> QED BY <1>1, <1>5, <2>1, <2>4 DEF LegEvent
<1> QED BY <1>1, <1>2, <1>3, <1>4, <1>5

(* An event of mod_callcenter tells when the call joined, a hangup how long *)
(* the leg was up.                                                          *)
LEMMA EventsAgree ==
  ASSUME CallInv, NEW f \in Frames
  PROVE  LET e == Live!parse_event(f) IN
         /\ e.kind = "callcenter::info" => e.cc_member_joined_time = <<queue.joined>>
         /\ e.kind = "CHANNEL_HANGUP_COMPLETE" =>
              /\ e.duration = <<Duration(e.unique_id[1])>>
              /\ e.billsec \in {<<>>, <<Billsec(e.unique_id[1])>>}
<1> DEFINE e == Live!parse_event(f)
           key == Live!DispatchKey(f)
<1>1. e.kind = IF key \in DOMAIN Live!Fields THEN key ELSE "unknown"
  BY EventRead
<1>2. CASE f \in QueueFrames
  <2>1. key = "callcenter::info" /\ TellsJoin(f)
    BY <1>2, QueueFrame
  <2>2. e.kind = "callcenter::info"
    BY <1>1, <2>1, KindsOfEvents
  <2>3. e.cc_member_joined_time = Live!Coerced("cc_member_joined_time", <<Text[queue.joined]>>)
    <3>1. e.cc_member_joined_time =
            Live!Coerced("cc_member_joined_time",
              IF "CC-Member-Joined-Time" \notin DOMAIN f
              THEN Live!Header(f, "variable_cc_queue_joined_epoch")
              ELSE Live!Header(f, "CC-Member-Joined-Time"))
      BY <2>1, QueueEventRead
    <3>2. (IF "CC-Member-Joined-Time" \notin DOMAIN f
           THEN Live!Header(f, "variable_cc_queue_joined_epoch")
           ELSE Live!Header(f, "CC-Member-Joined-Time")) = <<Text[queue.joined]>>
      BY <2>1 DEF TellsJoin, Joinings, Live!Header
    <3> QED BY <3>1, <3>2
  <2>4. queue.joined \in 0..MaxTime
    BY DEF CallInv, QueueTyped, Clock
  <2>5. e.cc_member_joined_time = <<queue.joined>>
    BY <2>3, <2>4, NumberRead DEF Live!Coerced, Live!IntAttrs, Live!None
  <2> HIDE DEF e
  <2> QED BY <2>2, <2>5 DEF e
<1>3. ASSUME NEW l \in Legs, f \in LegFrames(l)
      PROVE  /\ e.kind # "callcenter::info"
             /\ e.kind = "CHANNEL_HANGUP_COMPLETE" =>
                  /\ e.duration = <<Duration(e.unique_id[1])>>
                  /\ e.billsec \in {<<>>, <<Billsec(e.unique_id[1])>>}
  <2>1. LegEvent(f, l)
    BY <1>3, EventsOfLeg
  <2>2. e.kind # "callcenter::info"
    BY <1>1, <2>1 DEF LegEvent
  <2>3. ASSUME e.kind = "CHANNEL_HANGUP_COMPLETE"
        PROVE  /\ e.duration = <<Duration(e.unique_id[1])>>
               /\ e.billsec \in {<<>>, <<Billsec(e.unique_id[1])>>}
    <3>1. key = "CHANNEL_HANGUP_COMPLETE"
      BY <1>1, <2>3
    <3>2. /\ legs[l].end # 0 /\ "variable_duration" \in DOMAIN f
          /\ f["variable_duration"] = Text[Duration(l)] /\ "variable_billsec" \in DOMAIN f
          /\ \/ legs[l].answer = 0 /\ f["variable_billsec"] \in {"", "0"}
             \/ legs[l].answer # 0 /\ f["variable_billsec"] = Text[Billsec(l)]
      BY <2>1, <3>1 DEF LegEvent
    <3>3. e.unique_id[1] = l
      <4>1. e.unique_id = Live!FirstOf(f, <<"Unique-ID">>)
        BY IdentitiesRead
      <4>2. "Unique-ID" \in DOMAIN f /\ f["Unique-ID"] = l /\ l # ""
        BY <2>1, StoryAssumption DEF LegEvent, Legs
      <4>3. Live!FirstOf(f, <<"Unique-ID">>) = <<l>>
        BY <4>2, FirstOfOne
      <4> QED BY <4>1, <4>3
    <3>4. Duration(l) \in 0..MaxTime /\ Billsec(l) \in 0..MaxTime
          /\ (legs[l].answer = 0 => Billsec(l) = 0)
      BY <3>2, SecondsOfLeg
    <3>5. e.duration = <<Duration(l)>>
      <4>1. e.duration = Live!Coerced("duration", Live!Header(f, "variable_duration"))
        BY <3>1, HangupRead
      <4>2. Live!Header(f, "variable_duration") = <<Text[Duration(l)]>>
        BY <3>2 DEF Live!Header
      <4>3. Live!IntOf(Text[Duration(l)]) = <<Duration(l)>>
        BY <3>4, NumberRead
      <4> QED BY <4>1, <4>2, <4>3 DEF Live!Coerced, Live!IntAttrs, Live!None
    <3>6. e.billsec \in {<<>>, <<Billsec(l)>>}
      <4>1. e.billsec = Live!Coerced("billsec", Live!Header(f, "variable_billsec"))
        BY <3>1, HangupRead
      <4>2. Live!Header(f, "variable_billsec") = <<f["variable_billsec"]>>
        BY <3>2 DEF Live!Header
      <4>3. Live!IntOf(f["variable_billsec"]) \in {<<>>, <<Billsec(l)>>}
        <5>1. Live!IntOf("") = <<>> /\ Live!IntOf("0") = <<0>>
          BY OtherTexts
        <5>2. Live!IntOf(Text[Billsec(l)]) = <<Billsec(l)>>
          BY <3>4, NumberRead
        <5> QED BY <3>2, <3>4, <5>1, <5>2
      <4>4. e.billsec = Live!IntOf(f["variable_billsec"])
        BY <4>1, <4>2 DEF Live!Coerced, Live!IntAttrs, Live!None
      <4> QED BY <4>3, <4>4
    <3> HIDE DEF e
    <3> QED BY <3>3, <3>5, <3>6
  <2> QED BY <2>2, <2>3
<1>4. f \in QueueFrames \/ \E l \in Legs : f \in LegFrames(l)
  BY DEF Frames
<1> HIDE DEF e
<1>5. CASE \E l \in Legs : f \in LegFrames(l)
  BY <1>3, <1>5 DEF e
<1> QED BY <1>2, <1>4, <1>5 DEF e

(* An event gives every identity in its own role. *)
LEMMA EventsKeepRoles ==
  ASSUME CallInv, NEW f \in Frames
  PROVE  LET e == Live!parse_event(f) IN
         /\ e.cc_member_session_uuid \in {<<>>, <<"member">>}
         /\ \A a \in Range(e.cc_agent_uuid) : a \in Agents /\ legs[a].start # 0
         /\ e.originating_leg_uuid = <<>>
         /\ e.kind = "CHANNEL_BRIDGE" =>
              /\ e.bridge_a_unique_id \in {<<>>, <<"member">>}
              /\ e.bridge_b_unique_id \in {<<>>, <<queue.agent>>}
              /\ legs[queue.agent].answer = queue.answered
<1> DEFINE e == Live!parse_event(f)
           key == Live!DispatchKey(f)
<1>1. f \in QueueFrames \/ \E l \in Legs : f \in LegFrames(l)
  BY DEF Frames
<1>2. Honest(f)
  BY <1>1, QueueFrame, EventsOfLeg DEF LegEvent
<1>3. e.kind = IF key \in DOMAIN Live!Fields THEN key ELSE "unknown"
  BY EventRead
<1>4. e.cc_member_session_uuid \in {<<>>, <<"member">>}
  <2>1. e.cc_member_session_uuid =
          Live!FirstOf(f, <<"CC-Member-Session-UUID", "variable_cc_member_session_uuid">>)
    BY IdentitiesRead
  <2> DEFINE h == "CC-Member-Session-UUID"
             k == "variable_cc_member_session_uuid"
  <2>2. Live!FirstOf(f, <<h, k>>) = IF h \in DOMAIN f /\ f[h] # "" THEN <<f[h]>>
                                    ELSE IF k \in DOMAIN f /\ f[k] # "" THEN <<f[k]>> ELSE <<>>
    BY FirstOfTwo
  <2>3. (h \in DOMAIN f => f[h] = "member") /\ (k \in DOMAIN f => f[k] = "member")
    BY <1>2 DEF Honest, Owners
  <2> HIDE DEF e
  <2> QED BY <2>1, <2>2, <2>3
<1>5. \A a \in Range(e.cc_agent_uuid) : a \in Agents /\ legs[a].start # 0
  <2>1. e.cc_agent_uuid = Live!FirstOf(f, <<"CC-Agent-UUID", "variable_cc_agent_uuid">>)
    BY IdentitiesRead
  <2>2. \/ e.cc_agent_uuid = <<>>
        \/ \E a : e.cc_agent_uuid = <<a>> /\ a \in Agents /\ legs[a].start # 0
    <3> DEFINE h == "CC-Agent-UUID"
               k == "variable_cc_agent_uuid"
    <3>1. Live!FirstOf(f, <<h, k>>) = IF h \in DOMAIN f /\ f[h] # "" THEN <<f[h]>>
                                      ELSE IF k \in DOMAIN f /\ f[k] # "" THEN <<f[k]>> ELSE <<>>
      BY FirstOfTwo
    <3>2. /\ h \in DOMAIN f /\ f[h] # "" => f[h] \in Agents /\ legs[f[h]].start # 0
          /\ k \in DOMAIN f /\ f[k] # "" => f[k] \in Agents /\ legs[f[k]].start # 0
      BY <1>2 DEF Honest, Callees
    <3> HIDE DEF e, h, k
    <3>3. e.cc_agent_uuid = Live!FirstOf(f, <<h, k>>)
      BY <2>1 DEF h, k
    <3> QED BY <3>1, <3>2, <3>3
  <2> HIDE DEF e
  <2> QED BY <2>2 DEF Range
<1>6. e.originating_leg_uuid = <<>>
  <2>1. e.originating_leg_uuid =
          Live!FirstOf(f, <<"variable_originating_leg_uuid", "Originating-Leg-UUID">>)
    BY IdentitiesRead
  <2> QED BY <1>2, <2>1, FirstOfTwo DEF Honest, Origins
<1>7. ASSUME e.kind = "CHANNEL_BRIDGE"
      PROVE  /\ e.bridge_a_unique_id \in {<<>>, <<"member">>}
             /\ e.bridge_b_unique_id \in {<<>>, <<queue.agent>>}
             /\ legs[queue.agent].answer = queue.answered
  <2>1. key = "CHANNEL_BRIDGE"
    BY <1>3, <1>7
  <2>2. PICK l \in Legs : f \in LegFrames(l)
    BY <1>1, <2>1, QueueFrame
  <2>3. /\ queue.answered # 0
        /\ "Bridge-A-Unique-ID" \in DOMAIN f /\ f["Bridge-A-Unique-ID"] = "member"
        /\ "Bridge-B-Unique-ID" \in DOMAIN f /\ f["Bridge-B-Unique-ID"] = queue.agent
    BY <2>1, <2>2, EventsOfLeg DEF LegEvent
  <2>4. e.bridge_a_unique_id = <<"member">> /\ e.bridge_b_unique_id = <<queue.agent>>
    BY <2>1, <2>3, BridgeRead DEF Live!Header
  <2>5. legs[queue.agent].answer = queue.answered
    BY <2>3 DEF CallInv, Offered
  <2> HIDE DEF e
  <2> QED BY <2>4, <2>5
<1> HIDE DEF e
<1> QED BY <1>4, <1>5, <1>6, <1>7 DEF e

-----------------------------------------------------------------------------
(* Where the columns of the properties stand in the template. *)
Places == [uuid |-> 11, duration |-> 8, billsec |-> 9, answer_stamp |-> 6,
           queue_joined_epoch |-> 22, queue_answered_epoch |-> 23,
           queue_terminated_epoch |-> 24, queue_canceled_epoch |-> 25]

(* A column has one place. *)
LEMMA ColumnPlaces ==
  /\ Len(Durable!CDR_UNIQUE_COLUMNS) = 27
  /\ \A c \in DOMAIN Places :
       /\ c \in Range(Durable!CDR_UNIQUE_COLUMNS)
       /\ Places[c] \in 1..27
       /\ \A j \in 1..27 : Durable!CDR_UNIQUE_COLUMNS[j] = c <=> j = Places[c]
<1> DEFINE cols == Durable!CDR_UNIQUE_COLUMNS
<1>1. Len(cols) = 27 /\ DOMAIN cols = 1..27
  BY DEF Durable!CDR_UNIQUE_COLUMNS
<1>2. ASSUME NEW j \in 1..27
      PROVE  /\ cols[j] = "uuid" <=> j = 11
             /\ cols[j] = "duration" <=> j = 8
             /\ cols[j] = "billsec" <=> j = 9
             /\ cols[j] = "answer_stamp" <=> j = 6
  BY DEF Durable!CDR_UNIQUE_COLUMNS
<1>3. ASSUME NEW j \in 1..27
      PROVE  /\ cols[j] = "queue_joined_epoch" <=> j = 22
             /\ cols[j] = "queue_answered_epoch" <=> j = 23
             /\ cols[j] = "queue_terminated_epoch" <=> j = 24
             /\ cols[j] = "queue_canceled_epoch" <=> j = 25
  BY DEF Durable!CDR_UNIQUE_COLUMNS
<1> HIDE DEF cols
<1>4. \A c \in DOMAIN Places :
        Places[c] \in 1..27 /\ \A j \in 1..27 : cols[j] = c <=> j = Places[c]
  BY <1>2, <1>3 DEF Places
<1>5. \A c \in DOMAIN Places : c \in Range(cols)
  BY <1>1, <1>4 DEF Range
<1> QED BY <1>1, <1>4, <1>5 DEF cols

(* The cell of a column, and what is made of it. *)
LEMMA FieldAt ==
  ASSUME NEW row, NEW c \in DOMAIN Places
  PROVE  Durable!Field(row, c) =
           IF Places[c] <= Len(row) THEN Durable!Stripped(row[Places[c]]) ELSE ""
<1> DEFINE i == CHOOSE k \in 1..Len(Durable!CDR_UNIQUE_COLUMNS) :
                  Durable!CDR_UNIQUE_COLUMNS[k] = c
<1>1. i = Places[c]
  BY ColumnPlaces
<1>2. Durable!Field(row, c) = IF i <= Len(row) THEN Durable!Stripped(row[i]) ELSE ""
  BY DEF Durable!Field
<1> HIDE DEF i
<1> QED BY <1>1, <1>2

(* The attributes of the properties, cell by cell. *)
LEMMA RecordRead ==
  ASSUME NEW row
  PROVE  LET r == Durable!parse_cdr_row(row) IN
         /\ r["answer_stamp"] = Durable!StampTime(Durable!Field(row, "answer_stamp"))
         /\ \A c \in {"duration", "billsec"} : r[c] = Durable!IntOrZero(Durable!Field(row, c))
         /\ \A c \in {"queue_joined_epoch", "queue_answered_epoch", "queue_terminated_epoch",
                      "queue_canceled_epoch"} :
              r[c] = Durable!EpochTime(Durable!Field(row, c))
<1> DEFINE r == Durable!parse_cdr_row(row)
<1>1. ASSUME NEW c \in DOMAIN Places
      PROVE  r[c] = LET text == Durable!Field(row, c) IN
                    CASE c \in Durable!Stamps -> Durable!StampTime(text)
                      [] c \in Durable!Epochs -> Durable!EpochTime(text)
                      [] c \in Durable!Counts -> Durable!IntOrZero(text)
                      [] c = "bleg_uuid" -> Durable!Optional(text)
                      [] OTHER -> text
  <2>1. c \in Durable!Range(Durable!CDR_UNIQUE_COLUMNS)
    BY ColumnPlaces DEF Range, Durable!Range
  <2> QED BY <2>1 DEF Durable!parse_cdr_row
<1> HIDE DEF r
<1>2. r["answer_stamp"] = Durable!StampTime(Durable!Field(row, "answer_stamp"))
  <2>1. "answer_stamp" \in DOMAIN Places
    BY DEF Places
  <2>2. "answer_stamp" \in Durable!Stamps /\ "answer_stamp" \notin Durable!Epochs
        /\ "answer_stamp" \notin Durable!Counts /\ "answer_stamp" # "bleg_uuid"
    BY DEF Durable!Stamps, Durable!Epochs, Durable!Counts
  <2> QED BY <1>1, <2>1, <2>2
<1>3. ASSUME NEW c \in {"duration", "billsec"}
      PROVE  r[c] = Durable!IntOrZero(Durable!Field(row, c))
  BY <1>1 DEF Places, Durable!Stamps, Durable!Epochs, Durable!Counts
<1>4. ASSUME NEW c \in {"queue_joined_epoch", "queue_answered_epoch", "queue_terminated_epoch",
                       "queue_canceled_epoch"}
      PROVE  r[c] = Durable!EpochTime(Durable!Field(row, c))
  <2>1. c \in DOMAIN Places
    BY DEF Places
  <2>2. c \notin Durable!Stamps /\ c \in Durable!Epochs /\ c \notin Durable!Counts
        /\ c # "bleg_uuid"
    BY DEF Durable!Stamps, Durable!Epochs, Durable!Counts
  <2> QED BY <1>1, <2>1, <2>2
<1> QED BY <1>2, <1>3, <1>4 DEF r

(* The first cells of a row of 27. *)
LEMMA FirstCells ==
  ASSUME NEW cells, Len(cells) = 27, DOMAIN cells = 1..27, cells = [i \in 1..27 |-> cells[i]],
         NEW width \in {14, 15, 27}
  PROVE  /\ Len(SubSeq(cells, 1, width)) = width
         /\ \A i \in 1..width : SubSeq(cells, 1, width)[i] = cells[i]
<1> DEFINE texts == {cells[i] : i \in 1..27}
<1>1. \A i \in 1..27 : cells[i] \in texts
  OBVIOUS
<1> HIDE DEF texts
<1>2. cells \in [1..27 -> texts]
  BY <1>1
<1>3. cells \in Seq(texts)
  BY <1>2, SeqDef
<1> QED BY <1>3, SubSeqProperties

(* A row has the width of its template. *)
LEMMA RowLength == \A l, unset : \A width \in {14, 15, 27} : Len(Row(l, width, unset)) = width
<1> TAKE l, unset
<1> TAKE width \in {14, 15, 27}
<1> DEFINE cols == Columns(l, unset)
<1>1. Len(cols) = 27 /\ DOMAIN cols = 1..27 /\ cols = [i \in 1..27 |-> cols[i]]
  BY DEF Columns
<1>2. Row(l, width, unset) = SubSeq(cols, 1, width)
  BY DEF Row
<1> HIDE DEF cols
<1>3. Len(SubSeq(cols, 1, width)) = width
  BY <1>1, FirstCells
<1> QED BY <1>2, <1>3

(* What a row has, it has from the columns. *)
LEMMA RowCells ==
  \A l, unset : \A width \in {14, 15, 27}, i \in 1..27 :
    i <= width => Row(l, width, unset)[i] = Columns(l, unset)[i]
<1> TAKE l, unset
<1> TAKE width \in {14, 15, 27}, i \in 1..27
<1> DEFINE cols == Columns(l, unset)
<1>1. Len(cols) = 27 /\ DOMAIN cols = 1..27 /\ cols = [k \in 1..27 |-> cols[k]]
  BY DEF Columns
<1>2. Row(l, width, unset) = SubSeq(cols, 1, width)
  BY DEF Row
<1> HIDE DEF cols
<1>3. \A k \in 1..width : SubSeq(cols, 1, width)[k] = cols[k]
  BY <1>1, FirstCells
<1>4. i <= width => i \in 1..width
  OBVIOUS
<1> QED BY <1>2, <1>3, <1>4 DEF cols

(* What is read of a time, set or not. *)
LEMMA EpochRead ==
  ASSUME NEW t \in Clock, NEW unset \in Unset
  PROVE  Durable!EpochTime(Durable!Stripped(Epoch(t, unset))) = IF t = 0 THEN <<>> ELSE <<t>>
<1>0. MaxTime \in Nat /\ 0 \in 0..MaxTime
  BY LastTime
<1>1. CASE t = 0
  <2>1. Stamp[0] # " "
    BY <1>0, TextAssumption
  <2>2. Durable!Stripped(unset) \in {"", "0", Stamp[0]}
    BY <2>1 DEF Unset, Durable!Stripped
  <2>3. Durable!IntOrZero(Durable!Stripped(unset)) = 0
    BY <2>2, OtherTexts
  <2> QED BY <1>1, <2>3 DEF Durable!EpochTime, Epoch
<1>2. CASE t # 0
  <2>1. t \in 0..MaxTime /\ t > 0
    BY <1>0, <1>2 DEF Clock
  <2>2. Text[t] # " "
    BY <2>1, TextAssumption
  <2>3. Durable!IntOrZero(Text[t]) = t
    BY <2>1, NumberRead
  <2>4. Epoch(t, unset) = Text[t] /\ Durable!Stripped(Text[t]) = Text[t]
    BY <1>2, <2>2 DEF Epoch, Durable!Stripped
  <2>5. Durable!EpochTime(Text[t]) = <<t>>
    BY <2>1, <2>3 DEF Durable!EpochTime
  <2> QED BY <1>2, <2>4, <2>5
<1> QED BY <1>1, <1>2

(* A time in local format, set or not. *)
LEMMA StampRead ==
  ASSUME NEW t \in Clock, NEW unset \in Unset
  PROVE  Durable!StampTime(Durable!Stripped(IF t = 0 THEN unset ELSE Stamp[t])) = <<>> <=> t = 0
<1>0. MaxTime \in Nat /\ 0 \in 0..MaxTime
  BY LastTime
<1>1. CASE t = 0
  <2>1. Stamp[0] # " "
    BY <1>0, TextAssumption
  <2>2. Durable!Stripped(unset) \in {"", "0", Stamp[0]}
    BY <2>1 DEF Unset, Durable!Stripped
  <2>3. ASSUME NEW text \in {"", "0", Stamp[0]}
        PROVE  {k \in DOMAIN Stamp : Stamp[k] = text} \subseteq {0}
    BY <1>0, TextAssumption
  <2>4. Durable!StampTime(Durable!Stripped(unset)) = <<>>
    BY <2>2, <2>3 DEF Durable!StampTime
  <2> QED BY <1>1, <2>4
<1>2. CASE t # 0
  <2>1. t \in 0..MaxTime
    BY DEF Clock
  <2>2. Stamp[t] # " " /\ t \in DOMAIN Stamp
    BY <2>1, TextAssumption
  <2>3. ~({k \in DOMAIN Stamp : Stamp[k] = Stamp[t]} \subseteq {0})
    BY <1>2, <2>2
  <2>4. Durable!Stripped(Stamp[t]) = Stamp[t]
    BY <2>2 DEF Durable!Stripped
  <2>5. Durable!StampTime(Stamp[t]) # <<>>
    BY <2>3 DEF Durable!StampTime
  <2> QED BY <1>2, <2>4, <2>5
<1> QED BY <1>1, <1>2

(* What the record of a leg that has ended tells. *)
LEMMA RecordTold ==
  ASSUME CallInv, NEW l \in Legs, NEW width \in {14, 15, 27}, NEW unset \in Unset,
         legs[l].end # 0
  PROVE  LET row == Row(l, width, unset)
             r == Durable!parse_cdr_row(row)
             Q(t) == IF t = 0 THEN <<>> ELSE <<t>> IN
         /\ Durable!Parses(row)
         /\ r["duration"] = Duration(l) /\ r["billsec"] = Billsec(l)
         /\ (r["answer_stamp"] # <<>>) <=> legs[l].answer # 0
         /\ width = 27 =>
              /\ r["queue_joined_epoch"] = Q(queue.joined)
              /\ r["queue_answered_epoch"] =
                   Q(IF AgentOf(l) = queue.agent THEN queue.answered ELSE 0)
              /\ r["queue_terminated_epoch"] =
                   Q(IF queue.cause = "terminated" THEN queue.left ELSE 0)
              /\ r["queue_canceled_epoch"] =
                   Q(IF queue.cause = "canceled" THEN queue.left ELSE 0)
<1> DEFINE row == Row(l, width, unset)
           r == Durable!parse_cdr_row(row)
           cols == Columns(l, unset)
           Q(t) == IF t = 0 THEN <<>> ELSE <<t>>
           F(c) == Durable!Field(row, c)
<1>1. /\ Len(row) = width
      /\ row[6] = cols[6] /\ row[8] = cols[8] /\ row[9] = cols[9] /\ row[11] = cols[11]
      /\ width = 27 =>
           /\ row[22] = cols[22] /\ row[23] = cols[23]
           /\ row[24] = cols[24] /\ row[25] = cols[25]
  <2>1. Len(row) = width
    BY RowLength
  <2>2. \A i \in 1..27 : i <= width => row[i] = cols[i]
    BY RowCells
  <2> HIDE DEF row, cols
  <2> QED BY <2>1, <2>2
<1>2. /\ cols[6] = IF legs[l].answer = 0 THEN unset ELSE Stamp[legs[l].answer]
      /\ cols[8] = Text[Duration(l)] /\ cols[9] = Text[Billsec(l)] /\ cols[11] = l
  BY DEF Columns
<1>3. /\ cols[22] = Epoch(queue.joined, unset)
      /\ cols[23] = Epoch(IF AgentOf(l) = queue.agent THEN queue.answered ELSE 0, unset)
      /\ cols[24] = Epoch(IF queue.cause = "terminated" THEN queue.left ELSE 0, unset)
      /\ cols[25] = Epoch(IF queue.cause = "canceled" THEN queue.left ELSE 0, unset)
  BY DEF Columns
<1>4. Duration(l) \in 0..MaxTime /\ Billsec(l) \in 0..MaxTime
  BY SecondsOfLeg
<1> HIDE DEF row, cols
<1>p. /\ Places["answer_stamp"] = 6 /\ Places["duration"] = 8 /\ Places["billsec"] = 9
      /\ Places["uuid"] = 11 /\ Places["queue_joined_epoch"] = 22
      /\ Places["queue_answered_epoch"] = 23 /\ Places["queue_terminated_epoch"] = 24
      /\ Places["queue_canceled_epoch"] = 25
      /\ DOMAIN Places = {"answer_stamp", "duration", "billsec", "uuid", "queue_joined_epoch",
            "queue_answered_epoch", "queue_terminated_epoch", "queue_canceled_epoch"}
  BY DEF Places
<1>l. 6 <= Len(row) /\ 8 <= Len(row) /\ 9 <= Len(row) /\ 11 <= Len(row) /\ 14 <= Len(row)
      /\ (width = 27 => 22 <= Len(row) /\ 23 <= Len(row) /\ 24 <= Len(row) /\ 25 <= Len(row))
  BY <1>1
<1>5. \A c \in DOMAIN Places :
        F(c) = IF Places[c] <= Len(row) THEN Durable!Stripped(row[Places[c]]) ELSE ""
  BY FieldAt
<1>6. /\ F("answer_stamp") = Durable!Stripped(cols[6])
      /\ F("duration") = Durable!Stripped(cols[8])
      /\ F("billsec") = Durable!Stripped(cols[9])
      /\ F("uuid") = Durable!Stripped(cols[11])
  <2> HIDE DEF F
  <2>1. /\ F("answer_stamp") = Durable!Stripped(row[6])
        /\ F("duration") = Durable!Stripped(row[8])
        /\ F("billsec") = Durable!Stripped(row[9])
        /\ F("uuid") = Durable!Stripped(row[11])
    BY <1>5, <1>p, <1>l, ZenonT(30)
  <2> QED BY <1>1, <2>1
<1>7. width = 27 =>
        /\ F("queue_joined_epoch") = Durable!Stripped(cols[22])
        /\ F("queue_answered_epoch") = Durable!Stripped(cols[23])
        /\ F("queue_terminated_epoch") = Durable!Stripped(cols[24])
        /\ F("queue_canceled_epoch") = Durable!Stripped(cols[25])
  <2> HIDE DEF F
  <2>1. width = 27 =>
          /\ F("queue_joined_epoch") = Durable!Stripped(row[22])
          /\ F("queue_answered_epoch") = Durable!Stripped(row[23])
          /\ F("queue_terminated_epoch") = Durable!Stripped(row[24])
          /\ F("queue_canceled_epoch") = Durable!Stripped(row[25])
    <3> SUFFICES ASSUME width = 27
                 PROVE  /\ F("queue_joined_epoch") = Durable!Stripped(row[22])
                        /\ F("queue_answered_epoch") = Durable!Stripped(row[23])
                        /\ F("queue_terminated_epoch") = Durable!Stripped(row[24])
                        /\ F("queue_canceled_epoch") = Durable!Stripped(row[25])
      OBVIOUS
    <3>1. 22 <= Len(row) /\ 23 <= Len(row) /\ 24 <= Len(row) /\ 25 <= Len(row)
      BY <1>l
    <3>2. F("queue_joined_epoch") = Durable!Stripped(row[22])
      BY <3>1, <1>5, <1>p, ZenonT(30)
    <3>3. F("queue_answered_epoch") = Durable!Stripped(row[23])
      BY <3>1, <1>5, <1>p, ZenonT(30)
    <3>4. F("queue_terminated_epoch") = Durable!Stripped(row[24])
      BY <3>1, <1>5, <1>p, ZenonT(30)
    <3>5. F("queue_canceled_epoch") = Durable!Stripped(row[25])
      BY <3>1, <1>5, <1>p, ZenonT(30)
    <3> QED BY <3>2, <3>3, <3>4, <3>5
  <2> QED BY <1>1, <2>1
<1>8. Durable!Parses(row)
  <2>1. l # "" /\ l # " "
    BY StoryAssumption DEF Legs
  <2>2. Durable!Field(row, "uuid") = l
    BY <1>2, <1>6, <2>1 DEF Durable!Stripped
  <2> QED BY <1>l, <2>1, <2>2 DEF Durable!Parses, Durable!CDR_REQUIRED_COLUMNS
<1>9. r["duration"] = Duration(l) /\ r["billsec"] = Billsec(l)
  <2>1. \A k \in 0..MaxTime : Durable!Stripped(Text[k]) = Text[k]
    BY TextAssumption DEF Durable!Stripped
  <2>2. /\ r["duration"] = Durable!IntOrZero(F("duration"))
        /\ r["billsec"] = Durable!IntOrZero(F("billsec"))
    BY RecordRead
  <2> HIDE DEF r, F
  <2> QED BY <1>2, <1>4, <1>6, <2>1, <2>2, NumberRead
<1>10. (r["answer_stamp"] # <<>>) <=> legs[l].answer # 0
  <2>1. r["answer_stamp"] = Durable!StampTime(F("answer_stamp"))
    BY RecordRead
  <2>2. legs[l].answer \in Clock
    BY DEF CallInv, LegsTyped
  <2> HIDE DEF r, F
  <2> QED BY <1>2, <1>6, <2>1, <2>2, StampRead
<1>11. ASSUME width = 27
       PROVE  /\ r["queue_joined_epoch"] = Q(queue.joined)
              /\ r["queue_answered_epoch"] =
                   Q(IF AgentOf(l) = queue.agent THEN queue.answered ELSE 0)
              /\ r["queue_terminated_epoch"] =
                   Q(IF queue.cause = "terminated" THEN queue.left ELSE 0)
              /\ r["queue_canceled_epoch"] =
                   Q(IF queue.cause = "canceled" THEN queue.left ELSE 0)
  <2>1. \A c \in {"queue_joined_epoch", "queue_answered_epoch", "queue_terminated_epoch",
                  "queue_canceled_epoch"} : r[c] = Durable!EpochTime(F(c))
    BY RecordRead
  <2>2. queue.joined \in Clock /\ queue.answered \in Clock /\ queue.left \in Clock /\ 0 \in Clock
    <3>1. 0 \in Clock
      BY LastTime DEF Clock
    <3> QED BY <3>1 DEF CallInv, QueueTyped
  <2>3. \A t \in Clock : Durable!EpochTime(Durable!Stripped(Epoch(t, unset))) = Q(t)
    BY EpochRead
  <2> HIDE DEF r, F, Q
  <2>4. /\ r["queue_joined_epoch"] = Q(queue.joined)
        /\ r["queue_answered_epoch"] = Q(IF AgentOf(l) = queue.agent THEN queue.answered ELSE 0)
    BY <1>3, <1>7, <1>11, <2>1, <2>2, <2>3
  <2>5. /\ r["queue_terminated_epoch"] = Q(IF queue.cause = "terminated" THEN queue.left ELSE 0)
        /\ r["queue_canceled_epoch"] = Q(IF queue.cause = "canceled" THEN queue.left ELSE 0)
    BY <1>3, <1>7, <1>11, <2>1, <2>2, <2>3
  <2> QED BY <2>4, <2>5
<1> HIDE DEF r
<1> QED BY <1>8, <1>9, <1>10, <1>11 DEF row, r

-----------------------------------------------------------------------------
(* The invariant holds of every state. *)
LEMMA InvariantHolds == Spec => []StoryInv
<1>1. Init => StoryInv
  BY CallStart DEF StoryInv, ToldRightly, Init
<1>2. StoryInv /\ [Next]_vars => StoryInv'
  BY CallStep, StoryStep DEF StoryInv
<1> QED BY <1>1, <1>2, PTL DEF Spec

(* Whatever is told live agrees with what is recorded: the join time and    *)
(* the seconds of a leg (LiveAndDurableAgree of the story run).             *)
THEOREM LiveAndDurableAgreeAlways == Spec => []LiveAndDurableAgree
<1>1. StoryInv => LiveAndDurableAgree
  <2> SUFFICES ASSUME StoryInv PROVE LiveAndDurableAgree
    OBVIOUS
  <2>1. CASE told = NothingTold
    BY <2>1 DEF LiveAndDurableAgree, Event, Record, NothingTold
  <2>2. ASSUME NEW f \in Frames, told = EventOf(f) PROVE LiveAndDurableAgree
    <3> DEFINE e == Live!parse_event(f)
    <3>1. told.by = "event" /\ told.typed = e
      BY <2>2 DEF EventOf
    <3>2. /\ e.kind = "callcenter::info" => e.cc_member_joined_time = <<queue.joined>>
          /\ e.kind = "CHANNEL_HANGUP_COMPLETE" =>
               /\ e.duration = <<Duration(e.unique_id[1])>>
               /\ e.billsec \in {<<>>, <<Billsec(e.unique_id[1])>>}
      BY EventsAgree DEF StoryInv
    <3> HIDE DEF e
    <3> QED BY <3>1, <3>2 DEF LiveAndDurableAgree, Event, Record, Says
  <2>3. ASSUME NEW l \in Legs, NEW width \in {14, 15, 27}, NEW unset \in Unset,
               legs[l].end # 0, width = 27 => queue.left # 0,
               told = RecordOf(l, Row(l, width, unset))
        PROVE  LiveAndDurableAgree
    <3> DEFINE row == Row(l, width, unset)
               r == Durable!parse_cdr_row(row)
    <3>1. /\ Durable!Parses(row)
          /\ r["duration"] = Duration(l) /\ r["billsec"] = Billsec(l)
          /\ width = 27 => r["queue_joined_epoch"] = IF queue.joined = 0 THEN <<>> ELSE <<queue.joined>>
      BY <2>3, RecordTold DEF StoryInv
    <3>2. Len(row) = width
      BY RowLength
    <3>3. width = 27 => queue.joined # 0
      BY <2>3 DEF StoryInv, CallInv, Over
    <3> HIDE DEF row, r
    <3>4. told.by = "record" /\ told.leg = l /\ told.width = width /\ told.typed = r
      BY <2>3, <3>1, <3>2 DEF RecordOf, row, r
    <3> QED BY <3>1, <3>3, <3>4 DEF LiveAndDurableAgree, Event, Record
  <2> QED BY <2>1, <2>2, <2>3 DEF StoryInv, ToldRightly
<1> QED BY <1>1, InvariantHolds, PTL

(* Whatever is told live keeps its role: no event gives an identity that is *)
(* not the member's, a called agent's or the bridge's (IdentitiesKeepTheir- *)
(* Roles of the story run).                                                 *)
THEOREM IdentitiesAlwaysKeepTheirRoles == Spec => []IdentitiesKeepTheirRoles
<1>1. StoryInv => IdentitiesKeepTheirRoles
  <2> SUFFICES ASSUME StoryInv PROVE IdentitiesKeepTheirRoles
    OBVIOUS
  <2>1. CASE told = NothingTold
    BY <2>1 DEF IdentitiesKeepTheirRoles, Event, NothingTold
  <2>2. ASSUME NEW f \in Frames, told = EventOf(f) PROVE IdentitiesKeepTheirRoles
    <3> DEFINE e == Live!parse_event(f)
    <3>1. told.typed = e
      BY <2>2 DEF EventOf
    <3>2. /\ e.cc_member_session_uuid \in {<<>>, <<"member">>}
          /\ \A a \in Range(e.cc_agent_uuid) : a \in Agents /\ legs[a].start # 0
          /\ e.originating_leg_uuid = <<>>
          /\ e.kind = "CHANNEL_BRIDGE" =>
               /\ e.bridge_a_unique_id \in {<<>>, <<"member">>}
               /\ e.bridge_b_unique_id \in {<<>>, <<queue.agent>>}
               /\ legs[queue.agent].answer = queue.answered
      BY EventsKeepRoles DEF StoryInv
    <3> HIDE DEF e
    <3> QED BY <3>1, <3>2 DEF IdentitiesKeepTheirRoles, Says
  <2>3. ASSUME NEW l, NEW row, told = RecordOf(l, row) PROVE IdentitiesKeepTheirRoles
    BY <2>3 DEF IdentitiesKeepTheirRoles, Event, RecordOf
  <2> QED BY <2>1, <2>2, <2>3 DEF StoryInv, ToldRightly
<1> QED BY <1>1, InvariantHolds, PTL

(* Every row parses, and its record tells which leg was answered and how    *)
(* the call left the queue (RecordTellsOutcome of the story run).           *)
THEOREM RecordAlwaysTellsOutcome == Spec => []RecordTellsOutcome
<1>1. StoryInv => RecordTellsOutcome
  <2> SUFFICES ASSUME StoryInv PROVE RecordTellsOutcome
    OBVIOUS
  <2>1. CASE told = NothingTold
    BY <2>1 DEF RecordTellsOutcome, Record, NothingTold
  <2>2. ASSUME NEW f, told = EventOf(f) PROVE RecordTellsOutcome
    BY <2>2 DEF RecordTellsOutcome, Record, EventOf
  <2>3. ASSUME NEW l \in Legs, NEW width \in {14, 15, 27}, NEW unset \in Unset,
               legs[l].end # 0, width = 27 => queue.left # 0,
               told = RecordOf(l, Row(l, width, unset))
        PROVE  RecordTellsOutcome
    <3> DEFINE row == Row(l, width, unset)
               r == Durable!parse_cdr_row(row)
               Q(t) == IF t = 0 THEN <<>> ELSE <<t>>
    <3>1. /\ Durable!Parses(row)
          /\ r["billsec"] = Billsec(l)
          /\ (r["answer_stamp"] # <<>>) <=> legs[l].answer # 0
          /\ width = 27 =>
               /\ r["queue_answered_epoch"] =
                    Q(IF AgentOf(l) = queue.agent THEN queue.answered ELSE 0)
               /\ r["queue_terminated_epoch"] =
                    Q(IF queue.cause = "terminated" THEN queue.left ELSE 0)
               /\ r["queue_canceled_epoch"] =
                    Q(IF queue.cause = "canceled" THEN queue.left ELSE 0)
      BY <2>3, RecordTold DEF StoryInv
    <3>2. Len(row) = width
      BY RowLength
    <3>3. width = 27 =>
            queue.left # 0
            /\ queue.cause = IF queue.answered # 0 THEN "terminated" ELSE "canceled"
      BY <2>3 DEF StoryInv, CallInv, Over
    <3>4. Billsec(l) \in 0..MaxTime /\ (legs[l].answer = 0 => Billsec(l) = 0)
      BY <2>3, SecondsOfLeg DEF StoryInv
    <3>5. AgentOf(l) = queue.agent <=> l \in {"member", queue.agent}
      BY DEF AgentOf
    <3>6. \A t : Q(t) = <<>> <=> t = 0
      OBVIOUS
    <3> HIDE DEF row, r, Q
    <3>7. told.by = "record" /\ told.leg = l /\ told.width = width /\ told.typed = r
      BY <2>3, <3>1, <3>2 DEF RecordOf, row, r
    <3>8. told.parses
      BY <2>3, <3>1 DEF RecordOf, row
    <3>9. Durable!Answered(r) <=> Billsec(l) > 0
      <4>1. Billsec(l) > 0 => legs[l].answer # 0
        BY <3>4
      <4> QED BY <3>1, <4>1 DEF Durable!Answered
    <3>10. ASSUME width = 27
           PROVE  /\ (r["queue_terminated_epoch"] = <<>>) <=> queue.answered = 0
                  /\ (r["queue_canceled_epoch"] = <<>>) <=> queue.answered # 0
                  /\ (r["queue_answered_epoch"] # <<>>) <=>
                       l \in {"member", queue.agent} /\ queue.answered # 0
      BY <3>1, <3>3, <3>5, <3>6, <3>10
    <3> QED BY <3>1, <3>7, <3>8, <3>9, <3>10 DEF RecordTellsOutcome, Record
  <2> QED BY <2>1, <2>2, <2>3 DEF StoryInv, ToldRightly
<1> QED BY <1>1, InvariantHolds, PTL
=============================================================================
