----------------------------- MODULE CallStory ------------------------------
(***************************************************************************)
(* One call to a queue, told twice: live by the events of the switch, read *)
(* by parse_event, and after the end of each leg by its call detail        *)
(* record, read by parse_cdr_row.  The switch keeps what happened; both    *)
(* readers are stateless, so what a consumer puts together is right when   *)
(* each telling is.                                                        *)
(*                                                                         *)
(* A time is a positive number, 0 is a time that did not come.             *)
(***************************************************************************)
EXTENDS Integers, Sequences, Functions, FrameParts

CONSTANTS
  Agents,    \* the legs of agents the call may be offered to
  MaxTime,   \* bound: how long the story lasts
  Text,      \* the decimal texts of the numbers of the story
  Stamp      \* the times of the story, as the switch renders them

(* The identity of a leg is a UUID. *)
ASSUME StoryAssumption == Agents \cap {"member", "", " "} = {} /\ MaxTime \in Nat \ {0}

(* Different numbers and times have different texts, none of them blank, and *)
(* of the numbers only 0 is written "0".                                     *)
ASSUME TextAssumption ==
  /\ DOMAIN Text = 0..MaxTime /\ DOMAIN Stamp = 0..MaxTime
  /\ \A i, j \in 0..MaxTime :
       /\ Text[i] = Text[j] => i = j
       /\ Stamp[i] = Stamp[j] => i = j
       /\ Text[i] # Stamp[j]
  /\ \A i \in 0..MaxTime :
       /\ Text[i] \notin {"", " "} /\ Stamp[i] \notin {"", " ", "0"}
       /\ Text[i] = "0" <=> i = 0

VARIABLES
  now,
  legs,      \* when each leg started, was answered and ended
  queue,     \* when the call joined and left the queue, who answered and when
  told       \* what the client made of the last frame or row

vars == <<now, legs, queue, told>>

Live == INSTANCE TypedEvents
Durable == INSTANCE CallRecords

Legs == {"member"} \cup Agents
Up(l) == legs[l].start # 0 /\ legs[l].end = 0
NothingTold == [by |-> "nobody"]

-----------------------------------------------------------------------------
(* The switch: the call comes in, joins the queue, is offered to one agent  *)
(* after another, and ends.                                                 *)
Init ==
  /\ now = 1
  /\ legs = [l \in Legs |-> [start |-> 0, answer |-> 0, end |-> 0]]
  /\ queue = [joined |-> 0, agent |-> "", answered |-> 0, left |-> 0, cause |-> ""]
  /\ told = NothingTold

Happens == told' = NothingTold /\ UNCHANGED now

Arrive ==
  /\ legs["member"].start = 0
  /\ legs' = [legs EXCEPT !["member"].start = now]
  /\ Happens /\ UNCHANGED queue

AnswerMember ==
  /\ Up("member") /\ legs["member"].answer = 0
  /\ legs' = [legs EXCEPT !["member"].answer = now]
  /\ Happens /\ UNCHANGED queue

Join ==
  /\ Up("member") /\ legs["member"].answer # 0 /\ queue.joined = 0
  /\ queue' = [queue EXCEPT !.joined = now]
  /\ Happens /\ UNCHANGED legs

Offer(a) ==
  /\ Up("member") /\ queue.joined # 0 /\ queue.agent = "" /\ legs[a].start = 0
  /\ legs' = [legs EXCEPT ![a].start = now]
  /\ queue' = [queue EXCEPT !.agent = a]
  /\ Happens

AnswerAgent(a) ==
  /\ Up(a) /\ queue.agent = a /\ queue.answered = 0
  /\ legs' = [legs EXCEPT ![a].answer = now]
  /\ queue' = [queue EXCEPT !.answered = now]
  /\ Happens

Decline(a) ==
  /\ Up(a) /\ queue.agent = a /\ queue.answered = 0
  /\ legs' = [legs EXCEPT ![a].end = now]
  /\ queue' = [queue EXCEPT !.agent = ""]
  /\ Happens

(* With the member, the agent's leg ends.                                   *)
End ==
  /\ Up("member")
  /\ legs' = [l \in Legs |-> IF Up(l) THEN [legs[l] EXCEPT !.end = now] ELSE legs[l]]
  /\ queue' = IF queue.joined = 0 THEN queue ELSE
       [queue EXCEPT !.left = now,
                     !.cause = IF queue.answered # 0 THEN "terminated" ELSE "canceled"]
  /\ Happens

Tick == now < MaxTime /\ now' = now + 1 /\ told' = NothingTold /\ UNCHANGED <<legs, queue>>

Switch ==
  \/ Arrive \/ AnswerMember \/ Join \/ End \/ Tick
  \/ \E a \in Agents : Offer(a) \/ AnswerAgent(a) \/ Decline(a)

-----------------------------------------------------------------------------
(* What the switch writes of it.                                            *)
Epoch(t, unset) == IF t = 0 THEN unset ELSE Text[t]
Duration(l) == legs[l].end - legs[l].start
Billsec(l) == IF legs[l].answer = 0 THEN 0 ELSE legs[l].end - legs[l].answer

(* The agent whose leg a frame or row of leg l tells of. *)
AgentOf(l) == IF l = "member" THEN queue.agent ELSE l

(* Variables mod_callcenter sets on the legs of a queued call. *)
QueueVariables(l) ==
  IF queue.joined = 0 THEN <<>>
  ELSE "variable_cc_queue" :> "help" @@ "variable_cc_member_session_uuid" :> "member"
       @@ "variable_cc_queue_joined_epoch" :> Text[queue.joined]
       @@ (IF AgentOf(l) = "" THEN <<>> ELSE "variable_cc_agent_uuid" :> AgentOf(l))

Channel(l) == "Unique-ID" :> l @@ "Channel-Name" :> "sofia" @@ QueueVariables(l)

(* The lifecycle of a leg; also the core's noise about it. *)
LegFrames(l) ==
  (IF legs[l].start = 0 THEN {} ELSE
     {"Event-Name" :> "CHANNEL_CREATE" @@ Channel(l), "Event-Name" :> "PRESENCE_IN" @@ Channel(l)})
  \cup (IF legs[l].answer = 0 THEN {} ELSE {"Event-Name" :> "CHANNEL_ANSWER" @@ Channel(l)})
  \cup (IF queue.answered = 0 \/ l # "member" THEN {} ELSE
     {"Event-Name" :> "CHANNEL_BRIDGE" @@ "Other-Leg-Unique-ID" :> queue.agent
      @@ "Bridge-A-Unique-ID" :> l @@ "Bridge-B-Unique-ID" :> queue.agent @@ Channel(l)})
  \cup (IF legs[l].end = 0 THEN {} ELSE
     {"Event-Name" :> "CHANNEL_HANGUP_COMPLETE" @@ "Hangup-Cause" :> "NORMAL_CLEARING"
      @@ "variable_duration" :> Text[Duration(l)]
      @@ "variable_billsec" :> b @@ Channel(l) :
        b \in IF legs[l].answer = 0 THEN {"", "0"} ELSE {Text[Billsec(l)]}})

(* mod_callcenter's own events carry the identities and times as headers,   *)
(* as variables of the member's channel, or as both.                        *)
QueueHeaders ==
  "CC-Queue" :> "help" @@ "CC-Member-Session-UUID" :> "member"
  @@ "CC-Member-Joined-Time" :> Text[queue.joined]
  @@ "CC-Agent-UUID" :> queue.agent

QueueFrames ==
  IF queue.joined = 0 THEN {}
  ELSE {"Event-Name" :> "CUSTOM" @@ "Event-Subclass" :> "callcenter::info"
        @@ "CC-Action" :> act @@ shown :
          act \in {"member-queue-start"} \cup (IF queue.left = 0 THEN {} ELSE {"member-queue-end"}),
          shown \in {QueueHeaders, Channel("member"), QueueHeaders @@ Channel("member")}}

(* A row of leg l by the template of the day: 14 columns, with the          *)
(* recording, or with the queue's columns.                                  *)
Columns(l, unset) == <<
  "1799", "", "99", "intercom",
  Stamp[legs[l].start], IF legs[l].answer = 0 THEN unset ELSE Stamp[legs[l].answer],
  Stamp[legs[l].end], Text[Duration(l)], Text[Billsec(l)], "NORMAL_CLEARING",
  l, IF queue.answered # 0 /\ l = queue.agent THEN "member" ELSE "", "1799", "99", "",
  IF l = "member" THEN "member" ELSE "agent", "help", "", AgentOf(l), "", "member",
  Epoch(queue.joined, unset), Epoch(IF AgentOf(l) = queue.agent THEN queue.answered ELSE 0, unset),
  Epoch(IF queue.cause = "terminated" THEN queue.left ELSE 0, unset),
  Epoch(IF queue.cause = "canceled" THEN queue.left ELSE 0, unset), queue.cause, "" >>

-----------------------------------------------------------------------------
Frames == QueueFrames \cup UNION {LegFrames(l) : l \in Legs}
Row(l, width, unset) == SubSeq(Columns(l, unset), 1, width)

(* What the client makes of a frame, and of a row of leg l.                 *)
EventOf(frame) == [by |-> "event", typed |-> Live!parse_event(frame)]
RecordOf(l, row) ==
  [by |-> "record", leg |-> l, width |-> Len(row), parses |-> Durable!Parses(row),
   typed |-> IF Durable!Parses(row) THEN Durable!parse_cdr_row(row) ELSE <<>>]

(* listen: any frame the switch may have sent, early or late.               *)
Report ==
  /\ told = NothingTold
  /\ \E frame \in Frames : told' = EventOf(frame)
  /\ UNCHANGED <<now, legs, queue>>

(* cdr_csv writes the row when the leg has ended; it has the queue's        *)
(* columns when the call has been in the queue.                             *)
Write ==
  /\ told = NothingTold
  /\ \E l \in Legs, width \in {14, 15, 27}, unset \in {"", " ", "0", Stamp[0]} :
       /\ legs[l].end # 0
       /\ width = 27 => queue.left # 0
       /\ told' = RecordOf(l, Row(l, width, unset))
  /\ UNCHANGED <<now, legs, queue>>

(* The consumer is done with it.                                            *)
Handled == told # NothingTold /\ told' = NothingTold /\ UNCHANGED <<now, legs, queue>>

Next == Switch \/ Report \/ Write \/ Handled

Spec == Init /\ [][Next]_vars
-----------------------------------------------------------------------------
Event == told.by = "event"
Record == told.by = "record"
Says(attribute, value) == told.typed[attribute] \in {<<>>, <<value>>}

(* The join time is the identity by which a consumer matches live events    *)
(* with records (esl_parser.py 159-165): every event of mod_callcenter,     *)
(* whichever spelling it uses, and every record of a queued call tell the   *)
(* same one; and the seconds a hangup event tells are those of the record.  *)
LiveAndDurableAgree ==
  /\ Event /\ told.typed.kind = "callcenter::info" =>
       told.typed.cc_member_joined_time = <<queue.joined>>
  /\ Event /\ told.typed.kind = "CHANNEL_HANGUP_COMPLETE" =>
       LET l == told.typed.unique_id[1] IN
       told.typed.duration = <<Duration(l)>> /\ Says("billsec", Billsec(l))
  /\ Record =>
       /\ told.width = 27 => told.typed["queue_joined_epoch"] = <<queue.joined>>
       /\ told.typed["duration"] = Duration(told.leg) /\ told.typed["billsec"] = Billsec(told.leg)

(* An identity is told in its own role or not at all ("never fabricated",   *)
(* esl_parser.py 10-11): the member's session is the member's leg, an       *)
(* agent's leg is an agent's that the call was offered to, and a bridge     *)
(* joins these two.                                                         *)
IdentitiesKeepTheirRoles ==
  Event =>
    /\ Says("cc_member_session_uuid", "member")
    /\ \A a \in Range(told.typed.cc_agent_uuid) : a \in Agents /\ legs[a].start # 0
    /\ told.typed.originating_leg_uuid = <<>>
    /\ told.typed.kind = "CHANNEL_BRIDGE" =>
         /\ Says("bridge_a_unique_id", "member") /\ Says("bridge_b_unique_id", queue.agent)
         /\ legs[queue.agent].answer = queue.answered

(* Every row is read, whatever template wrote it, and tells the outcome:    *)
(* which queue times came at all, one of terminated and canceled, and       *)
(* whether the leg was answered, for which a call ended within its first    *)
(* second does not count.                                                   *)
RecordTellsOutcome ==
  Record =>
    /\ told.parses
    /\ (told.typed["answer_stamp"] # <<>>) <=> legs[told.leg].answer # 0
    /\ Durable!Answered(told.typed) <=> Billsec(told.leg) > 0
    /\ told.width = 27 =>
         /\ (told.typed["queue_terminated_epoch"] = <<>>) <=> queue.answered = 0
         /\ (told.typed["queue_canceled_epoch"] = <<>>) <=> queue.answered # 0
         /\ (told.typed["queue_answered_epoch"] # <<>>) <=> told.leg \in {"member", queue.agent} /\ queue.answered # 0
=============================================================================
