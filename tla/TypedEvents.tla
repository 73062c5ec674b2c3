---------------------------- MODULE TypedEvents -----------------------------
(***************************************************************************)
(* parse_event (clients/esl_parser.py) and the event models                *)
(* (models/events.py): one decoded frame, a function from header names to  *)
(* texts, becomes one typed event.                                         *)
(*                                                                         *)
(* An optional value is a sequence of at most one value.                   *)
(***************************************************************************)
EXTENDS Integers, Sequences, FrameParts

CONSTANT Text   \* the texts of the numbers that occur in frames

None == <<>>
Header(frame, h) == IF h \in DOMAIN frame THEN <<frame[h]>> ELSE None

(* int(text), for a text that is a number. *)
IntOf(text) ==
  LET n == {k \in DOMAIN Text : Text[k] = text}
  IN  IF n = {} THEN None ELSE <<CHOOSE k \in n : TRUE>>

(* The places in headers of those that are there and not empty.             *)
Given(frame, headers) ==
  {i \in DOMAIN headers : headers[i] \in DOMAIN frame /\ frame[headers[i]] # ""}

(* Fault: an identity nobody gave is made up from the channel's own. *)
FirstOfInvents(frame, headers) ==
  LET given == Given(frame, headers)
  IN  IF given = {} THEN Header(frame, "Unique-ID")
      ELSE <<frame[headers[CHOOSE i \in given : \A j \in given : i <= j]]>>

(* frame.get(h1) or frame.get(h2) or None *)
FirstOf(frame, headers) ==
  LET given == Given(frame, headers)
  IN  IF given = {} THEN None
      ELSE <<frame[headers[CHOOSE i \in given : \A j \in given : i <= j]]>>

(* The attributes of every event, by the headers they may come from.        *)
Base == [
  unique_id |-> <<"Unique-ID">>,
  call_uuid |-> <<"Channel-Call-UUID">>,
  variable_uuid |-> <<"variable_uuid">>,
  variable_call_uuid |-> <<"variable_call_uuid">>,
  channel_name |-> <<"Channel-Name">>,
  originating_leg_uuid |-> <<"variable_originating_leg_uuid", "Originating-Leg-UUID">>,
  signal_bond |-> <<"variable_signal_bond">>,
  other_loopback_leg_uuid |-> <<"variable_other_loopback_leg_uuid">>,
  loopback_leg |-> <<"variable_loopback_leg">>,
  sip_call_id |-> <<"variable_sip_call_id">>,
  origination_uuid |-> <<"variable_origination_uuid">>,
  cc_queue |-> <<"CC-Queue", "variable_cc_queue">>,
  cc_agent |-> <<"CC-Agent", "variable_cc_agent">>,
  cc_member_uuid |-> <<"CC-Member-UUID", "variable_cc_member_uuid">>,
  cc_member_session_uuid |-> <<"CC-Member-Session-UUID", "variable_cc_member_session_uuid">>,
  cc_agent_uuid |-> <<"CC-Agent-UUID", "variable_cc_agent_uuid">> ]

(* _FIELD_MAP: what each kind of event has besides, texts and integers.     *)
Fields == [
  CHANNEL_CREATE |-> [
    direction |-> "Call-Direction", caller_id_number |-> "Caller-Caller-ID-Number",
    caller_id_name |-> "Caller-Caller-ID-Name",
    destination_number |-> "Caller-Destination-Number", context |-> "Caller-Context"],
  CHANNEL_ANSWER |-> [
    answer_state |-> "Answer-State", caller_id_number |-> "Caller-Caller-ID-Number",
    destination_number |-> "Caller-Destination-Number"],
  CHANNEL_BRIDGE |-> [
    other_leg_unique_id |-> "Other-Leg-Unique-ID",
    bridge_a_unique_id |-> "Bridge-A-Unique-ID", bridge_b_unique_id |-> "Bridge-B-Unique-ID"],
  CHANNEL_HANGUP_COMPLETE |-> [
    hangup_cause |-> "Hangup-Cause", duration |-> "variable_duration",
    billsec |-> "variable_billsec", sip_from_user |-> "variable_sip_from_user",
    sip_to_user |-> "variable_sip_to_user"] ]
  @@ "callcenter::info" :> [
    cc_action |-> "CC-Action", cc_cause |-> "CC-Cause",
    cc_agent_called_time |-> "CC-Agent-Called-Time",
    cc_agent_answered_time |-> "CC-Agent-Answered-Time",
    cc_agent_aborted_time |-> "CC-Agent-Aborted-Time",
    cc_member_joined_time |-> "CC-Member-Joined-Time",
    cc_member_leaving_time |-> "CC-Member-Leaving-Time",
    cc_bridge_terminated_time |-> "CC-Bridge-Terminated-Time"]

IntAttrs ==
  {"duration", "billsec", "cc_agent_called_time", "cc_agent_answered_time",
   "cc_agent_aborted_time", "cc_member_joined_time", "cc_member_leaving_time",
   "cc_bridge_terminated_time"}

(* _dispatch_key *)
DispatchKey(frame) ==
  LET name == IF "Event-Name" \in DOMAIN frame THEN frame["Event-Name"] ELSE ""
  IN  IF name = "CUSTOM" /\ "Event-Subclass" \in DOMAIN frame
      THEN frame["Event-Subclass"] ELSE name

(* Fault: the join time has one spelling. *)
ValueOneSpelling(frame, attr, h) == Header(frame, h)

(* The join time has two: the channel variable counts when the header is    *)
(* not there at all.                                                        *)
ValueOf(frame, attr, h) ==
  IF attr = "cc_member_joined_time" /\ h \notin DOMAIN frame
  THEN Header(frame, "variable_cc_queue_joined_epoch") ELSE Header(frame, h)

Coerced(attr, value) ==
  IF attr \in IntAttrs /\ value # None THEN IntOf(value[1]) ELSE value

(* The kind is the key of Fields the frame was read by, or "unknown".       *)
parse_event(frame) ==
  LET key == DispatchKey(frame)
      base == [a \in DOMAIN Base |-> FirstOf(frame, Base[a])]
  IN  IF key \notin DOMAIN Fields THEN [kind |-> "unknown", raw |-> frame] @@ base
      ELSE [kind |-> key, raw |-> frame] @@ base @@
           [a \in DOMAIN Fields[key] |-> Coerced(a, ValueOf(frame, a, Fields[key][a]))]
=============================================================================
