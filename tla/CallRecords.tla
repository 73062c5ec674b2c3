---------------------------- MODULE CallRecords -----------------------------
(***************************************************************************)
(* parse_cdr_row (models/cdr.py): one row of the "unique" template of      *)
(* cdr_csv, a sequence of texts, becomes a record of one leg.              *)
(*                                                                         *)
(* The record keeps the names of the columns; a time is optional, that is, *)
(* a sequence of at most one number.                                       *)
(***************************************************************************)
EXTENDS Integers, Sequences, Functions

CONSTANTS
  Text,    \* the texts of the numbers that occur in rows
  Stamp    \* the texts of the times that do, as the switch renders them

CDR_UNIQUE_COLUMNS == <<
  "caller_id_number", "caller_id_name", "destination_number", "context",
  "start_stamp", "answer_stamp", "end_stamp", "duration", "billsec",
  "hangup_cause", "uuid", "bleg_uuid", "sip_from_user", "sip_to_user",
  "recording", "callcenter_side", "queue_name", "agent_name", "agent_uuid",
  "member_uuid", "member_session_uuid", "queue_joined_epoch",
  "queue_answered_epoch", "queue_terminated_epoch", "queue_canceled_epoch",
  "queue_cause", "queue_cancel_reason" >>

CDR_REQUIRED_COLUMNS == 14

Stamps == {"start_stamp", "answer_stamp", "end_stamp"}
Counts == {"duration", "billsec"}
Epochs == {"queue_joined_epoch", "queue_answered_epoch", "queue_terminated_epoch",
           "queue_canceled_epoch"}

(* strip(), of texts that are blank or have nothing around them. *)
Stripped(text) == IF text = " " THEN "" ELSE text

(* _parse_int *)
IntOrZero(text) ==
  LET n == {k \in DOMAIN Text : Text[k] = text} IN IF n = {} THEN 0 ELSE CHOOSE k \in n : TRUE

(* _parse_ts; Stamp[0] is "1970-01-01 00:00:00".                            *)
StampTime(text) ==
  LET n == {k \in DOMAIN Stamp : Stamp[k] = text}
  IN  IF n \subseteq {0} THEN <<>> ELSE <<CHOOSE k \in n : TRUE>>

(* Fault: an epoch that was never set is the beginning of time. *)
EpochTimeOfZero(text) == <<IntOrZero(text)>>

(* _parse_epoch *)
EpochTime(text) == IF IntOrZero(text) <= 0 THEN <<>> ELSE <<IntOrZero(text)>>

(* dict(zip(CDR_UNIQUE_COLUMNS, row, strict=False)), stripped; a column the *)
(* row has not is blank.                                                    *)
Field(row, column) ==
  LET i == CHOOSE k \in 1..Len(CDR_UNIQUE_COLUMNS) : CDR_UNIQUE_COLUMNS[k] = column
  IN  IF i <= Len(row) THEN Stripped(row[i]) ELSE ""

(* CDRParseError otherwise. *)
Parses(row) == Len(row) >= CDR_REQUIRED_COLUMNS /\ Field(row, "uuid") # ""

Optional(text) == IF text = "" THEN <<>> ELSE <<text>>

parse_cdr_row(row) ==
  [c \in Range(CDR_UNIQUE_COLUMNS) |->
     LET text == Field(row, c) IN
     CASE c \in Stamps -> StampTime(text)
       [] c \in Epochs -> EpochTime(text)
       [] c \in Counts -> IntOrZero(text)
       [] c = "bleg_uuid" -> Optional(text)
       [] OTHER -> text]

(* CallRecord.answered *)
Answered(record) == record["answer_stamp"] # <<>> /\ record["billsec"] > 0
=============================================================================
