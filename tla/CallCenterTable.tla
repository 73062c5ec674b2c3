-------------------------- MODULE CallCenterTable ---------------------------
(***************************************************************************)
(* Replies of mod_callcenter and how the client reads them                 *)
(* (models/callcenter.py, models/commands.py).  A reply is a sequence of   *)
(* lines; a line has a kind, by how it begins, and the stripped cells      *)
(* between its bars.  Comparison of letters ignores case in the code; the  *)
(* texts here are in the spelling of the charts.                           *)
(***************************************************************************)
EXTENDS Naturals, Sequences, FiniteSetsExt, Functions

LineKinds == {"blank", "ok", "refusal", "cells"}
Cells(c) == [kind |-> "cells", cells |-> c]
OkLine == [kind |-> "ok", cells |-> <<"+OK">>]
RefusalLine == [kind |-> "refusal", cells |-> <<"-ERR">>]
NotFoundText == "not found"
NotFoundLine == [kind |-> "refusal", cells |-> <<"-ERR", NotFoundText>>]

(* The first line that is not blank decides what a reply is. *)
Written(text) == {i \in 1..Len(text) : text[i].kind # "blank"}
FirstLine(text) == text[Min(Written(text))]
Begins(text, kind) == Written(text) # {} /\ FirstLine(text).kind = kind

(* CommandReply.ok, of parse_command_reply(text). *)
ReplyOk(text) == Begins(text, "ok")

Refused(text) == Begins(text, "refusal")

(* CommandReply.not_found: "no such channel", "not found" or "cannot        *)
(* locate" in detail, the first line.                                       *)
NotFound(text) ==
  /\ Written(text) # {} /\ ~ReplyOk(text)
  /\ NotFoundText \in Range(FirstLine(text).cells)

(* Fault: columns are taken by position, in the order known today. *)
RowByPosition(header, values) ==
  LET known == <<"name", "contact", "status", "state">>
      names == IF Len(values) >= 4 THEN known ELSE <<"queue", "agent">>
  IN  [c \in {names[i] : i \in 1..Len(names)} |->
         values[CHOOSE i \in 1..Len(names) : names[i] = c]]

(* dict(zip(header, values)): surplus values are dropped, of two columns    *)
(* with one name the last counts, one without a name does not.              *)
Row(header, values) ==
  [c \in Range(header) \ {""} |->
     values[Max({i \in 1..Len(header) : header[i] = c})]]

(* parse_callcenter_table, of a reply that is no refusal (ValueError): the  *)
(* first line that is neither blank nor an acknowledgement names the        *)
(* columns, those after it are the rows; a short one is skipped.            *)
Table(text) ==
  LET lines == {i \in 1..Len(text) : text[i].kind \notin {"blank", "ok"}}
      header == text[Min(lines)].cells
  IN  {Row(header, text[i].cells) :
         i \in {j \in lines : Min(lines) < j /\ Len(text[j].cells) >= Len(header)}}

Get(row, column) == IF column \in DOMAIN row THEN row[column] ELSE ""

AgentStatus == {"Logged Out", "Available", "On Break"}
AgentState == {"Waiting", "Receiving", "Idle"}
FromText(chart, value) == IF value \in chart THEN value ELSE "Unknown"

(* parse_agent_list; the other columns are carried along like contact. *)
AgentList(text) ==
  {[name |-> r.name, contact |-> Get(r, "contact"),
    status |-> FromText(AgentStatus, Get(r, "status")),
    state |-> FromText(AgentState, Get(r, "state"))] :
     r \in {s \in Table(text) : Get(s, "name") # ""}}

(* parse_tier_list; state, level and position default when they are odd.    *)
TierList(text) ==
  {<<r.queue, r.agent>> :
     r \in {s \in Table(text) : Get(s, "queue") # "" /\ Get(s, "agent") # ""}}

(* _bare_value, of a reply that is no refusal. *)
BareValue(text) == IF Written(text) = {} THEN "" ELSE FirstLine(text).cells[1]
=============================================================================
